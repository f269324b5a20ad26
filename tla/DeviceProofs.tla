---------------------------- MODULE DeviceProofs ----------------------------
(***************************************************************************)
(* Proofs about the node and its configuration.  RemoteConfig, for any     *)
(* mapping, number of commands, history limit and mishaps: what the        *)
(* backend shows as applied the node holds, and a verdict that was         *)
(* reported stands.  FlashRing, for a ring, batches and a number range of  *)
(* any size and any number of power losses and flaws: what the node says   *)
(* it stored it keeps, delivers in order, and under numbers never used     *)
(* before.                                                                 *)
(***************************************************************************)
EXTENDS RemoteConfig, FlashRing, SetBounds, SequenceTheorems

(* Configuration commands.                                                 *)

Configuration == [version : Nat, desired : HistoryRow \cup {NoCommand},
                  lastApplied : HistoryRow \cup {NoCommand}, history : Seq(HistoryRow)]
Report == [status : {"applied", "failed", "rejected"}, command : Blob]

(* A report that says applied names a command the node verified.           *)
True(report) == report \in Report /\ (report.status = "applied" => report.command \in held)

ConfigTypeOK ==
  /\ mapping \in [scope : Scopes, active : BOOLEAN]
  /\ held \subseteq Blob /\ flash \in Blob \cup {NoCommand, Corrupt}
  /\ issued \in Nat /\ remaps \in Nat /\ mishaps \in Nat

(* The rows of the history, of the backend or of its backup: each of a     *)
(* command of its own, later ones of later versions, the last the desired  *)
(* one, and none applied that the node did not hold or after `lastApplied'. *)
HistoryInv(c, verified, known) ==
  /\ c \in Configuration
  /\ \A i \in 1 .. Len(c.history) :
       /\ c.history[i].id <= known /\ c.history[i].version <= c.version
       /\ c.history[i].state = "applied" =>
            /\ Command(c.history[i]) \in verified /\ c.lastApplied # NoCommand
            /\ c.history[i].version <= c.lastApplied.version
       /\ \A j \in 1 .. Len(c.history) : i < j =>
            c.history[i].version < c.history[j].version /\ c.history[i].id # c.history[j].id
  /\ c.desired # NoCommand => c.history # <<>> /\ c.desired = c.history[Len(c.history)]
  /\ c.lastApplied # NoCommand =>
       Command(c.lastApplied) \in verified /\ c.lastApplied.version <= c.version

(* The node runs the last command it verified, and what is in its flash is *)
(* that or newer.                                                          *)
NodeInv ==
  /\ node \in [active : Blob \cup {Factory}, result : Report \cup {NoResult}, usable : BOOLEAN]
  /\ node.result # NoResult => True(node.result)
  /\ node.active # Factory => node.active \in held
  /\ node.usable <=> flash # Corrupt
  /\ node.usable => \A c \in held : c.version <= node.active.version
  /\ node.usable /\ node.active # Factory =>
       flash \in Blob /\ node.active.version <= flash.version

CallInv ==
  /\ ~node.usable => call = NoCall
  /\ call.kind = "post" => True(call.report)
  /\ ForNode => call.desired \in Blob
  /\ \A report \in lateReports : True(report)

ConfigIInv ==
  /\ ConfigTypeOK /\ NodeInv /\ CallInv
  /\ HistoryInv(config, held, issued) /\ HistoryInv(backup, held, issued)

-----------------------------------------------------------------------------
(* The history.                                                            *)

LEMMA HistoryGrows ==
  ASSUME NEW c, NEW verified, NEW more, NEW known \in Nat, NEW later \in Nat,
         HistoryInv(c, verified, known), verified \subseteq more, known <= later
  PROVE  HistoryInv(c, more, later)
<1>1. c.history \in Seq(HistoryRow)
  BY DEF HistoryInv, Configuration
<1>2. \A i \in 1 .. Len(c.history) : c.history[i] \in HistoryRow
  BY <1>1, ElementOfSeq
<1>3. \A i \in 1 .. Len(c.history) : c.history[i].id \in Nat
  BY <1>2 DEF HistoryRow
<1> QED
  BY <1>3 DEF HistoryInv

LEMMA NewestIs ==
  ASSUME NEW s \in Seq(HistoryRow), s # <<>>
  PROVE  \E dropped \in {0, 1} :
            /\ Newest(s) \in Seq(HistoryRow) /\ Newest(s) # <<>>
            /\ Len(Newest(s)) = Len(s) - dropped
            /\ \A i \in 1 .. Len(Newest(s)) : Newest(s)[i] = s[i + dropped]
<1> DEFINE dropped == IF Len(s) > HistoryLimit THEN 1 ELSE 0
<1>1. Len(s) \in Nat \ {0} /\ HistoryLimit \in Nat \ {0}
  BY EmptySeq, RemoteConfigConstants
<1>2. Newest(s) = SubSeq(s, dropped + 1, Len(s)) /\ dropped \in {0, 1} /\ dropped < Len(s)
  BY <1>1 DEF Newest
<1>3. PICK d \in {0, 1} : d = dropped
  BY <1>2
<1>4. \A i \in d + 1 .. Len(s) : s[i] \in HistoryRow
  BY <1>1, ElementOfSeq
<1> HIDE DEF dropped
<1>5. /\ SubSeq(s, d + 1, Len(s)) \in Seq(HistoryRow)
      /\ Len(SubSeq(s, d + 1, Len(s))) = Len(s) - d
      /\ \A i \in 1 .. Len(s) - d : SubSeq(s, d + 1, Len(s))[i] = s[i + d]
  <2>1. d + 1 <= Len(s) /\ d + 1 \in Int /\ Len(s) \in Int
    BY <1>1, <1>2, <1>3
  <2>2. /\ SubSeq(s, d + 1, Len(s)) \in Seq(HistoryRow)
        /\ Len(SubSeq(s, d + 1, Len(s))) = (IF d + 1 <= Len(s) THEN Len(s) - (d + 1) + 1 ELSE 0)
        /\ \A i \in 1 .. Len(s) - (d + 1) + 1 :
             SubSeq(s, d + 1, Len(s))[i] = s[(d + 1) + i - 1]
    BY <1>4, <2>1, SubSeqProperties
  <2>3. Len(s) - (d + 1) + 1 = Len(s) - d /\ \A i \in Int : (d + 1) + i - 1 = i + d
    BY <2>1
  <2> QED
    BY <2>1, <2>2, <2>3
<1>6. Newest(s) # <<>>
  <2>1. Len(Newest(s)) # 0
    BY <1>1, <1>2, <1>3, <1>5
  <2>2. Len(<<>>) = 0
    BY EmptySeq
  <2> QED
    BY <2>1, <2>2
<1> QED
  BY <1>2, <1>3, <1>5, <1>6

(* A command that is requested becomes the last row, of a version and an id *)
(* of its own.                                                             *)
LEMMA RequestKeepsHistory ==
  ASSUME NEW c, NEW verified, NEW known \in Nat, HistoryInv(c, verified, known),
         NEW command \in HistoryRow, command.version = c.version + 1, command.id = known + 1,
         command.state = "pending",
         NEW d, d = [version |-> c.version + 1, desired |-> command,
                     lastApplied |-> c.lastApplied,
                     history |-> Newest(Append(c.history, command))]
  PROVE  /\ HistoryInv(d, verified, known + 1) /\ d.version >= c.version
         /\ \A i \in 1 .. Len(c.history), j \in 1 .. Len(d.history) :
              c.history[i].id = d.history[j].id => c.history[i] = d.history[j]
<1>1. /\ c \in Configuration /\ c.history \in Seq(HistoryRow) /\ c.version \in Nat
      /\ c.lastApplied \in HistoryRow \cup {NoCommand}
  BY DEF HistoryInv, Configuration
<1> DEFINE h == c.history  long == Append(h, command)  g == d.history  n == Len(h)
<1>2. n \in Nat /\ \A i \in 1 .. n : h[i] \in HistoryRow
  BY <1>1, LenProperties, ElementOfSeq
<1>3. /\ long \in Seq(HistoryRow) /\ long # <<>> /\ Len(long) = n + 1
      /\ \A i \in 1 .. n : long[i] = h[i]
      /\ long[n + 1] = command
  BY <1>1, AppendProperties
<1>4. /\ d.version = c.version + 1 /\ d.desired = command /\ d.lastApplied = c.lastApplied
      /\ g = Newest(long)
      /\ d = [version |-> c.version + 1, desired |-> command, lastApplied |-> c.lastApplied,
              history |-> g]
  BY <1>1 DEF Configuration
<1>5. PICK e \in {0, 1} : /\ g \in Seq(HistoryRow) /\ g # <<>> /\ Len(g) = n + 1 - e
                          /\ \A i \in 1 .. Len(g) : g[i] = long[i + e]
  <2> HIDE DEF long, g
  <2>1. PICK dropped \in {0, 1} :
          /\ Newest(long) \in Seq(HistoryRow) /\ Newest(long) # <<>>
          /\ Len(Newest(long)) = Len(long) - dropped
          /\ \A i \in 1 .. Len(Newest(long)) : Newest(long)[i] = long[i + dropped]
    BY <1>3, NewestIs
  <2>2. g = Newest(long) /\ Len(long) = n + 1
    BY <1>3, <1>4
  <2>3. /\ g \in Seq(HistoryRow) /\ g # <<>> /\ Len(g) = n + 1 - dropped
        /\ \A i \in 1 .. Len(g) : g[i] = long[i + dropped]
    BY <2>1, <2>2
  <2> QED
    BY <2>3
<1>6. \A i \in 1 .. Len(g) : g[i] = (IF i + e <= n THEN h[i + e] ELSE command)
  <2> TAKE i \in 1 .. Len(g)
  <2>1. i + e \in 1 .. n + 1
    BY <1>2, <1>5
  <2> QED
    BY <1>2, <1>3, <1>5, <2>1
<1>7. d \in Configuration
  BY <1>1, <1>4, <1>5 DEF Configuration
<1>8. \A i \in 1 .. n : h[i].id \in Nat /\ h[i].id <= known /\ h[i].version <= c.version
                         /\ h[i].version \in Nat
  BY <1>2 DEF HistoryRow, HistoryInv
<1>9. g[Len(g)] = command /\ Len(g) \in Nat \ {0}
  <2>1. Len(g) + e = n + 1 /\ Len(g) \in Nat \ {0}
    BY <1>2, <1>5, EmptySeq
  <2> QED
    BY <1>2, <1>6, <2>1
<1> HIDE DEF g, long
<1>10. ASSUME NEW i \in 1 .. Len(g)
       PROVE  /\ g[i].id <= known + 1 /\ g[i].version <= d.version
              /\ g[i].state = "applied" =>
                   /\ Command(g[i]) \in verified /\ d.lastApplied # NoCommand
                   /\ g[i].version <= d.lastApplied.version
              /\ \A j \in 1 .. Len(g) : i < j => g[i].version < g[j].version /\ g[i].id # g[j].id
  <2>1. i + e \in Nat /\ i \in Nat /\ (i + e <= n => i + e \in 1 .. n) /\ i + e <= n + 1
    BY <1>2, <1>5
  <2>2. CASE i + e <= n
    <3>1. g[i] = h[i + e] /\ i + e \in 1 .. n
      BY <1>6, <2>1, <2>2
    <3>2. /\ g[i].id <= known /\ g[i].id \in Nat /\ g[i].version \in Nat
          /\ g[i].version <= c.version
      BY <1>8, <3>1
    <3>3. g[i].state = "applied" =>
            /\ Command(g[i]) \in verified /\ d.lastApplied # NoCommand
            /\ g[i].version <= d.lastApplied.version
      BY <1>4, <3>1 DEF HistoryInv
    <3>4. ASSUME NEW j \in 1 .. Len(g), i < j
          PROVE  g[i].version < g[j].version /\ g[i].id # g[j].id
      <4>1. CASE j + e <= n
        <5>1. j \in Nat /\ 1 <= j /\ i + e < j + e /\ j + e \in 1 .. n
          BY <1>2, <1>5, <2>1, <3>4, <4>1
        <5>2. g[j] = h[j + e]
          BY <1>6, <4>1
        <5> QED
          BY <3>1, <5>1, <5>2 DEF HistoryInv
      <4>2. CASE ~(j + e <= n)
        <5>1. g[j] = command
          BY <1>6, <4>2
        <5> QED
          BY <1>1, <3>2, <5>1
      <4> QED
        BY <4>1, <4>2
    <3> QED
      BY <1>1, <1>4, <3>2, <3>3, <3>4
  <2>3. CASE ~(i + e <= n)
    <3>1. g[i] = command
      BY <1>6, <2>3
    <3>2. i = Len(g)
      BY <1>2, <1>5, <2>1, <2>3
    <3> QED
      BY <1>1, <1>4, <1>9, <3>1, <3>2
  <2> QED
    BY <2>2, <2>3
<1>11. HistoryInv(d, verified, known + 1)
  <2>1. d.lastApplied # NoCommand =>
          Command(d.lastApplied) \in verified /\ d.lastApplied.version <= d.version
    BY <1>1, <1>4 DEF HistoryInv, HistoryRow
  <2> QED
    BY <1>4, <1>5, <1>7, <1>9, <1>10, <2>1 DEF HistoryInv, g
<1>12. ASSUME NEW i \in 1 .. n, NEW j \in 1 .. Len(g), h[i].id = g[j].id
       PROVE  h[i] = g[j]
  <2>1. j + e <= n
    <3> SUFFICES ASSUME ~(j + e <= n) PROVE FALSE
      OBVIOUS
    <3>1. g[j] = command
      BY <1>6
    <3> QED
      BY <1>8, <1>12, <3>1
  <2>2. g[j] = h[j + e] /\ j + e \in 1 .. n
    BY <1>2, <1>5, <1>6, <2>1
  <2>3. i = j + e
    <3>1. ~(i < j + e) /\ ~(j + e < i)
      BY <1>12, <2>2 DEF HistoryInv
    <3> QED
      BY <1>2, <2>2, <3>1
  <2> QED
    BY <2>2, <2>3
<1> QED
  BY <1>1, <1>4, <1>11, <1>12 DEF g

LEMMA OwnIds ==
  ASSUME NEW c, NEW verified, NEW known, HistoryInv(c, verified, known)
  PROVE  \A i, j \in 1 .. Len(c.history) : c.history[i].id = c.history[j].id => i = j
<1> SUFFICES ASSUME NEW i \in 1 .. Len(c.history), NEW j \in 1 .. Len(c.history),
                    c.history[i].id = c.history[j].id
             PROVE  i = j
  OBVIOUS
<1>1. ~(i < j) /\ ~(j < i)
  BY DEF HistoryInv
<1>2. Len(c.history) \in Nat
  BY LenProperties DEF HistoryInv, Configuration
<1> QED
  BY <1>1, <1>2

(* A report changes the row of the desired command only, and not once it   *)
(* says applied.                                                           *)
LEMMA ReportKeepsHistory ==
  ASSUME HistoryInv(config, held, issued), NEW report, True(report), NEW d, d = Reported(report)
  PROVE  /\ HistoryInv(d, held, issued) /\ d.version = config.version
         /\ \A i \in 1 .. Len(config.history), j \in 1 .. Len(d.history) :
              /\ config.history[i].id = d.history[j].id
              /\ config.history[i] # d.history[j]
              => config.history[i] = config.desired /\ config.history[i].state # "applied"
<1> DEFINE h == config.history  n == Len(h)
           updated == [config.desired EXCEPT !.state = report.status]
<1>1. /\ config \in Configuration /\ h \in Seq(HistoryRow) /\ n \in Nat
      /\ \A i \in 1 .. n : h[i] \in HistoryRow
  BY LenProperties, ElementOfSeq DEF HistoryInv, Configuration
<1>2. CASE d = config
  BY <1>2, OwnIds
<1>3. CASE d # config
  <2>1. Acceptable(report) /\ config.desired.state # report.status
    BY <1>3 DEF Reported
  <2>2. /\ config.desired # NoCommand /\ config.desired \in HistoryRow
        /\ Command(config.desired) = report.command
        /\ config.desired.state # "applied"
    BY <1>1, <2>1 DEF Acceptable, CurrentCommand, Configuration
  <2>3. n > 0 /\ h[n] = config.desired
    <3>1. h # <<>> /\ config.desired = h[n]
      BY <2>2 DEF HistoryInv
    <3> QED
      BY <1>1, <3>1, EmptySeq
  <2>4. /\ updated \in HistoryRow /\ updated.id = config.desired.id
        /\ updated.version = config.desired.version /\ updated.state = report.status
        /\ Command(updated) = report.command
    BY <2>2 DEF True, Report, HistoryRow, Command
  <2>5. d = [config EXCEPT !.desired = updated,
                           !.history = [i \in DOMAIN @ |->
                                           IF @[i].id = updated.id THEN updated ELSE @[i]],
                           !.lastApplied = IF report.status = "applied" THEN updated ELSE @]
    BY <1>3 DEF Reported
  <2> DEFINE g == d.history
  <2>6. /\ d.version = config.version /\ d.desired = updated
        /\ d.lastApplied = (IF report.status = "applied" THEN updated ELSE config.lastApplied)
        /\ g = [i \in DOMAIN h |-> IF h[i].id = updated.id THEN updated ELSE h[i]]
        /\ d = [version |-> config.version, desired |-> updated,
                lastApplied |-> (IF report.status = "applied" THEN updated ELSE config.lastApplied),
                history |-> g]
    BY <1>1, <2>5 DEF Configuration
  <2> HIDE DEF updated
  <2>7. /\ g \in Seq(HistoryRow) /\ Len(g) = n
        /\ \A i \in 1 .. n : g[i] = IF i = n THEN updated ELSE h[i]
    <3>1. \A i \in 1 .. n : (h[i].id = updated.id) <=> i = n
      BY <1>1, <2>3, <2>4, OwnIds
    <3>2. DOMAIN h = 1 .. n
      BY <1>1, LenProperties
    <3>3. g = [h EXCEPT ![n] = updated]
      BY SMTT(60), <1>1, <2>6, <3>1, <3>2, LenProperties
    <3>4. n \in 1 .. Len(h)
      BY <1>1, <2>3
    <3> HIDE DEF g
    <3> QED
      BY <1>1, <2>4, <3>3, <3>4, ExceptSeq
  <2> HIDE DEF g
  <2>8. \A i \in 1 .. n : g[i].id = h[i].id /\ g[i].version = h[i].version
    BY <2>3, <2>4, <2>7
  <2>9. report.status = "applied" => Command(updated) \in held
    BY <2>4 DEF True
  <2>10. \A i \in 1 .. n : h[i].version \in Nat /\ h[i].version <= h[n].version
    <3> TAKE i \in 1 .. n
    <3>1. n \in 1 .. n /\ (i = n \/ i < n)
      BY <1>1, <2>3
    <3>2. h[i] \in HistoryRow /\ h[n] \in HistoryRow
      BY SMTT(60), <1>1, <3>1
    <3>3. h[i].version \in Nat /\ h[n].version \in Nat
      BY <3>2 DEF HistoryRow
    <3>4. i < n => h[i].version < h[n].version
      BY <3>1 DEF HistoryInv
    <3> QED
      BY <3>1, <3>3, <3>4
  <2>11. ASSUME NEW i \in 1 .. n, g[i].state = "applied"
         PROVE  /\ Command(g[i]) \in held /\ d.lastApplied # NoCommand
                /\ g[i].version <= d.lastApplied.version
    <3>1. CASE report.status = "applied"
      <4>1. d.lastApplied = updated /\ updated # NoCommand
        BY <2>4, <2>6, <3>1, MarksAreNoCommands
      <4>2. Command(g[i]) \in held
        BY <2>7, <2>9, <2>11, <3>1 DEF HistoryInv
      <4>3. g[i].version <= updated.version
        BY <2>3, <2>4, <2>8, <2>10
      <4> QED
        BY <4>1, <4>2, <4>3
    <3>2. CASE report.status # "applied"
      <4>1. i # n
        BY <2>4, <2>7, <2>11, <3>2
      <4> QED
        BY SMTT(60), <2>6, <2>7, <2>11, <3>2, <4>1 DEF HistoryInv
    <3> QED
      BY <3>1, <3>2
  <2>12. d.lastApplied # NoCommand =>
           Command(d.lastApplied) \in held /\ d.lastApplied.version <= d.version
    <3>1. updated.version <= config.version
      <4>1. n \in 1 .. n
        BY <1>1, <2>3
      <4> QED
        BY <2>3, <2>4, <4>1 DEF HistoryInv
    <3> QED
      BY <2>6, <2>9, <3>1 DEF HistoryInv
  <2>13. d \in Configuration
    BY <1>1, <2>4, <2>6, <2>7 DEF Configuration
  <2>14. \A i \in 1 .. n : h[i].id <= issued /\ h[i].version <= config.version
    BY DEF HistoryInv
  <2>15. g # <<>> /\ d.desired = g[n]
    <3>1. n \in 1 .. n /\ n # 0 /\ Len(g) = n
      BY <1>1, <2>3, <2>7
    <3>2. Len(<<>>) = 0
      BY EmptySeq
    <3>3. g # <<>>
      BY <3>1, <3>2
    <3>4. g[n] = updated
      BY <2>7, <3>1
    <3> QED
      BY <2>6, <3>3, <3>4
  <2>16. \A i, j \in 1 .. n : i < j => h[i].version < h[j].version /\ h[i].id # h[j].id
    BY DEF HistoryInv
  <2>17. HistoryInv(d, held, issued)
    <3>1. \A i \in 1 .. n : g[i].id <= issued /\ g[i].version <= d.version
      BY <2>6, <2>8, <2>14
    <3>2. \A i, j \in 1 .. n : i < j => g[i].version < g[j].version /\ g[i].id # g[j].id
      BY <2>8, <2>16
    <3>3. Len(d.history) = n /\ d.history = g
      BY <2>7 DEF g
    <3> QED
      BY <3>1, <3>2, <3>3, <2>11, <2>12, <2>13, <2>15 DEF HistoryInv
  <2>18. ASSUME NEW i \in 1 .. n, NEW j \in 1 .. n, h[i].id = g[j].id, h[i] # g[j]
         PROVE  h[i] = config.desired /\ h[i].state # "applied"
    <3>1. i = j
      BY <2>8, <2>18, OwnIds
    <3>2. i = n
      BY <2>7, <2>18, <3>1
    <3> QED
      BY <2>2, <2>3, <3>2
  <2> QED
    BY <2>6, <2>7, <2>17, <2>18 DEF g
<1> QED
  BY <1>2, <1>3

-----------------------------------------------------------------------------
(* The steps.                                                              *)

LEMMA MishapTyped == ASSUME ConfigTypeOK, Mishap PROVE mishaps' \in Nat
BY DEF ConfigTypeOK, Mishap

LEMMA HistoriesRest ==
  ASSUME ConfigIInv, UNCHANGED <<config, backup, issued>>, held \subseteq held'
  PROVE  HistoryInv(config, held, issued)' /\ HistoryInv(backup, held, issued)'
<1>1. issued \in Nat /\ issued <= issued
  BY DEF ConfigIInv, ConfigTypeOK
<1>2. HistoryInv(config, held', issued) /\ HistoryInv(backup, held', issued)
  BY <1>1, HistoryGrows DEF ConfigIInv
<1> QED
  BY <1>2

(* Operators leave the node and its calls alone.                           *)
LEMMA NodeRests ==
  ASSUME ConfigIInv, UNCHANGED <<flash, node, call, lateReports, held>>
  PROVE  NodeInv' /\ CallInv'
BY DEF ConfigIInv, NodeInv, CallInv, True, ForNode

LEMMA RequestedIs ==
  ASSUME ConfigIInv, RequestConfiguration
  PROVE  /\ HistoryInv(config', held, issued + 1) /\ config'.version >= config.version
         /\ \A i \in 1 .. Len(config.history), j \in 1 .. Len(config'.history) :
              config.history[i].id = config'.history[j].id =>
                config.history[i] = config'.history[j]
<1> DEFINE command == [version |-> config.version + 1, id |-> issued + 1,
                       scope |-> mapping.scope, state |-> "pending"]
<1>1. issued \in Nat /\ mapping.scope \in Scopes /\ config.version \in Nat
  BY DEF ConfigIInv, ConfigTypeOK, HistoryInv, Configuration
<1>2. command \in HistoryRow
  BY <1>1 DEF HistoryRow
<1>3. /\ command.version = config.version + 1 /\ command.id = issued + 1
      /\ command.state = "pending"
  OBVIOUS
<1>4. config' = [version |-> config.version + 1, desired |-> command,
                 lastApplied |-> config.lastApplied,
                 history |-> Newest(Append(config.history, command))]
  BY DEF RequestConfiguration, ConfigIInv, HistoryInv, Configuration
<1>5. HistoryInv(config, held, issued)
  BY DEF ConfigIInv
<1> HIDE DEF command
<1> QED
  BY SMTT(60), <1>1, <1>2, <1>3, <1>4, <1>5, RequestKeepsHistory

LEMMA RequestConfigurationInv ==
  ASSUME ConfigIInv, RequestConfiguration
  PROVE  ConfigIInv'
<1>1. /\ UNCHANGED <<backup, mapping, flash, node, call, lateReports, held, remaps, mishaps>>
      /\ issued' = issued + 1
  BY DEF RequestConfiguration
<1>2. issued \in Nat /\ issued + 1 \in Nat /\ issued <= issued + 1 /\ ConfigTypeOK'
  BY <1>1 DEF ConfigIInv, ConfigTypeOK
<1>3. HistoryInv(config', held', issued')
  BY <1>1, RequestedIs
<1>4. HistoryInv(backup', held', issued')
  BY <1>1, <1>2, HistoryGrows DEF ConfigIInv
<1> QED
  BY <1>1, <1>2, <1>3, <1>4, NodeRests DEF ConfigIInv

LEMMA RemapInv == ASSUME ConfigIInv, Remap PROVE ConfigIInv'
<1>1. UNCHANGED <<config, backup, flash, node, call, lateReports, held, issued, mishaps>>
  BY DEF Remap
<1>2. ConfigTypeOK'
  BY DEF Remap, ConfigIInv, ConfigTypeOK
<1> QED
  BY <1>1, <1>2, NodeRests, HistoriesRest DEF ConfigIInv

LEMMA BackupInv == ASSUME ConfigIInv, TakeBackup \/ RestoreBackup PROVE ConfigIInv'
<1>1. /\ UNCHANGED <<mapping, flash, node, call, lateReports, held, issued, remaps>>
      /\ mishaps' \in Nat
      /\ {config', backup'} \subseteq {config, backup}
  BY MishapTyped DEF TakeBackup, RestoreBackup, ConfigIInv
<1>2. ConfigTypeOK'
  BY <1>1 DEF ConfigIInv, ConfigTypeOK
<1>3. HistoryInv(config', held', issued') /\ HistoryInv(backup', held', issued')
  BY <1>1 DEF ConfigIInv
<1> QED
  BY <1>1, <1>2, <1>3, NodeRests DEF ConfigIInv

LEMMA ServeGetInv == ASSUME ConfigIInv, ServeGet PROVE ConfigIInv'
<1>1. UNCHANGED <<config, backup, mapping, flash, node, lateReports, held, issued, remaps, mishaps>>
  BY DEF ServeGet
<1>2. node.usable /\ call.kind = "get" /\ call'.kind = "got"
  BY DEF ServeGet, ConfigIInv, CallInv, NoCall, PendingConfiguration
<1>3. ForNode' => call'.desired \in Blob
  <2> SUFFICES ASSUME ForNode' PROVE call'.desired \in Blob
    OBVIOUS
  <2>1. config.desired \in HistoryRow \cup {NoCommand}
    BY DEF ConfigIInv, HistoryInv, Configuration
  <2>2. config.desired # NoCommand /\ call'.desired = Command(config.desired)
    BY DEF ForNode, ServeGet, PendingConfiguration
  <2> QED
    BY <2>1, <2>2 DEF Command, HistoryRow, Blob
<1>4. CallInv'
  BY <1>1, <1>2, <1>3 DEF ConfigIInv, CallInv, True
<1>5. ConfigTypeOK' /\ NodeInv'
  BY <1>1 DEF ConfigIInv, ConfigTypeOK, NodeInv, True
<1> QED
  BY <1>1, <1>4, <1>5, HistoriesRest DEF ConfigIInv

LEMMA ReportedInv ==
  ASSUME ConfigIInv, NEW report, True(report), config' = Reported(report),
         UNCHANGED <<backup, held, issued>>
  PROVE  HistoryInv(config, held, issued)' /\ HistoryInv(backup, held, issued)'
<1>1. HistoryInv(config', held, issued)
  BY ReportKeepsHistory DEF ConfigIInv
<1> QED
  BY <1>1 DEF ConfigIInv

LEMMA ServePostInv == ASSUME ConfigIInv, ServePost PROVE ConfigIInv'
<1>1. /\ UNCHANGED <<backup, mapping, flash, node, lateReports, held, issued, remaps, mishaps>>
      /\ config' = Reported(call.report) /\ call.kind = "post" /\ call'.kind = "posted"
  BY DEF ServePost
<1>2. True(call.report) /\ node.usable
  BY <1>1 DEF ConfigIInv, CallInv, NoCall
<1>3. CallInv'
  BY <1>1, <1>2 DEF ConfigIInv, CallInv, ForNode, True
<1>4. ConfigTypeOK' /\ NodeInv'
  BY <1>1 DEF ConfigIInv, ConfigTypeOK, NodeInv, True
<1> QED
  BY <1>1, <1>2, <1>3, <1>4, ReportedInv DEF ConfigIInv

LEMMA ServeLateInv ==
  ASSUME ConfigIInv, NEW report \in lateReports, ServeLate(report)
  PROVE  ConfigIInv'
<1>1. /\ UNCHANGED <<backup, mapping, flash, node, call, held, issued, remaps, mishaps>>
      /\ config' = Reported(report) /\ lateReports' \subseteq lateReports
  BY DEF ServeLate
<1>2. True(report)
  BY DEF ConfigIInv, CallInv
<1>3. CallInv'
  BY <1>1 DEF ConfigIInv, CallInv, ForNode, True
<1>4. ConfigTypeOK' /\ NodeInv'
  BY <1>1 DEF ConfigIInv, ConfigTypeOK, NodeInv, True
<1> QED
  BY <1>1, <1>2, <1>3, <1>4, ReportedInv DEF ConfigIInv

(* A step of the node that leaves flash alone: only its result and its call *)
(* change.                                                                 *)
LEMMA ControllerInv ==
  ASSUME ConfigIInv, NEW result,
         result = NoResult \/ True(result),
         node' = [node EXCEPT !.result = result], node'.usable \/ call' = NoCall,
         call'.kind = "post" => True(call'.report), ~ForNode',
         UNCHANGED <<config, backup, mapping, flash, lateReports, held, issued, remaps, mishaps>>
  PROVE  ConfigIInv'
<1>1. ConfigTypeOK'
  BY DEF ConfigIInv, ConfigTypeOK
<1>2. /\ node'.active = node.active /\ node'.usable = node.usable /\ node'.result = result
      /\ node' \in [active : Blob \cup {Factory}, result : Report \cup {NoResult}, usable : BOOLEAN]
  BY DEF ConfigIInv, NodeInv, True
<1>3. NodeInv'
  BY <1>2 DEF ConfigIInv, NodeInv, True
<1>4. CallInv'
  BY DEF ConfigIInv, CallInv, True
<1> QED
  BY <1>1, <1>3, <1>4, HistoriesRest DEF ConfigIInv

LEMMA NodeUnchanged ==
  ASSUME NodeInv PROVE node = [node EXCEPT !.result = node.result]
BY DEF NodeInv

LEMMA ServiceInv == ASSUME ConfigIInv, Service PROVE ConfigIInv'
<1>1. node.result = NoResult \/ True(node.result)
  BY DEF ConfigIInv, NodeInv
<1>2. /\ UNCHANGED <<config, backup, mapping, flash, lateReports, held, issued, remaps, mishaps>>
      /\ node' = [node EXCEPT !.result = node.result] /\ node'.usable
      /\ call'.kind = "post" => True(call'.report)
      /\ ~ForNode'
  BY <1>1, NodeUnchanged DEF Service, ForNode, ConfigIInv
<1> QED
  BY <1>1, <1>2, ControllerInv

LEMMA ReceiveOtherInv == ASSUME ConfigIInv, ReceiveOther PROVE ConfigIInv'
<1>1. /\ UNCHANGED <<config, backup, mapping, flash, lateReports, held, issued, remaps, mishaps>>
      /\ node' = [node EXCEPT !.result = NoResult] /\ call' = NoCall
      /\ call'.kind # "post" /\ ~ForNode'
  BY DEF ReceiveOther, NoCall, ForNode
<1> QED
  BY <1>1, ControllerInv

LEMMA ReceiveErrorInv == ASSUME ConfigIInv, ReceiveError PROVE ConfigIInv'
<1>1. /\ UNCHANGED <<config, backup, mapping, flash, lateReports, held, issued, remaps, mishaps>>
      /\ node' = [node EXCEPT !.result = node.result] /\ call' = NoCall
      /\ call'.kind # "post" /\ ~ForNode'
  BY NodeUnchanged DEF ReceiveError, NoCall, ForNode, ConfigIInv
<1>2. node.result = NoResult \/ True(node.result)
  BY DEF ConfigIInv, NodeInv
<1> QED
  BY <1>1, <1>2, ControllerInv

LEMMA ReceiveVerdictInv == ASSUME ConfigIInv, ReceiveVerdict PROVE ConfigIInv'
<1>1. /\ UNCHANGED <<config, backup, mapping, flash, lateReports, held, issued, remaps, mishaps>>
      /\ call' = NoCall /\ call'.kind # "post" /\ ~ForNode'
  BY DEF ReceiveVerdict, NoCall, ForNode
<1>2. PICK result \in {NoResult, node.result} : node' = [node EXCEPT !.result = result]
  BY NodeUnchanged DEF ReceiveVerdict, ConfigIInv
<1>3. result = NoResult \/ True(result)
  BY <1>2 DEF ConfigIInv, NodeInv
<1> QED
  BY <1>1, <1>2, <1>3, ControllerInv

(* A command no newer than the active one is the active one, or refused.   *)
LEMMA ReceiveOldInv == ASSUME ConfigIInv, ReceiveOld PROVE ConfigIInv'
<1>1. /\ UNCHANGED <<config, backup, mapping, flash, lateReports, held, issued, remaps, mishaps>>
      /\ node' = [node EXCEPT !.result = Unstored(call.desired)] /\ call' = NoCall
      /\ call'.kind # "post" /\ ~ForNode'
  BY DEF ReceiveOld, NoCall, ForNode
<1>2. call.desired \in Blob /\ call.desired.version \in Nat \ {0}
      /\ call.desired.version <= node.active.version
  BY DEF ReceiveOld, ConfigIInv, CallInv, Blob
<1>3. call.desired = node.active => node.active # Factory /\ node.active \in held
  BY <1>2 DEF Factory, ConfigIInv, NodeInv
<1>4. True(Unstored(call.desired))
  <2>1. True(Refusal(call.desired, "rejected"))
    BY <1>2 DEF Refusal, True, Report
  <2>2. call.desired = node.active => True(Applied(node.active))
    BY <1>2, <1>3 DEF Applied, True, Report
  <2>3. Unstored(call.desired) = Refusal(call.desired, "rejected")
        \/ (call.desired = node.active /\ Unstored(call.desired) = Applied(node.active))
    BY DEF Unstored
  <2> QED
    BY <2>1, <2>2, <2>3
<1> QED
  BY <1>1, <1>4, ControllerInv

(* A newer command is verified in flash, or nothing but the flash changes. *)
LEMMA ReceiveNewInv ==
  ASSUME ConfigIInv, NEW how \in {"verified", "unwritten", "unverified"}, ReceiveNew(how)
  PROVE  ConfigIInv'
<1>1. /\ UNCHANGED <<config, backup, mapping, lateReports, issued, remaps>> /\ call' = NoCall
      /\ held \subseteq held' /\ mishaps' \in Nat
  BY MishapTyped DEF ReceiveNew, ConfigIInv, ConfigTypeOK
<1>2. /\ node.usable /\ call.desired \in Blob /\ call.desired.version \in Nat
      /\ call.desired.version > node.active.version
  BY DEF ReceiveNew, ForNode, ConfigIInv, CallInv, NoCall, Blob
<1>3. PICK desired \in Blob : desired = call.desired
  BY <1>2
<1>4. /\ flash' = (IF how = "unwritten" THEN flash ELSE desired)
      /\ held' = (IF how = "verified" THEN held \cup {desired} ELSE held)
      /\ node' = (IF how = "verified"
                  THEN [node EXCEPT !.active = desired, !.result = Applied(desired)]
                  ELSE [node EXCEPT !.result = Refusal(desired, "failed")])
  BY <1>3 DEF ReceiveNew, StoredOn
<1>5. /\ node \in [active : Blob \cup {Factory}, result : Report \cup {NoResult}, usable : BOOLEAN]
      /\ flash # Corrupt /\ desired # Corrupt /\ desired.version > node.active.version
      /\ desired.version \in Nat \ {0} /\ node.active.version \in Nat
      /\ \A c \in held : c.version <= node.active.version /\ c.version \in Nat
  BY <1>2, <1>3, MarksAreNoCommands DEF ConfigIInv, NodeInv, ConfigTypeOK, Blob, Factory
<1>6. ConfigTypeOK'
  BY <1>1, <1>4 DEF ConfigIInv, ConfigTypeOK
<1>7. NodeInv'
  <2>1. CASE how = "verified"
    <3>1. /\ flash' = desired /\ held' = held \cup {desired}
          /\ node'.active = desired /\ node'.usable = node.usable
          /\ node'.result = [status |-> "applied", command |-> desired]
          /\ node' = [node EXCEPT !.active = desired, !.result = node'.result]
      BY <1>4, <1>5, <2>1 DEF Applied, Factory
    <3>2. /\ node'.result \in Report /\ node'.result.status = "applied"
          /\ node'.result.command \in held'
      BY <3>1 DEF Report
    <3>3. node' \in [active : Blob \cup {Factory}, result : Report \cup {NoResult},
                     usable : BOOLEAN]
      BY <1>5, <3>1, <3>2
    <3>4. \A c \in held' : c.version <= desired.version
      BY <1>5, <3>1
    <3> QED
      BY <1>2, <1>5, <3>1, <3>2, <3>3, <3>4 DEF NodeInv, True
  <2>2. CASE how # "verified"
    <3>1. /\ flash' \in {flash, desired} /\ held' = held
          /\ node'.active = node.active /\ node'.usable = node.usable
          /\ node'.result = [status |-> "failed", command |-> desired]
          /\ node' = [node EXCEPT !.result = node'.result]
      BY <1>4, <1>5, <2>2 DEF Refusal
    <3>2. node'.result \in Report /\ node'.result.status # "applied"
      BY <3>1 DEF Report
    <3>3. node' \in [active : Blob \cup {Factory}, result : Report \cup {NoResult},
                     usable : BOOLEAN]
      BY <1>5, <3>1, <3>2
    <3>4. node.active # Factory => node.active \in held /\ flash \in Blob
                                   /\ node.active.version <= flash.version
      BY <1>2 DEF ConfigIInv, NodeInv
    <3> QED
      BY <1>2, <1>5, <3>1, <3>2, <3>3, <3>4 DEF NodeInv, True
  <2> QED
    BY <2>1, <2>2
<1>8. CallInv'
  BY <1>1 DEF ConfigIInv, CallInv, NoCall, ForNode, True
<1> QED
  BY <1>1, <1>6, <1>7, <1>8, HistoriesRest DEF ConfigIInv

LEMMA TimeOutInv == ASSUME ConfigIInv, TimeOut PROVE ConfigIInv'
<1>1. /\ UNCHANGED <<config, backup, mapping, flash, node, held, issued, remaps>>
      /\ call' = NoCall /\ mishaps' \in Nat
  BY MishapTyped DEF TimeOut, ConfigIInv
<1>2. \A report \in lateReports' : True(report)
  BY DEF TimeOut, Abandoned, ConfigIInv, CallInv
<1>3. CallInv'
  BY <1>1, <1>2 DEF CallInv, NoCall, ForNode, True
<1>4. ConfigTypeOK' /\ NodeInv'
  BY <1>1 DEF ConfigIInv, ConfigTypeOK, NodeInv, True
<1> QED
  BY <1>1, <1>3, <1>4, HistoriesRest DEF ConfigIInv

(* A node that starts holds what is in its flash, which nothing it verified *)
(* is newer than.                                                          *)
LEMMA RebootNodeInv == ASSUME ConfigIInv, RebootNode PROVE ConfigIInv'
<1>1. /\ UNCHANGED <<config, backup, mapping, issued, remaps>> /\ call' = NoCall
      /\ held \subseteq held' /\ mishaps' \in Nat
  BY MishapTyped DEF RebootNode, ConfigIInv
<1>2. /\ node.active \in Blob \cup {Factory} /\ node.active.version \in Nat
      /\ node.usable = (flash # Corrupt)
      /\ \A c \in held : c \in Blob /\ c.version \in Nat \ {0}
      /\ node.usable => \A c \in held : c.version <= node.active.version
      /\ node.usable /\ node.active # Factory =>
           flash \in Blob /\ node.active.version <= flash.version
      /\ flash \in Blob \cup {NoCommand, Corrupt}
  BY DEF ConfigIInv, NodeInv, ConfigTypeOK, Blob, Factory
<1>3. /\ flash' \in Blob \cup {NoCommand, Corrupt}
      /\ flash' # Corrupt => node.usable
      /\ flash' = NoCommand => flash = NoCommand
      /\ flash' \in Blob => \A c \in held : c.version <= flash'.version
  <2>1. CASE flash' = flash
    <3>1. CASE flash \in Blob
      <4>1. node.usable /\ flash.version \in Nat
        BY <1>2, <3>1, MarksAreNoCommands DEF Blob
      <4>2. node.active = Factory => \A c \in held : c.version <= 0
        BY <1>2, <4>1 DEF Factory
      <4> QED
        BY <1>2, <2>1, <4>1, <4>2
    <3>2. CASE flash \notin Blob
      BY <1>2, <2>1, <3>2
    <3> QED
      BY <3>1, <3>2
  <2>2. CASE flash' = Corrupt
    BY <2>2, MarksAreNoCommands
  <2>3. CASE /\ ForNode /\ node.usable /\ call.desired.version > node.active.version
             /\ flash' = call.desired
    <3>1. flash' \in Blob /\ flash'.version \in Nat /\ flash'.version > node.active.version
      BY <2>3 DEF ConfigIInv, CallInv, Blob
    <3> QED
      BY <1>2, <2>3, <3>1, MarksAreNoCommands
  <2> QED
    BY <2>1, <2>2, <2>3 DEF RebootNode
<1>4. /\ held' = (IF flash' \in {NoCommand, Corrupt} THEN held ELSE held \cup {flash'})
      /\ node' = Booted(flash')
  BY DEF RebootNode
<1>5. ConfigTypeOK'
  BY <1>1, <1>3, <1>4 DEF ConfigIInv, ConfigTypeOK
<1>6. NodeInv'
  <2>1. CASE flash' = Corrupt
    <3>1. node' = [active |-> Factory, result |-> NoResult, usable |-> FALSE]
      BY <1>4, <2>1, MarksAreNoCommands DEF Booted
    <3> QED
      BY <2>1, <3>1 DEF NodeInv
  <2>2. CASE flash' = NoCommand
    <3>1. node' = [active |-> Factory, result |-> NoResult, usable |-> TRUE] /\ held' = held
      BY <1>4, <2>2, MarksAreNoCommands DEF Booted
    <3>2. node.usable /\ node.active = Factory
      BY <1>2, <1>3, <2>2, MarksAreNoCommands
    <3>3. \A c \in held : c.version <= Factory.version
      BY <1>2, <3>2
    <3> QED
      BY <2>2, <3>1, <3>3, MarksAreNoCommands DEF NodeInv
  <2>3. CASE flash' \in Blob
    <3>1. flash' # Corrupt /\ flash' # NoCommand /\ flash' # Factory /\ flash'.version \in Nat
      BY <2>3, MarksAreNoCommands DEF Factory, Blob
    <3>2. /\ node' = [active |-> flash', result |-> Applied(flash'), usable |-> TRUE]
          /\ held' = held \cup {flash'}
      BY <1>4, <3>1 DEF Booted
    <3>3. Applied(flash') = [status |-> "applied", command |-> flash']
      BY <3>1 DEF Applied
    <3>4. Applied(flash') \in Report /\ flash' \in held'
      BY <2>3, <3>2, <3>3 DEF Report
    <3>5. \A c \in held' : c.version <= flash'.version
      BY <1>3, <2>3, <3>1, <3>2
    <3> QED
      BY <2>3, <3>1, <3>2, <3>3, <3>4, <3>5 DEF NodeInv, True
  <2> QED
    BY <1>3, <2>1, <2>2, <2>3
<1>7. \A report \in lateReports' : report \in lateReports \/ True(report)
  BY DEF RebootNode, Abandoned, ConfigIInv, CallInv
<1>8. CallInv'
  BY <1>1, <1>7 DEF ConfigIInv, CallInv, NoCall, ForNode, True
<1> QED
  BY <1>1, <1>5, <1>6, <1>8, HistoriesRest DEF ConfigIInv

-----------------------------------------------------------------------------
(* The invariant holds, and with it the properties.                        *)

LEMMA ConfigInitially == ConfigInit => ConfigIInv
<1> SUFFICES ASSUME ConfigInit PROVE ConfigIInv
  OBVIOUS
<1>1. ConfigTypeOK /\ CallInv
  BY RemoteConfigConstants DEF ConfigInit, ConfigTypeOK, CallInv, NoCall, ForNode
<1>2. NodeInv
  BY MarksAreNoCommands DEF ConfigInit, NodeInv, Factory, NoResult
<1>3. HistoryInv(config, held, issued)
  <2>1. config.history = <<>> /\ config.history \in Seq(HistoryRow)
    BY EmptySeq DEF ConfigInit
  <2>2. config \in Configuration
    BY <2>1 DEF ConfigInit, Configuration
  <2>3. Len(config.history) = 0
    BY <2>1, EmptySeq
  <2> QED
    BY <2>2, <2>3 DEF ConfigInit, HistoryInv
<1> QED
  BY <1>1, <1>2, <1>3 DEF ConfigIInv, ConfigInit

LEMMA ConfigStep == ConfigIInv /\ [ConfigNext]_configVars => ConfigIInv'
<1> SUFFICES ASSUME ConfigIInv, [ConfigNext]_configVars PROVE ConfigIInv'
  OBVIOUS
<1>1. CASE RequestConfiguration \/ Remap \/ TakeBackup \/ RestoreBackup
  BY <1>1, RequestConfigurationInv, RemapInv, BackupInv
<1>2. CASE ServeGet \/ ServePost \/ \E report \in lateReports : ServeLate(report)
  BY <1>2, ServeGetInv, ServePostInv, ServeLateInv
<1>3. CASE ControllerStep
  BY <1>3, ServiceInv, ReceiveOtherInv, ReceiveOldInv, ReceiveErrorInv, ReceiveVerdictInv,
     ReceiveNewInv DEF ControllerStep
<1>4. CASE TimeOut \/ RebootNode
  BY <1>4, TimeOutInv, RebootNodeInv
<1>5. CASE UNCHANGED configVars
  <2>1. UNCHANGED <<config, backup, mapping, flash, node, call, lateReports, held, issued,
                    remaps, mishaps>>
    BY <1>5 DEF configVars
  <2>2. ConfigTypeOK'
    BY <2>1 DEF ConfigIInv, ConfigTypeOK
  <2> QED
    BY <2>1, <2>2, NodeRests, HistoriesRest DEF ConfigIInv
<1> QED
  BY <1>1, <1>2, <1>3, <1>4, <1>5 DEF ConfigNext

(* The history, the node and its calls fit together in every state.        *)
THEOREM ConfigInvariance == ConfigSpec => []ConfigIInv
BY ConfigInitially, ConfigStep, PTL DEF ConfigSpec

LEMMA HistoryRange ==
  ASSUME NEW c, NEW verified, NEW known, HistoryInv(c, verified, known)
  PROVE  /\ \A row \in Range(c.history) : \E i \in 1 .. Len(c.history) : row = c.history[i]
         /\ Last(c.history) = c.history[Len(c.history)]
<1>1. DOMAIN c.history = 1 .. Len(c.history)
  BY LenProperties DEF HistoryInv, Configuration
<1> QED
  BY <1>1 DEF Range, Last

(* What the flash holds is no older than anything the node verified.       *)
LEMMA FlashIsNewest ==
  ASSUME ConfigIInv, flash # Corrupt, NEW c \in held
  PROVE  flash \in Blob /\ c.version <= node.active.version /\ c.version <= flash.version
<1>1. /\ node.usable /\ c.version \in Nat \ {0} /\ c.version <= node.active.version
      /\ node.active \in Blob \cup {Factory}
  BY DEF ConfigIInv, NodeInv, ConfigTypeOK, Blob
<1>2. node.active # Factory /\ node.active.version \in Nat
  BY <1>1 DEF Factory, Blob
<1>3. flash \in Blob /\ node.active.version <= flash.version
  BY <1>1, <1>2 DEF ConfigIInv, NodeInv
<1>4. flash.version \in Nat
  BY <1>3 DEF Blob
<1> QED
  BY <1>1, <1>2, <1>3, <1>4

LEMMA HeldIsApplied == ConfigIInv => AppliedIsHeld
<1> SUFFICES ASSUME ConfigIInv PROVE AppliedIsHeld
  OBVIOUS
<1>1. HistoryInv(config, held, issued)
  BY DEF ConfigIInv
<1>2. /\ \A row \in Range(config.history) : \E i \in 1 .. Len(config.history) :
           row = config.history[i]
      /\ Last(config.history) = config.history[Len(config.history)]
  BY <1>1, HistoryRange
<1>3. \A row \in Range(config.history) : row.state = "applied" =>
        /\ Command(row) \in held /\ config.lastApplied # NoCommand
        /\ row.version <= config.lastApplied.version
  BY <1>1, <1>2 DEF HistoryInv
<1>4. config.desired # NoCommand => config.desired = Last(config.history)
  BY <1>1, <1>2 DEF HistoryInv
<1>5. ASSUME config.lastApplied # NoCommand
      PROVE  /\ Command(config.lastApplied) \in held
             /\ flash = Corrupt \/ flash.version >= config.lastApplied.version
  <2>1. Command(config.lastApplied) \in held
    BY <1>1, <1>5 DEF HistoryInv
  <2>2. Command(config.lastApplied).version = config.lastApplied.version
    BY DEF Command
  <2>3. config.lastApplied.version \in Nat
    BY <1>1, <1>5 DEF HistoryInv, Configuration, HistoryRow
  <2>4. flash # Corrupt => flash \in Blob /\ config.lastApplied.version <= flash.version
    BY <2>1, <2>2, FlashIsNewest
  <2>5. flash \in Blob => flash.version \in Nat
    BY DEF Blob
  <2> QED
    BY <2>1, <2>3, <2>4, <2>5
<1>6. node.active # Factory => node.active \in held
  BY DEF ConfigIInv, NodeInv
<1> QED
  BY <1>3, <1>4, <1>5, <1>6 DEF AppliedIsHeld

(* Reports lost, late or repeated, reboots and restores from a backup: what *)
(* the backend shows as applied the node verified, and its flash holds that *)
(* or something newer.                                                     *)
THEOREM AppliedStaysHeld == ConfigSpec => []AppliedIsHeld
BY ConfigInvariance, HeldIsApplied, PTL

LEMMA StepKeepsRows ==
  ASSUME ConfigIInv, ConfigNext, ~RestoreBackup
  PROVE  /\ config'.version >= config.version
         /\ \A r \in Range(config.history), s \in Range(config'.history) :
              r.id = s.id /\ r # s => r = config.desired /\ r.state # "applied"
<1>1. HistoryInv(config, held, issued) /\ config.version \in Nat
  BY DEF ConfigIInv, HistoryInv, Configuration
<1>2. PICK verified, known : HistoryInv(config', verified, known)
  BY ConfigStep DEF ConfigIInv
<1>3. /\ config'.version >= config.version
      /\ \A i \in 1 .. Len(config.history), j \in 1 .. Len(config'.history) :
           /\ config.history[i].id = config'.history[j].id
           /\ config.history[i] # config'.history[j]
           => config.history[i] = config.desired /\ config.history[i].state # "applied"
  <2>1. CASE RequestConfiguration
    BY <2>1, RequestedIs
  <2>2. CASE ServePost
    <3>1. True(call.report) /\ config' = Reported(call.report)
      BY <2>2 DEF ServePost, ConfigIInv, CallInv
    <3>2. config'.version = config.version
      BY <1>1, <3>1, ReportKeepsHistory
    <3> QED
      BY <1>1, <3>1, <3>2, ReportKeepsHistory
  <2>3. CASE \E report \in lateReports : ServeLate(report)
    <3>1. PICK report \in lateReports : ServeLate(report)
      BY <2>3
    <3>2. True(report) /\ config' = Reported(report)
      BY <3>1 DEF ServeLate, ConfigIInv, CallInv
    <3>3. config'.version = config.version
      BY <1>1, <3>2, ReportKeepsHistory
    <3> QED
      BY <1>1, <3>2, <3>3, ReportKeepsHistory
  <2>4. CASE config' = config
    BY <1>1, <2>4, OwnIds
  <2>5. config' = config \/ RequestConfiguration \/ ServePost
        \/ \E report \in lateReports : ServeLate(report)
    BY DEF ConfigNext, Remap, TakeBackup, ServeGet, ControllerStep, Service, ReceiveOther,
       ReceiveOld, ReceiveError, ReceiveVerdict, ReceiveNew, TimeOut, RebootNode
  <2> QED
    BY <2>1, <2>2, <2>3, <2>4, <2>5
<1>4. /\ \A r \in Range(config.history) : \E i \in 1 .. Len(config.history) :
           r = config.history[i]
      /\ \A s \in Range(config'.history) : \E j \in 1 .. Len(config'.history) :
           s = config'.history[j]
  <2>1. \A r \in Range(config.history) : \E i \in 1 .. Len(config.history) :
           r = config.history[i]
    BY <1>1, HistoryRange
  <2>2. \A s \in Range(config'.history) : \E j \in 1 .. Len(config'.history) :
           s = config'.history[j]
    BY <1>2, HistoryRange
  <2> QED
    BY <2>1, <2>2
<1> QED
  BY <1>3, <1>4

LEMMA StepKeepsFlash ==
  ASSUME ConfigIInv, ConfigNext, flash # flash', flash \in held, flash' # Corrupt
  PROVE  flash'.version > flash.version
<1>1. /\ flash' = call.desired /\ ForNode /\ call.desired.version > node.active.version
      /\ node.usable
  <2>1. RebootNode \/ \E how \in {"verified", "unwritten", "unverified"} : ReceiveNew(how)
    BY DEF ConfigNext, RequestConfiguration, Remap, TakeBackup, RestoreBackup, ServeGet,
       ServePost, ServeLate, ControllerStep, Service, ReceiveOther, ReceiveOld, ReceiveError,
       ReceiveVerdict, TimeOut
  <2>2. ForNode => node.usable
    BY DEF ForNode, ConfigIInv, CallInv, NoCall
  <2> QED
    BY <2>1, <2>2 DEF RebootNode, ReceiveNew
<1>2. flash # Corrupt /\ flash'.version \in Nat /\ flash.version \in Nat
  BY <1>1, MarksAreNoCommands DEF ConfigIInv, ConfigTypeOK, CallInv, Blob
<1>3. flash.version <= node.active.version /\ node.active.version \in Nat
  BY <1>2, FlashIsNewest DEF ConfigIInv, NodeInv, Blob, Factory
<1> QED
  BY <1>1, <1>2, <1>3

LEMMA ConfigKeepsVerdicts == ConfigInit /\ [][ConfigNext]_configVars => VerdictStands
<1>1. ConfigIInv /\ [ConfigNext]_configVars =>
        [ \/ RestoreBackup
          \/ /\ config'.version >= config.version
             /\ \A r \in Range(config.history), s \in Range(config'.history) :
                  r.id = s.id /\ r # s => r = config.desired /\ r.state # "applied"
             /\ flash # flash' /\ flash \in held /\ flash' # Corrupt =>
                  flash'.version > flash.version ]_configVars
  BY StepKeepsRows, StepKeepsFlash
<1> QED
  BY <1>1, ConfigInitially, ConfigStep, PTL DEF VerdictStands

(* A row that says applied, or whose command was superseded, is never      *)
(* rewritten; the version goes back only by a restore; and the node does   *)
(* not replace a command it verified by an older one.                      *)
THEOREM VerdictsStay == ConfigSpec => VerdictStands
BY ConfigKeepsVerdicts, PTL DEF ConfigSpec

-----------------------------------------------------------------------------
(* The ring in flash memory.                                               *)

Holding == {"send", "write", "admit", "archive"}

RingTypeOK ==
  /\ ring \in [0 .. RingSlots - 1 -> RingRecord \cup {Blank}]
  /\ mark \in Nat /\ floor \in Nat /\ bootSession \in Nat /\ batch \in Nat /\ head \in Nat
  /\ next \in Nat /\ count \in Nat /\ pending \in Nat /\ unsaved \in Nat /\ last \in Nat
  /\ flaws \in Nat
  /\ clock \in BOOLEAN /\ forgot \in BOOLEAN
  /\ at \in {"off", "loop", "replay", "make", "consume"} \cup Holding
  /\ fresh \in RingPacket \cup {Blank}
  /\ at \in Holding => fresh # Blank
  /\ delivered \subseteq Nat /\ archived \subseteq Nat /\ kept \subseteq Nat
  /\ lost \subseteq Nat /\ made \subseteq Nat /\ anchors \subseteq Nat

(* A record lies in the slot of its ordinal, and numbers grow with them.   *)
SlotInv == \A s \in 0 .. RingSlots - 1 : ring[s] # Blank => SlotOf(ring[s].ord) = s
OrderInv == \A r, t \in OnFlash : r.ord < t.ord => r.seq < t.seq

(* While the floor was never lost, every number used lies below it.        *)
NumberInv ==
  ~forgot => \A m \in made : m <= floor /\ (at # "off" => m <= last)

(* The queue ends before the next ordinal and begins above the watermark;  *)
(* no record or number in flash is ahead of the node.                      *)
QueueInv ==
  at # "off" =>
    /\ count <= RingCapacity
    /\ count > 0 => head + count = next /\ pending < head
    /\ mark <= pending /\ pending < next
    /\ floor <= last + 1
    /\ \A r \in OnFlash : r.ord <= next /\ r.seq <= last

(* The new packet on its way into the ring.                                *)
FreshInv ==
  /\ at \in {"send", "write"} => \A r \in OnFlash : r.seq < fresh.seq
  /\ at \in {"send", "write", "admit"} => fresh.seq = last
  /\ at = "send" => ~fresh.refused
  /\ at = "admit" =>
       IF Readable(next) THEN Record(next).seq = fresh.seq ELSE fresh.seq \in lost
  /\ at \in {"write", "admit"} /\ fresh.refused => count = 0
  /\ at = "archive" => count = 1 /\ (Readable(head) => Record(head).seq = fresh.seq)
  /\ at = "consume" => count > 0 /\ (Readable(head) => Record(head).seq \in archived)

RingIInv ==
  RingTypeOK /\ SlotInv /\ OrderInv /\ NumberInv /\ QueueInv /\ FreshInv /\ BacklogIsKept
-----------------------------------------------------------------------------
(* Two ordinals less than a ring apart lie in different slots.             *)
LEMMA Division == \A a, n \in Int : n > 0 => a = (a \div n) * n + (a % n)
BY SMTT(30)

LEMMA SlotsDiffer ==
  ASSUME NEW a \in Nat, NEW b \in Nat, NEW n \in Nat \ {0}, a < b, b - a < n
  PROVE  a % n # b % n
<1> SUFFICES ASSUME a % n = b % n PROVE FALSE
  OBVIOUS
<1>1. PICK q \in Int : a = q * n + (a % n)
  <2>1. a \div n \in Int /\ a = (a \div n) * n + (a % n)
    BY Division
  <2> QED BY <2>1
<1>2. PICK r \in Int : b = r * n + (b % n)
  <2>1. b \div n \in Int /\ b = (b \div n) * n + (b % n)
    BY Division
  <2> QED BY <2>1
<1>3. a % n \in Int
  OBVIOUS
<1>4. b - a = r * n - q * n
  BY <1>1, <1>2, <1>3
<1>5. r > q => r * n >= q * n + n
  <2> SUFFICES ASSUME r > q PROVE r * n >= q * n + n
    OBVIOUS
  <2>1. PICK d \in Nat : r = q + 1 + d
    OBVIOUS
  <2>2. r * n = q * n + n + d * n
    BY <2>1
  <2>3. d * n \in Nat
    OBVIOUS
  <2> QED BY <2>2, <2>3
<1>6. r <= q => r * n <= q * n
  <2> SUFFICES ASSUME r <= q PROVE r * n <= q * n
    OBVIOUS
  <2>1. PICK d \in Nat : q = r + d
    OBVIOUS
  <2>2. q * n = r * n + d * n
    BY <2>1
  <2>3. d * n \in Nat
    OBVIOUS
  <2> QED BY <2>2, <2>3
<1>7. q * n \in Int /\ r * n \in Int
  OBVIOUS
<1> QED BY <1>4, <1>5, <1>6, <1>7

LEMMA SlotType == \A o \in Nat : SlotOf(o) \in 0 .. RingSlots - 1
BY RingConstants DEF SlotOf

LEMMA OtherSlot ==
  ASSUME NEW a \in Nat, NEW b \in Nat, a # b, a - b < RingSlots, b - a < RingSlots
  PROVE  SlotOf(a) # SlotOf(b)
<1>1. RingSlots \in Nat \ {0}
  BY RingConstants
<1>2. CASE a < b
  BY <1>1, <1>2, SlotsDiffer DEF SlotOf
<1>3. CASE b < a
  BY <1>1, <1>3, SlotsDiffer DEF SlotOf
<1> QED
  BY <1>2, <1>3

(* What is on flash are records, finitely many.                            *)
LEMMA FlashType ==
  ASSUME RingTypeOK
  PROVE  /\ OnFlash \subseteq RingRecord
         /\ \A r \in OnFlash : r.ord \in Nat /\ r.seq \in Nat /\ r # Blank
<1>1. OnFlash \subseteq RingRecord
  BY DEF RingTypeOK, OnFlash
<1> QED
  BY <1>1, BlankIsNoRecord DEF RingRecord, OnFlash

LEMMA FlashFinite ==
  ASSUME RingTypeOK
  PROVE  IsFiniteSet(OnFlash)
<1> DEFINE all == {ring[s] : s \in DOMAIN ring}
           f == [s \in 0 .. RingSlots - 1 |-> ring[s]]
<1>1. f \in [0 .. RingSlots - 1 -> all] /\ \A r \in all : \E s \in 0 .. RingSlots - 1 : f[s] = r
  BY DEF RingTypeOK
<1>2. f \in Surjection(0 .. RingSlots - 1, all)
  BY <1>1 DEF Surjection
<1>3. IsFiniteSet(0 .. RingSlots - 1)
  BY RingConstants, FS_Interval
<1>4. IsFiniteSet(all)
  <2> HIDE DEF f, all
  <2> QED
    BY <1>2, <1>3, FS_Surjection
<1> QED
  BY <1>4, FS_RemoveElement DEF OnFlash

(* A record of the ring is read by its ordinal, and only there.            *)
LEMMA RecordInSlot ==
  ASSUME RingTypeOK, SlotInv
  PROVE  /\ \A r \in OnFlash : Readable(r.ord) /\ Record(r.ord) = r
         /\ \A o \in Nat : Readable(o) => Record(o) \in OnFlash
<1>1. ASSUME NEW r \in OnFlash
      PROVE  Readable(r.ord) /\ Record(r.ord) = r
  <2>1. PICK s \in 0 .. RingSlots - 1 : ring[s] = r /\ r # Blank
    BY DEF OnFlash, RingTypeOK
  <2> QED
    BY <2>1 DEF SlotInv, Readable, Record
<1>2. ASSUME NEW o \in Nat, Readable(o)
      PROVE  Record(o) \in OnFlash
  BY <1>2, SlotType DEF Readable, Record, OnFlash, RingTypeOK
<1> QED
  BY <1>1, <1>2
-----------------------------------------------------------------------------
(* The queue.                                                              *)

InQueue(r) == r.ord \in head .. head + count - 1

(* An owed packet stays found when the watermark, the queue or the ring    *)
(* change, as long as they leave its record.                               *)
LEMMA BacklogMoves ==
  ASSUME BacklogIsKept, Owed' \subseteq Owed,
         \A r \in OnFlash : r.ord > mark /\ (at # "off" => InQueue(r)) /\ r.seq \in Owed' =>
            /\ r \in OnFlash' /\ r.ord > mark'
            /\ at' # "off" => r.ord \in head' .. head' + count' - 1
  PROVE  BacklogIsKept'
<1> SUFFICES ASSUME NEW n \in Owed'
             PROVE  \E r \in Active' : /\ r.seq = n
                                       /\ at' # "off" => r.ord \in head' .. head' + count' - 1
  BY DEF BacklogIsKept
<1>1. PICK r \in Active : r.seq = n /\ (at # "off" => InQueue(r))
  BY DEF BacklogIsKept, InQueue
<1>2. r \in OnFlash /\ r.ord > mark
  BY DEF Active
<1>3. /\ r \in OnFlash' /\ r.ord > mark'
      /\ at' # "off" => r.ord \in head' .. head' + count' - 1
  BY <1>1, <1>2
<1> QED
  BY <1>1, <1>3 DEF Active

LEMMA QueueMoves ==
  ASSUME RingIInv, at # "off", at' # "off", UNCHANGED ring, Owed' \subseteq Owed,
         \A r \in OnFlash : r.ord > mark /\ InQueue(r) /\ r.seq \in Owed' =>
            r.ord > mark' /\ r.ord \in head' .. head' + count' - 1
  PROVE  SlotInv' /\ OrderInv' /\ BacklogIsKept'
<1>1. SlotInv' /\ OrderInv' /\ OnFlash' = OnFlash
  BY DEF RingIInv, SlotInv, OrderInv, OnFlash, SlotOf
<1>2. BacklogIsKept'
  BY <1>1, BacklogMoves DEF RingIInv
<1> QED
  BY <1>1, <1>2

(* What a step that leaves the ring and the queue alone keeps.             *)
LEMMA QueueRests ==
  ASSUME RingIInv, at # "off", at' # "off", UNCHANGED <<ring, mark, pending, queueVars>>,
         Owed' \subseteq Owed, last' \in Nat, last' >= last, floor' <= last' + 1
  PROVE  SlotInv' /\ OrderInv' /\ BacklogIsKept' /\ QueueInv'
<1>1. SlotInv' /\ OrderInv' /\ BacklogIsKept'
  BY QueueMoves DEF queueVars, InQueue
<1>2. QueueInv'
  <2>1. \A r \in OnFlash : r.seq \in Nat
    BY FlashType DEF RingIInv
  <2>2. last \in Nat
    BY DEF RingIInv, RingTypeOK
  <2> QED
    BY <2>1, <2>2 DEF RingIInv, QueueInv, queueVars, OnFlash
<1> QED
  BY <1>1, <1>2

LEMMA Committed ==
  ASSUME RingTypeOK, NEW o \in Nat, NEW n \in Nat, NEW ok \in BOOLEAN, Commit(o, n, ok)
  PROVE  /\ pending' = o /\ unsaved' \in Nat /\ mark' \in Nat
         /\ mark <= mark' /\ (mark' = mark \/ mark' = o) /\ (mark' <= o \/ mark' = mark)
BY DEF RingTypeOK, Commit, Larger

(* The head of the queue is consumed: the watermark comes up to it at most. *)
LEMMA HeadConsumed ==
  ASSUME RingTypeOK, QueueInv, at # "off", count > 0,
         NEW force \in BOOLEAN, NEW ok \in BOOLEAN, NoteConsumed(head, force, ok)
  PROVE  /\ pending' = head /\ unsaved' \in Nat /\ mark' \in Nat
         /\ mark <= mark' /\ mark' <= head
<1>1. pending < head /\ mark <= pending /\ head \in Nat /\ pending \in Nat /\ unsaved \in Nat
      /\ mark \in Nat
  BY DEF RingTypeOK, QueueInv
<1>2. Larger(pending, head) = head
  BY <1>1 DEF Larger
<1>3. CASE Commit(head, unsaved + 1, ok)
  BY <1>1, <1>3, Committed
<1>4. CASE pending' = head /\ unsaved' = unsaved + 1 /\ UNCHANGED mark
  BY <1>1, <1>4
<1> QED
  BY <1>2, <1>3, <1>4 DEF NoteConsumed

(* Consuming the head keeps the queue, when its packet is not owed.        *)
LEMMA ConsumeHeadInv ==
  ASSUME RingIInv, at # "off", at' # "off", count > 0, UNCHANGED ring, Owed' \subseteq Owed,
         NEW force \in BOOLEAN, NEW ok \in BOOLEAN, ConsumeHead(force, ok),
         Readable(head) => Record(head).seq \notin Owed',
         UNCHANGED <<floor, last>>
  PROVE  /\ SlotInv' /\ OrderInv' /\ BacklogIsKept' /\ QueueInv'
         /\ {mark, pending, unsaved, head, count, next}' \subseteq Nat
<1> USE DEF RingIInv
<1>1. /\ {head, count, next, mark, pending, unsaved} \subseteq Nat
      /\ head + count = next /\ pending < head /\ mark <= pending /\ count <= RingCapacity
      /\ \A r \in OnFlash : r.ord <= next /\ r.seq <= last
  BY DEF RingTypeOK, QueueInv
<1>2. head' = head + 1 /\ count' = count - 1 /\ next' = next
  BY DEF ConsumeHead
<1>3. /\ pending' = head /\ unsaved' \in Nat /\ mark' \in Nat
      /\ mark <= mark' /\ mark' <= head
  <2>1. (force \/ count = 1) \in BOOLEAN
    OBVIOUS
  <2>2. NoteConsumed(head, force \/ count = 1, ok)
    BY DEF ConsumeHead
  <2> QED
    BY <2>1, <2>2, HeadConsumed
<1>4. QueueInv'
  <2>1. OnFlash' = OnFlash
    BY DEF OnFlash
  <2>2. floor' <= last' + 1
    BY DEF QueueInv
  <2>3. RingCapacity \in Int
    BY RingConstants DEF RingCapacity
  <2> QED
    BY <1>1, <1>2, <1>3, <2>1, <2>2, <2>3 DEF QueueInv
<1>5. ASSUME NEW r \in OnFlash, InQueue(r), r.seq \in Owed'
      PROVE  r.ord > mark' /\ r.ord \in head' .. head' + count' - 1
  <2>1. r.ord \in Nat /\ Readable(r.ord) /\ Record(r.ord) = r
    BY FlashType, RecordInSlot
  <2>2. r.ord # head
    BY <2>1, <1>5
  <2> QED
    BY <1>1, <1>2, <1>3, <1>5, <2>1, <2>2 DEF InQueue
<1>6. SlotInv' /\ OrderInv' /\ BacklogIsKept'
  BY <1>5, QueueMoves
<1> QED
  BY <1>1, <1>2, <1>3, <1>4, <1>6
-----------------------------------------------------------------------------
(* The steps.                                                              *)

LEMMA EndReplayInv == ASSUME RingIInv, EndReplay PROVE RingIInv'
<1> USE DEF EndReplay, RingIInv, markVars, numberVars, timeVars
<1>1. RingTypeOK'
  BY DEF RingTypeOK, Holding, queueVars
<1>2. SlotInv' /\ OrderInv' /\ BacklogIsKept' /\ QueueInv'
  BY QueueRests DEF Owed, QueueInv, RingTypeOK
<1>3. NumberInv' /\ FreshInv'
  BY DEF NumberInv, FreshInv
<1> QED
  BY <1>1, <1>2, <1>3

LEMMA NoSampleInv == ASSUME RingIInv, NoSample PROVE RingIInv'
<1> USE DEF NoSample, RingIInv, markVars, numberVars, timeVars
<1>1. RingTypeOK'
  BY DEF RingTypeOK, Holding, queueVars
<1>2. SlotInv' /\ OrderInv' /\ BacklogIsKept' /\ QueueInv'
  BY QueueRests DEF Owed, QueueInv, RingTypeOK
<1>3. NumberInv' /\ FreshInv'
  BY DEF NumberInv, FreshInv
<1> QED
  BY <1>1, <1>2, <1>3

LEMMA StoreFreshInv == ASSUME RingIInv, StoreFresh PROVE RingIInv'
<1> USE DEF StoreFresh, RingIInv, markVars, numberVars, timeVars
<1>1. RingTypeOK'
  BY DEF RingTypeOK, Holding, queueVars
<1>2. SlotInv' /\ OrderInv' /\ BacklogIsKept' /\ QueueInv'
  BY QueueRests DEF Owed, QueueInv, RingTypeOK
<1>3. NumberInv' /\ FreshInv'
  BY DEF NumberInv, FreshInv, OnFlash
<1> QED
  BY <1>1, <1>2, <1>3

LEMMA FlawsType == ASSUME RingTypeOK, NEW n \in Nat, Flaws(n) PROVE flaws' \in Nat
BY DEF RingTypeOK, Flaws

LEMMA StartLoopInv ==
  ASSUME RingIInv, NEW online \in BOOLEAN, NEW synced \in BOOLEAN, NEW ok \in BOOLEAN,
         StartLoop(online, synced, ok)
  PROVE  RingIInv'
<1> USE DEF StartLoop, RingIInv, markVars, numberVars
<1>1. RingTypeOK'
  <2>1. flaws' \in Nat
    BY FlawsType DEF Cost
  <2>2. Smaller(count, Turn) \in Nat
    BY RingConstants DEF RingTypeOK, Smaller
  <2>3. anchors' \subseteq Nat /\ clock' \in BOOLEAN
    BY DEF RingTypeOK
  <2> QED
    BY <2>1, <2>2, <2>3 DEF RingTypeOK, Holding, queueVars
<1>2. SlotInv' /\ OrderInv' /\ BacklogIsKept' /\ QueueInv'
  BY QueueRests DEF Owed, QueueInv, RingTypeOK
<1>3. NumberInv' /\ FreshInv'
  BY DEF NumberInv, FreshInv
<1> QED
  BY <1>1, <1>2, <1>3

(* The replay pauses: the watermark comes up to what is pending, below the *)
(* head.                                                                   *)
LEMMA PauseInv ==
  ASSUME RingIInv, at = "replay", count > 0, NEW n \in Nat, Pause(n),
         delivered \subseteq delivered', delivered' \subseteq Nat, UNCHANGED archived
  PROVE  RingIInv'
<1> USE DEF Pause, RingIInv, numberVars, timeVars, queueVars
<1>1. pending \in Nat /\ unsaved \in Nat
  BY DEF RingTypeOK
<1>2. PICK ok \in BOOLEAN : Commit(pending, unsaved, ok) /\ Flaws(n + Cost(ok))
  OBVIOUS
<1>3. /\ pending' = pending /\ unsaved' \in Nat /\ mark' \in Nat
      /\ mark <= mark' /\ mark' <= pending
  BY <1>1, <1>2, Committed DEF QueueInv
<1>4. RingTypeOK'
  <2>1. n + Cost(ok) \in Nat
    BY DEF Cost
  <2>2. flaws' \in Nat
    BY <1>2, <2>1, FlawsType
  <2> QED
    BY <1>3, <2>2 DEF RingTypeOK, Holding
<1>5. QueueInv'
  BY <1>3 DEF QueueInv, OnFlash, RingTypeOK
<1>6. SlotInv' /\ OrderInv' /\ BacklogIsKept'
  <2>1. Owed' \subseteq Owed
    BY DEF Owed
  <2>2. \A r \in OnFlash : r.ord \in Nat
    BY FlashType
  <2>3. {head, pending} \subseteq Nat /\ pending < head
    BY DEF RingTypeOK, QueueInv
  <2>4. ASSUME NEW r \in OnFlash, InQueue(r)
        PROVE  r.ord > mark' /\ r.ord \in head' .. head' + count' - 1
    BY <1>3, <2>2, <2>3, <2>4 DEF InQueue
  <2> QED
    BY <2>1, <2>4, QueueMoves
<1>7. NumberInv' /\ FreshInv'
  BY DEF NumberInv, FreshInv
<1> QED
  BY <1>4, <1>5, <1>6, <1>7

LEMMA HeadOnFlash ==
  ASSUME RingTypeOK, SlotInv, Readable(head)
  PROVE  HeadRecord \in OnFlash /\ HeadRecord.seq \in Nat
BY RecordInSlot, FlashType DEF HeadRecord, RingTypeOK

LEMMA CannotReadInv == ASSUME RingIInv, CannotRead PROVE RingIInv'
BY PauseInv DEF CannotRead, Replaying, RingIInv, RingTypeOK

LEMMA DeferInv == ASSUME RingIInv, Defer PROVE RingIInv'
BY PauseInv DEF Defer, Replaying, RingIInv, RingTypeOK

LEMMA UnansweredInv == ASSUME RingIInv, Unanswered PROVE RingIInv'
<1>1. HeadRecord.seq \in Nat
  BY HeadOnFlash DEF Unanswered, RingIInv
<1> QED
  BY <1>1, PauseInv DEF Unanswered, Replaying, RingIInv, RingTypeOK

LEMMA IsolateInv == ASSUME RingIInv, Isolate PROVE RingIInv'
<1>1. at = "replay" /\ count > 0 /\ Readable(head)
  BY DEF Isolate, Replaying
<1>2. CASE Pause(1) /\ UNCHANGED <<delivered, archived>>
  BY <1>1, <1>2, PauseInv DEF RingIInv, RingTypeOK
<1>3. CASE /\ archived' = archived \cup {HeadRecord.seq} /\ at' = "consume"
           /\ UNCHANGED <<ring, markVars, numberVars, timeVars, batch, fresh, queueVars,
                          delivered, kept, lost, flaws>>
  <2> USE <1>1, <1>3 DEF RingIInv, markVars, numberVars, timeVars, queueVars
  <2>1. HeadRecord.seq \in Nat
    BY HeadOnFlash
  <2>2. RingTypeOK'
    BY <2>1 DEF RingTypeOK, Holding
  <2>3. SlotInv' /\ OrderInv' /\ BacklogIsKept' /\ QueueInv'
    BY QueueRests DEF Owed, QueueInv, RingTypeOK
  <2>4. NumberInv' /\ FreshInv'
    BY DEF NumberInv, FreshInv, HeadRecord, Readable, Record, SlotOf
  <2> QED
    BY <2>2, <2>3, <2>4
<1> QED
  BY <1>2, <1>3 DEF Isolate

LEMMA SkipCorruptInv == ASSUME RingIInv, SkipCorrupt PROVE RingIInv'
<1> USE DEF SkipCorrupt, Replaying, RingIInv, numberVars, timeVars
<1>1. PICK ok \in BOOLEAN :
        /\ ConsumeHead(TRUE, ok)
        /\ Flaws(IF count = 1 THEN 2 * Cost(ok) ELSE Cost(ok))
  OBVIOUS
<1>2. /\ SlotInv' /\ OrderInv' /\ BacklogIsKept' /\ QueueInv'
      /\ {mark, pending, unsaved, head, count, next}' \subseteq Nat
  BY <1>1, ConsumeHeadInv DEF Owed
<1>3. RingTypeOK'
  <2>1. flaws' \in Nat
    BY <1>1, FlawsType DEF Cost
  <2> QED
    BY <1>2, <2>1 DEF RingTypeOK, Holding
<1>4. NumberInv' /\ FreshInv'
  BY DEF NumberInv, FreshInv
<1> QED
  BY <1>2, <1>3, <1>4

LEMMA ConsumeArchivedInv == ASSUME RingIInv, ConsumeArchived PROVE RingIInv'
<1> USE DEF ConsumeArchived, RingIInv, numberVars, timeVars
<1>1. PICK ok \in BOOLEAN : ConsumeHead(FALSE, ok) /\ Flaws(Cost(ok))
  OBVIOUS
<1>2. count > 0 /\ at' \in {"replay", "loop"} /\ batch' \in Nat
  BY DEF FreshInv, RingTypeOK
<1>3. /\ SlotInv' /\ OrderInv' /\ BacklogIsKept' /\ QueueInv'
      /\ {mark, pending, unsaved, head, count, next}' \subseteq Nat
  <2>1. Readable(head) => Record(head).seq \notin Owed'
    BY DEF Owed, FreshInv
  <2> QED
    BY <1>1, <1>2, <2>1, ConsumeHeadInv DEF Owed
<1>4. RingTypeOK'
  <2>1. flaws' \in Nat
    BY <1>1, FlawsType DEF Cost
  <2> QED
    BY <1>2, <1>3, <2>1 DEF RingTypeOK, Holding
<1>5. NumberInv' /\ FreshInv'
  BY <1>2 DEF NumberInv, FreshInv
<1> QED
  BY <1>3, <1>4, <1>5

LEMMA ReplayAcknowledgedInv == ASSUME RingIInv, ReplayAcknowledged PROVE RingIInv'
<1> USE DEF ReplayAcknowledged, Replaying, RingIInv, numberVars, timeVars
<1>1. PICK ok \in BOOLEAN : ConsumeHead(FALSE, ok) /\ Flaws(Cost(ok))
  OBVIOUS
<1>2. HeadRecord.seq \in Nat
  BY HeadOnFlash
<1>3. /\ SlotInv' /\ OrderInv' /\ BacklogIsKept' /\ QueueInv'
      /\ {mark, pending, unsaved, head, count, next}' \subseteq Nat
  <2>1. Record(head).seq \notin Owed' /\ Owed' \subseteq Owed
    BY DEF Owed, HeadRecord
  <2> QED
    BY <1>1, <2>1, ConsumeHeadInv
<1>4. RingTypeOK'
  <2>1. flaws' \in Nat
    BY <1>1, FlawsType DEF Cost
  <2>2. batch - 1 \in Nat
    BY DEF RingTypeOK
  <2> QED
    BY <1>2, <1>3, <2>1, <2>2 DEF RingTypeOK, Holding
<1>5. NumberInv' /\ FreshInv'
  BY DEF NumberInv, FreshInv
<1> QED
  BY <1>3, <1>4, <1>5

LEMMA MakeRoomInv == ASSUME RingIInv, MakeRoom PROVE RingIInv'
<1> USE DEF MakeRoom, RingIInv, numberVars, timeVars
<1>1. PICK ok \in BOOLEAN : ConsumeHead(TRUE, ok) /\ Flaws(Cost(ok))
  OBVIOUS
<1>2. count > 0
  BY RingConstants DEF RingFull, RingCapacity
<1>3. /\ SlotInv' /\ OrderInv' /\ BacklogIsKept' /\ QueueInv'
      /\ {mark, pending, unsaved, head, count, next}' \subseteq Nat
  BY <1>1, <1>2, ConsumeHeadInv DEF Owed
<1>4. RingTypeOK'
  <2>1. flaws' \in Nat
    BY <1>1, FlawsType DEF Cost
  <2> QED
    BY <1>3, <2>1 DEF RingTypeOK, Holding
<1>5. NumberInv' /\ FreshInv'
  BY <1>2 DEF NumberInv, FreshInv, OnFlash
<1> QED
  BY <1>3, <1>4, <1>5

(* A number is above all on flash when it is taken.                        *)
LEMMA MakeInv == ASSUME RingIInv, Make PROVE RingIInv'
<1> USE DEF Make, Reserved, RingIInv, markVars, timeVars
<1>1. last \in Nat /\ bootSession \in Nat
  BY DEF RingTypeOK
<1>2. fresh' \in RingPacket /\ fresh'.seq = last + 1 /\ ~fresh'.refused
  BY <1>1 DEF RingPacket
<1>3. RingTypeOK'
  <2>1. fresh' # Blank
    BY <1>2, BlankIsNoRecord
  <2> QED
    BY <1>1, <1>2, <2>1 DEF RingTypeOK, Holding, queueVars
<1>4. SlotInv' /\ OrderInv' /\ BacklogIsKept' /\ QueueInv'
  BY <1>1, QueueRests DEF Owed
<1>5. NumberInv'
  <2>1. made \subseteq Nat
    BY DEF RingTypeOK
  <2> QED
    BY <1>1, <2>1 DEF NumberInv
<1>6. FreshInv'
  <2>1. \A r \in OnFlash' : r.seq < last + 1
    BY <1>1, FlashType DEF QueueInv, OnFlash
  <2> QED
    BY <1>2, <2>1 DEF FreshInv
<1> QED
  BY <1>3, <1>4, <1>5, <1>6

LEMMA CannotMakeInv == ASSUME RingIInv, CannotMake PROVE RingIInv'
<1> USE DEF CannotMake, RingIInv, markVars, timeVars
<1>1. last \in Nat /\ floor \in Nat /\ floor <= last + 1
  BY DEF RingTypeOK, QueueInv
<1>2. floor' \in Nat /\ floor <= floor' /\ floor' <= last + 1
  BY <1>1 DEF Larger
<1>3. RingTypeOK'
  <2>1. flaws' \in Nat
    BY FlawsType
  <2> QED
    BY <1>2, <2>1 DEF RingTypeOK, Holding, queueVars
<1>4. SlotInv' /\ OrderInv' /\ BacklogIsKept' /\ QueueInv'
  BY <1>1, <1>2, QueueRests DEF Owed
<1>5. NumberInv' /\ FreshInv'
  <2>1. made \subseteq Nat
    BY DEF RingTypeOK
  <2> QED
    BY <1>1, <1>2, <2>1 DEF NumberInv, FreshInv
<1> QED
  BY <1>3, <1>4, <1>5

LEMMA SendDirectlyInv == ASSUME RingIInv, SendDirectly PROVE RingIInv'
<1> USE DEF SendDirectly, RingIInv, markVars, numberVars, timeVars
<1>1. fresh \in RingPacket
  BY DEF RingTypeOK, Holding
<1>2. /\ at' \in {"loop", "write"} /\ delivered \subseteq delivered' /\ delivered' \subseteq Nat
      /\ at' = "write" => fresh' \in RingPacket /\ fresh'.seq = fresh.seq
      /\ at' = "loop" => fresh' = Blank
  BY <1>1 DEF RingTypeOK, RingPacket
<1>3. RingTypeOK'
  BY <1>2, BlankIsNoRecord DEF RingTypeOK, Holding, queueVars
<1>4. SlotInv' /\ OrderInv' /\ BacklogIsKept' /\ QueueInv'
  BY SMTT(60), <1>2, QueueRests DEF Owed, QueueInv, RingTypeOK
<1>5. NumberInv' /\ FreshInv'
  BY <1>2 DEF NumberInv, FreshInv, OnFlash, queueVars
<1> QED
  BY <1>3, <1>4, <1>5

LEMMA ArchiveRefusedInv == ASSUME RingIInv, ArchiveRefused PROVE RingIInv'
<1> USE DEF ArchiveRefused, RingIInv, markVars, numberVars, timeVars, queueVars
<1>1. fresh \in RingPacket /\ fresh.seq \in Nat
  BY DEF RingTypeOK, Holding, RingPacket
<1>2. /\ at' \in {"loop", "consume"} /\ archived \subseteq archived' /\ archived' \subseteq Nat
      /\ at' = "consume" => fresh.seq \in archived'
  BY <1>1 DEF RingTypeOK
<1>3. RingTypeOK'
  <2>1. flaws' \in Nat
    BY FlawsType DEF RingTypeOK
  <2> QED
    BY <1>2, <2>1 DEF RingTypeOK, Holding
<1>4. SlotInv' /\ OrderInv' /\ BacklogIsKept' /\ QueueInv'
  BY <1>2, QueueRests DEF Owed, QueueInv, RingTypeOK
<1>5. NumberInv' /\ FreshInv'
  BY <1>2 DEF NumberInv, FreshInv, Readable, Record, SlotOf
<1> QED
  BY <1>3, <1>4, <1>5

-----------------------------------------------------------------------------
(* Steps that write to the ring.                                           *)

LEMMA QueuedElsewhere ==
  ASSUME RingTypeOK, QueueInv, at # "off", NEW r \in OnFlash, InQueue(r)
  PROVE  SlotOf(r.ord) # SlotOf(next) /\ r.ord < next
<1>1. r.ord \in Nat /\ {head, count, next} \subseteq Nat
  BY FlashType DEF RingTypeOK
<1>2. r.ord >= head /\ r.ord < head + count
  BY <1>1 DEF InQueue
<1>3. head + count = next /\ count <= RingCapacity
  BY <1>1, <1>2 DEF QueueInv
<1>4. r.ord < next /\ next - r.ord < RingSlots
  BY <1>1, <1>2, <1>3, RingConstants DEF RingCapacity
<1> QED
  BY <1>1, <1>4, OtherSlot, RingConstants

(* A write to the slot of the next ordinal: of a record of it, with the    *)
(* latest number, or of nothing.                                           *)
LEMMA SpareWritten ==
  ASSUME RingIInv, at # "off", NEW x \in RingRecord \cup {Blank},
         ring' = [ring EXCEPT ![SlotOf(next)] = x],
         x # Blank => x.ord = next /\ x.seq = last /\ \A r \in OnFlash : r.seq < last
  PROVE  /\ ring' \in [0 .. RingSlots - 1 -> RingRecord \cup {Blank}]
         /\ SlotInv' /\ OrderInv'
         /\ \A r \in OnFlash' : r.ord <= next /\ r.seq <= last
         /\ \A r \in OnFlash : InQueue(r) => r \in OnFlash'
<1> USE DEF RingIInv
<1>1. SlotOf(next) \in 0 .. RingSlots - 1 /\ next \in Nat /\ last \in Nat
  BY SlotType DEF RingTypeOK
<1>2. ring' \in [0 .. RingSlots - 1 -> RingRecord \cup {Blank}]
  BY <1>1 DEF RingTypeOK
<1>3. SlotInv'
  BY <1>1, <1>2 DEF SlotInv, SlotOf, RingTypeOK
<1>4. ASSUME NEW r \in OnFlash'
      PROVE  r = x \/ (r \in OnFlash /\ r.ord # next /\ r.ord <= next /\ r.seq <= last)
  <2>1. PICK s \in 0 .. RingSlots - 1 : ring'[s] = r /\ r # Blank
    BY <1>2 DEF OnFlash
  <2>2. CASE s = SlotOf(next)
    BY <2>1, <2>2, <1>1 DEF RingTypeOK
  <2>3. CASE s # SlotOf(next)
    <3>1. ring[s] = r /\ r \in OnFlash
      BY <2>1, <2>3, <1>1 DEF RingTypeOK, OnFlash
    <3>2. SlotOf(r.ord) = s
      BY <2>1, <3>1 DEF SlotInv
    <3> QED
      BY <3>1, <3>2, <2>3 DEF QueueInv
  <2> QED
    BY <2>2, <2>3
<1>5. x \in OnFlash' => x # Blank
  BY DEF OnFlash
<1>6. \A r \in OnFlash : r.ord \in Nat /\ r.seq \in Nat
  BY FlashType
<1>7. OrderInv'
  <2> SUFFICES ASSUME NEW r \in OnFlash', NEW t \in OnFlash', r.ord < t.ord
               PROVE  r.seq < t.seq
    BY DEF OrderInv
  <2>1. CASE r # x /\ t # x
    BY <2>1, <1>4 DEF OrderInv
  <2>2. CASE t = x /\ r # x
    BY <2>2, <1>4, <1>5
  <2>3. CASE r = x /\ t # x
    BY <2>3, <1>1, <1>4, <1>5, <1>6
  <2>4. CASE r = x /\ t = x
    BY <2>4, <1>1, <1>5
  <2> QED
    BY <2>1, <2>2, <2>3, <2>4
<1>8. \A r \in OnFlash' : r.ord <= next /\ r.seq <= last
  BY <1>1, <1>4, <1>5
<1>9. ASSUME NEW r \in OnFlash, InQueue(r)
      PROVE  r \in OnFlash'
  <2>1. SlotOf(r.ord) # SlotOf(next)
    BY <1>9, QueuedElsewhere
  <2>2. r.ord \in Nat /\ ring[SlotOf(r.ord)] = r /\ r # Blank
    BY FlashType, RecordInSlot DEF Record
  <2>3. SlotOf(r.ord) \in 0 .. RingSlots - 1
    BY <2>2, SlotType
  <2>4. ring'[SlotOf(r.ord)] = r
    BY <2>1, <2>2, <2>3 DEF RingTypeOK
  <2> QED
    BY <2>2, <2>3, <2>4, <1>2 DEF OnFlash
<1> QED
  BY <1>2, <1>3, <1>7, <1>8, <1>9

LEMMA FreshIs ==
  ASSUME RingTypeOK, FreshInv, at = "write"
  PROVE  /\ fresh \in RingPacket /\ fresh.seq = last /\ FreshRecord \in RingRecord
         /\ FreshRecord # Blank /\ FreshRecord.ord = next /\ FreshRecord.seq = last
         /\ \A r \in OnFlash : r.seq < last
<1>1. fresh \in RingPacket /\ fresh.seq = last /\ next \in Nat
  BY DEF RingTypeOK, Holding, FreshInv
<1>2. FreshRecord \in RingRecord
  BY <1>1 DEF FreshRecord, RingRecord, RingPacket
<1>3. FreshRecord # Blank
  BY <1>2, BlankIsNoRecord
<1> QED
  BY <1>1, <1>2, <1>3 DEF FreshRecord, FreshInv

LEMMA PutInv == ASSUME RingIInv, Put PROVE RingIInv'
<1> USE DEF Put, RingIInv, markVars, numberVars, timeVars, queueVars
<1>1. fresh.seq = last /\ FreshRecord \in RingRecord
  BY FreshIs
<1>2. /\ ring' \in [0 .. RingSlots - 1 -> RingRecord \cup {Blank}]
      /\ SlotInv' /\ OrderInv'
      /\ \A r \in OnFlash' : r.ord <= next /\ r.seq <= last
      /\ \A r \in OnFlash : InQueue(r) => r \in OnFlash'
  BY FreshIs, SpareWritten
<1>3. RingTypeOK'
  BY <1>2 DEF RingTypeOK, Holding
<1>4. BacklogIsKept'
  BY <1>2, BacklogMoves DEF Owed, InQueue
<1>5. QueueInv'
  BY <1>2 DEF QueueInv
<1>6. NumberInv' /\ FreshInv'
  <2>1. SlotOf(next) \in 0 .. RingSlots - 1
    BY SlotType DEF RingTypeOK
  <2>2. ring'[SlotOf(next)] = FreshRecord
    BY <2>1 DEF RingTypeOK
  <2>3. Readable(next)' /\ Record(next)'.seq = fresh.seq
    BY <2>2, <1>1, FreshIs DEF Readable, Record, SlotOf
  <2> QED
    BY <2>3, <1>1 DEF NumberInv, FreshInv
<1> QED
  BY <1>2, <1>3, <1>4, <1>5, <1>6

LEMMA CannotPutInv == ASSUME RingIInv, CannotPut PROVE RingIInv'
<1> USE DEF CannotPut, RingIInv, markVars, numberVars, timeVars, queueVars
<1>1. PICK x \in {Record(next), Blank, FreshRecord} : ring' = [ring EXCEPT ![SlotOf(next)] = x]
  OBVIOUS
<1>2. /\ ring' \in [0 .. RingSlots - 1 -> RingRecord \cup {Blank}]
      /\ SlotInv' /\ OrderInv'
      /\ \A r \in OnFlash' : r.ord <= next /\ r.seq <= last
      /\ \A r \in OnFlash : InQueue(r) => r \in OnFlash'
  <2>1. CASE x = Record(next)
    <3>1. ring' = ring
      BY <1>1, <2>1, SlotType DEF Record, RingTypeOK
    <3>2. OnFlash' = OnFlash /\ SlotInv' /\ OrderInv'
      BY <3>1 DEF SlotInv, OrderInv, OnFlash, SlotOf
    <3> QED
      BY <3>1, <3>2 DEF RingTypeOK, QueueInv
  <2>2. CASE x = Blank
    BY <1>1, <2>2, SpareWritten
  <2>3. CASE x = FreshRecord
    BY <1>1, <2>3, FreshIs, SpareWritten
  <2> QED
    BY <2>1, <2>2, <2>3
<1>3. RingTypeOK'
  <2>1. flaws' \in Nat
    BY FlawsType
  <2> QED
    BY <1>2, <2>1 DEF RingTypeOK, Holding
<1>4. BacklogIsKept'
  BY <1>2, BacklogMoves DEF Owed, InQueue
<1>5. QueueInv'
  BY <1>2 DEF QueueInv
<1>6. NumberInv' /\ FreshInv'
  BY DEF NumberInv, FreshInv
<1> QED
  BY <1>2, <1>3, <1>4, <1>5, <1>6

(* The new record joins the queue, whose head is given up when it is full. *)
LEMMA AdmitInv == ASSUME RingIInv, Admit PROVE RingIInv'
<1> USE DEF Admit, RingIInv, numberVars, timeVars
<1>1. /\ {head, next, count, pending, mark, unsaved, last} \subseteq Nat
      /\ count <= RingCapacity /\ mark <= pending /\ pending < next
      /\ count > 0 => head + count = next /\ pending < head
      /\ RingCapacity \in Nat \ {0} /\ RingSlots \in Nat /\ RingCapacity < RingSlots
  BY RingConstants DEF RingTypeOK, QueueInv, RingCapacity
<1>2. fresh \in RingPacket /\ fresh.seq \in Nat /\ next' = next + 1
  BY DEF RingTypeOK, Holding, RingPacket
<1>3. /\ {head, count, pending, mark, unsaved, flaws}' \subseteq Nat
      /\ head' + count' = next + 1 /\ count' <= RingCapacity /\ count' > 0
      /\ mark <= mark' /\ mark' <= pending' /\ pending' < head'
      /\ lost \subseteq lost' /\ lost' \subseteq Nat
      /\ RingFull => head' = head + 1
      /\ ~RingFull => mark' = mark /\ (IF count = 0 THEN head' = next ELSE head' = head)
      /\ ~RingFull => count' = count + 1
  <2>1. CASE RingFull
    <3>1. PICK ok \in BOOLEAN : NoteConsumed(head, TRUE, ok) /\ Flaws(Cost(ok))
      BY <2>1
    <3>2. flaws' \in Nat
      BY <3>1, FlawsType DEF Cost
    <3>3. count > 0 /\ head' = head + 1 /\ count' = count
      BY <1>1, <2>1 DEF RingFull
    <3>4. pending' = head /\ unsaved' \in Nat /\ mark' \in Nat /\ mark <= mark' /\ mark' <= head
      BY <3>1, <3>3, HeadConsumed
    <3>5. {r.seq : r \in {HeadRecord} \ {Blank}} \subseteq Nat
      <4>1. HeadRecord \in RingRecord \cup {Blank}
        BY <1>1, SlotType DEF HeadRecord, Record, RingTypeOK
      <4> QED
        BY <4>1 DEF RingRecord
    <3>6. lost \subseteq lost' /\ lost' \subseteq Nat
      BY <2>1, <3>5 DEF RingTypeOK
    <3> QED
      BY <1>1, <2>1, <3>2, <3>3, <3>4, <3>6
  <2>2. CASE ~RingFull
    <3>1. count < RingCapacity
      BY <1>1, <2>2 DEF RingFull
    <3>2. head' = (IF count = 0 THEN next ELSE head) /\ count' = count + 1
      BY <2>2
    <3>3. UNCHANGED <<mark, pending, unsaved, lost, flaws>>
      BY <2>2 DEF markVars
    <3> QED
      BY <1>1, <2>2, <3>1, <3>2, <3>3 DEF RingTypeOK
  <2> QED
    BY <2>1, <2>2
<1>4. /\ at' \in {"archive", "loop"}
      /\ at' = "archive" => fresh' = fresh /\ fresh.refused
      /\ at' = "loop" => fresh' = Blank
  OBVIOUS
<1>5. RingTypeOK'
  <2>1. kept' \subseteq Nat
    BY <1>2 DEF RingTypeOK
  <2>2. fresh' \in RingPacket \cup {Blank} /\ (at' \in Holding => fresh' # Blank)
    BY <1>2, <1>4, BlankIsNoRecord DEF Holding
  <2> QED
    BY SMTT(60), <1>1, <1>2, <1>3, <1>4, <2>1, <2>2 DEF RingTypeOK, Holding
<1>6. SlotInv' /\ OrderInv' /\ OnFlash' = OnFlash
  BY DEF SlotInv, OrderInv, OnFlash, SlotOf
<1>7. \A r \in OnFlash : r.ord \in Nat /\ r.seq \in Nat /\ r # Blank
  BY FlashType
<1>8. QueueInv'
  <2>1. \A r \in OnFlash : r.ord <= next /\ r.seq <= last
    BY DEF QueueInv
  <2>2. floor <= last + 1
    BY DEF QueueInv
  <2> QED
    BY <1>1, <1>2, <1>3, <1>4, <1>6, <1>7, <2>1, <2>2 DEF QueueInv
<1>9. BacklogIsKept'
  <2> SUFFICES ASSUME NEW n \in Owed'
               PROVE  \E r \in Active' : r.seq = n /\ r.ord \in head' .. head' + count' - 1
    BY DEF BacklogIsKept
  <2>1. n \notin lost' /\ (n \in Owed \/ n = fresh.seq)
    BY <1>3 DEF Owed
  <2>2. CASE n \in Owed
    <3>1. PICK r \in Active : r.seq = n /\ InQueue(r)
      BY <2>2 DEF BacklogIsKept, InQueue
    <3>2. r \in OnFlash /\ r.ord > mark /\ r.ord \in Nat
      BY <1>7 DEF Active
    <3>3. r.ord >= head /\ r.ord < head + count /\ count > 0
      BY <1>1, <3>1, <3>2 DEF InQueue
    <3>4. RingFull => r.ord # head
      <4> SUFFICES ASSUME RingFull, r.ord = head PROVE FALSE
        OBVIOUS
      <4>1. r = HeadRecord /\ r # Blank
        BY <1>7, <3>2, RecordInSlot DEF HeadRecord
      <4>2. n \in lost'
        BY <3>1, <4>1
      <4> QED
        BY <2>1, <4>2
    <3>5. r.ord > mark' /\ r.ord \in head' .. head' + count' - 1
      <4>1. CASE RingFull
        BY <1>1, <1>3, <3>2, <3>3, <3>4, <4>1
      <4>2. CASE ~RingFull
        BY <1>1, <1>3, <3>2, <3>3, <4>2
      <4> QED
        BY <4>1, <4>2
    <3> QED
      BY <1>6, <3>1, <3>2, <3>5 DEF Active
  <2>3. CASE n = fresh.seq
    <3>1. Readable(next) /\ Record(next).seq = n
      BY <1>3, <2>1, <2>3 DEF FreshInv
    <3>2. Record(next) \in OnFlash /\ Record(next).ord = next
      BY <1>1, <3>1, RecordInSlot DEF Readable
    <3>3. next > mark' /\ next \in head' .. head' + count' - 1
      BY <1>1, <1>3
    <3> QED
      BY <1>6, <3>1, <3>2, <3>3 DEF Active
  <2> QED
    BY <2>1, <2>2, <2>3
<1>10. NumberInv'
  BY DEF NumberInv
<1>11. FreshInv'
  <2> SUFFICES ASSUME at' = "archive"
               PROVE  count' = 1 /\ (Readable(head)' => Record(head)'.seq = fresh'.seq)
    BY <1>4 DEF FreshInv
  <2>1. count = 0 /\ ~RingFull
    BY <1>1, <1>4 DEF FreshInv, RingFull
  <2>2. count' = 1 /\ head' = next
    BY <1>1, <1>3, <2>1
  <2>3. Readable(head)' = Readable(next) /\ Record(head)' = Record(next)
    BY <2>2 DEF Readable, Record, SlotOf
  <2> SUFFICES ASSUME Readable(next)
               PROVE  Record(next).seq = fresh.seq
    BY <1>4, <2>2, <2>3
  <2> QED
    BY DEF FreshInv
<1> QED
  BY <1>5, <1>6, <1>8, <1>9, <1>10, <1>11

-----------------------------------------------------------------------------
(* Boot, and what the surroundings do.                                     *)

LEMMA OrdsFinite ==
  ASSUME NEW S, IsFiniteSet(S)
  PROVE  IsFiniteSet({r.ord : r \in S}) /\ IsFiniteSet({r.seq : r \in S})
<1>1. IsFiniteSet({r.ord : r \in S})
  <2> DEFINE T == {r.ord : r \in S}  f == [r \in S |-> r.ord]
  <2>1. f \in [S -> T] /\ \A t \in T : \E r \in S : f[r] = t
    OBVIOUS
  <2>2. f \in Surjection(S, T)
    BY <2>1 DEF Surjection
  <2> HIDE DEF f
  <2> QED
    BY <2>2, FS_Surjection
<1>2. IsFiniteSet({r.seq : r \in S})
  <2> DEFINE T == {r.seq : r \in S}  f == [r \in S |-> r.seq]
  <2>1. f \in [S -> T] /\ \A t \in T : \E r \in S : f[r] = t
    OBVIOUS
  <2>2. f \in Surjection(S, T)
    BY <2>1 DEF Surjection
  <2> HIDE DEF f
  <2> QED
    BY <2>2, FS_Surjection
<1> QED
  BY <1>1, <1>2

(* The next ordinal and the number to go on from are beyond all in flash.  *)
LEMMA RecoveredBounds ==
  ASSUME RingTypeOK
  PROVE  /\ RecoveredNext \in Nat /\ RecoveredNext > mark
         /\ RecoveredNext - 1 \in {mark} \cup {r.ord : r \in OnFlash}
         /\ \A r \in OnFlash : r.ord < RecoveredNext
         /\ RecoveredNumber \in Nat /\ RecoveredNumber >= floor
         /\ \A r \in OnFlash : r.seq <= RecoveredNumber
<1> DEFINE ords == {mark} \cup {r.ord : r \in OnFlash}
           seqs == {floor} \cup {r.seq : r \in OnFlash}
<1>1. ords \subseteq Nat /\ seqs \subseteq Nat /\ mark \in ords /\ floor \in seqs
      /\ \A r \in OnFlash : r.ord \in ords /\ r.seq \in seqs
  BY FlashType DEF RingTypeOK
<1>2. IsFiniteSet(ords) /\ IsFiniteSet(seqs)
  <2>1. IsFiniteSet({r.ord : r \in OnFlash}) /\ IsFiniteSet({r.seq : r \in OnFlash})
    BY FlashFinite, OrdsFinite
  <2>2. ords = {r.ord : r \in OnFlash} \cup {mark} /\ seqs = {r.seq : r \in OnFlash} \cup {floor}
    OBVIOUS
  <2> HIDE DEF ords, seqs
  <2> QED
    BY <2>1, <2>2, FS_AddElement
<1>3. RecoveredNext = Max(ords) + 1 /\ RecoveredNumber = Max(seqs)
  BY DEF RecoveredNext, RecoveredNumber
<1>4. Max(ords) \in ords /\ \A o \in ords : o <= Max(ords)
  <2> HIDE DEF ords, seqs
  <2> QED
    BY <1>1, <1>2, MaxIs
<1>5. Max(seqs) \in seqs /\ \A o \in seqs : o <= Max(seqs)
  <2> HIDE DEF ords, seqs
  <2> QED
    BY <1>1, <1>2, MaxIs
<1> HIDE DEF seqs
<1>6. PICK m \in Nat : m = Max(ords) /\ m \in ords
  BY <1>1, <1>4
<1>7. RecoveredNext = m + 1 /\ RecoveredNext - 1 = m
  BY <1>3, <1>6
<1>8. mark <= m /\ \A r \in OnFlash : r.ord <= m /\ r.ord \in Nat
  BY <1>1, <1>4, <1>6
<1>9. mark \in Nat
  BY DEF RingTypeOK
<1>10. RecoveredNext \in Nat /\ RecoveredNext > mark /\ \A r \in OnFlash : r.ord < RecoveredNext
  BY <1>7, <1>8, <1>9
<1> QED
  BY <1>1, <1>3, <1>5, <1>6, <1>7, <1>10

LEMMA OrdsAre ==
  ASSUME RingTypeOK, Active # {}
  PROVE  /\ Ords \subseteq Nat /\ Min(Ords) \in Ords /\ Max(Ords) \in Ords
         /\ \A o \in Ords : o > mark /\ Min(Ords) <= o /\ o <= Max(Ords)
         /\ \A r \in OnFlash : r.ord <= mark \/ r.ord \in Ords
<1>1. Active \subseteq OnFlash /\ IsFiniteSet(Active)
  BY FlashFinite, FS_Subset DEF Active
<1>2. Ords \subseteq Nat /\ Ords # {} /\ IsFiniteSet(Ords) /\ \A o \in Ords : o > mark
  BY <1>1, FlashType, OrdsFinite DEF Ords, Active
<1>3. \A r \in OnFlash : r.ord <= mark \/ r.ord \in Ords
  BY FlashType DEF Ords, Active, RingTypeOK
<1> QED
  BY <1>2, <1>3, MaxIs, MinIs

LEMMA BootInv == ASSUME RingIInv, Boot PROVE RingIInv'
<1> USE DEF Boot, RingIInv
<1>1. /\ RecoveredNext \in Nat /\ RecoveredNext > mark
      /\ \A r \in OnFlash : r.ord < RecoveredNext
      /\ RecoveredNumber \in Nat /\ RecoveredNumber >= floor
      /\ \A r \in OnFlash : r.seq <= RecoveredNumber
  BY RecoveredBounds
<1>2. RingCapacity \in Nat \ {0} /\ mark \in Nat /\ floor \in Nat
  BY RingConstants DEF RingCapacity, RingTypeOK
<1> DEFINE dropped == Active # {} /\ RecoveredHead > Min(Ords)
           upTo == IF dropped THEN RecoveredHead - 1 ELSE mark
<1>3. /\ RecoveredHead \in Nat /\ RecoveredCount \in Nat /\ RecoveredCount <= RingCapacity
      /\ RecoveredCount > 0 =>
           RecoveredHead + RecoveredCount = RecoveredNext /\ upTo < RecoveredHead
      /\ upTo \in Nat /\ mark <= upTo /\ upTo < RecoveredNext
      /\ \A o \in Ords : o + RingCapacity <= Max(Ords)
                         \/ (o > upTo /\ o >= RecoveredHead /\ o < RecoveredHead + RecoveredCount)
  <2>1. CASE Active = {}
    <3>1. Ords = {}
      BY <2>1 DEF Ords
    <3> QED
      BY <1>1, <1>2, <2>1, <3>1 DEF RecoveredHead, RecoveredCount
  <2>2. CASE Active # {}
    <3>1. /\ Ords \subseteq Nat /\ Min(Ords) \in Ords /\ Max(Ords) \in Ords
          /\ \A o \in Ords : o > mark /\ Min(Ords) <= o /\ o <= Max(Ords)
          /\ \A r \in OnFlash : r.ord <= mark \/ r.ord \in Ords
      BY <2>2, OrdsAre
    <3>2. PICK low \in Nat : low = Min(Ords)
      BY <3>1
    <3>3. PICK high \in Nat : high = Max(Ords)
      BY <3>1
    <3>4. low > mark /\ low <= high
      BY <3>1, <3>2, <3>3
    <3>5. RecoveredNext = high + 1
      <4>1. PICK r \in OnFlash : r.ord = high
        BY <3>1, <3>3 DEF Ords, Active
      <4>2. RecoveredNext - 1 = mark \/ \E t \in OnFlash : RecoveredNext - 1 = t.ord
        BY RecoveredBounds
      <4>3. RecoveredNext - 1 >= high
        BY <1>1, <4>1
      <4>4. RecoveredNext - 1 <= high
        <5>1. \A t \in OnFlash : t.ord \in Nat
          BY FlashType
        <5> QED
          BY <1>1, <1>2, <3>1, <3>3, <3>4, <4>2, <5>1
      <4> QED
        BY <1>1, <4>3, <4>4
    <3>6. RecoveredCount = (IF high - low + 1 < RingCapacity THEN high - low + 1 ELSE RingCapacity)
      BY <1>2, <2>2, <3>2, <3>3 DEF RecoveredCount, Smaller
    <3>7. RecoveredHead = (IF low > high - RingCapacity + 1 THEN low ELSE high - RingCapacity + 1)
      BY <2>2, <3>2, <3>3 DEF RecoveredHead, Larger
    <3>8. upTo = IF RecoveredHead > low THEN RecoveredHead - 1 ELSE mark
      BY <2>2, <3>2
    <3>9. /\ RecoveredHead \in Nat /\ RecoveredCount \in Nat /\ RecoveredCount <= RingCapacity
          /\ RecoveredHead + RecoveredCount = high + 1 /\ upTo < RecoveredHead
          /\ upTo \in Nat /\ mark <= upTo /\ upTo < high + 1
      <4> HIDE DEF upTo
      <4> QED
        BY <1>2, <3>4, <3>6, <3>7, <3>8
    <3>10. ASSUME NEW o \in Ords
           PROVE  o + RingCapacity <= high
                  \/ (o > upTo /\ o >= RecoveredHead /\ o < RecoveredHead + RecoveredCount)
      <4>1. o \in Nat /\ o > mark /\ low <= o /\ o <= high
        BY <3>1, <3>2, <3>3
      <4> HIDE DEF upTo
      <4> QED
        BY <1>2, <4>1, <3>7, <3>8, <3>9
    <3> HIDE DEF upTo
    <3> QED
      BY <3>3, <3>5, <3>9, <3>10
  <2> QED
    BY <2>1, <2>2
<1>4. PICK ok \in BOOLEAN, floorOk \in BOOLEAN :
        /\ Commit(upTo, AckBatch, ok)
        /\ floor' = (IF floorOk THEN RecoveredNumber ELSE floor)
        /\ Flaws(Cost(ok) + Cost(floorOk))
  OBVIOUS
<1> HIDE DEF upTo
<1>5. /\ pending' = upTo /\ unsaved' \in Nat /\ mark' \in Nat
      /\ mark <= mark' /\ mark' <= upTo
  BY <1>2, <1>3, <1>4, Committed, RingConstants
<1>6. RingTypeOK'
  <2>1. flaws' \in Nat
    BY <1>4, FlawsType DEF Cost
  <2>2. lost' \subseteq Nat
    BY FlashType DEF RingTypeOK, Active
  <2> QED
    BY SMTT(60), <1>1, <1>2, <1>3, <1>4, <1>5, <2>1, <2>2 DEF RingTypeOK, Holding
<1>7. SlotInv' /\ OrderInv' /\ OnFlash' = OnFlash
  BY DEF SlotInv, OrderInv, OnFlash, SlotOf
<1>8. QueueInv'
  BY <1>1, <1>2, <1>3, <1>4, <1>5, <1>7, FlashType DEF QueueInv
<1>9. NumberInv' /\ FreshInv'
  <2>1. made \subseteq Nat
    BY DEF RingTypeOK
  <2> QED
    BY <1>1, <1>2, <1>4, <2>1 DEF NumberInv, FreshInv
<1>10. BacklogIsKept'
  <2>1. ASSUME NEW r \in OnFlash, r.ord > mark, r.seq \in Owed'
        PROVE  r.ord > mark' /\ r.ord \in head' .. head' + count' - 1
    <3>1. r \in Active /\ r.ord \in Ords /\ r.ord \in Nat
      BY <2>1, FlashType DEF Active, Ords
    <3>2. ~(r.ord + RingCapacity <= Max(Ords))
      BY <2>1, <3>1 DEF Owed
    <3> QED
      BY <1>3, <1>5, <3>1, <3>2
  <2>2. Owed' \subseteq Owed
    BY DEF Owed
  <2> QED
    BY <1>7, <2>1, <2>2, BacklogMoves
<1> QED
  BY <1>6, <1>7, <1>8, <1>9, <1>10

LEMMA PowerLossInv == ASSUME RingIInv, PowerLoss PROVE RingIInv'
<1> USE DEF PowerLoss, RingIInv
<1>1. /\ ring' \in [0 .. RingSlots - 1 -> RingRecord \cup {Blank}]
      /\ SlotInv' /\ OrderInv'
      /\ \A r \in OnFlash : InQueue(r) => r \in OnFlash'
  <2>1. CASE ring' = ring
    BY <2>1 DEF RingTypeOK, SlotInv, OrderInv, OnFlash, SlotOf
  <2>2. CASE ring' = [ring EXCEPT ![SlotOf(next)] = Blank]
    BY <2>2, SpareWritten
  <2> QED
    BY <2>1, <2>2
<1>2. RingTypeOK'
  <2>1. flaws' \in Nat
    BY FlawsType
  <2>2. floor' \in Nat
    BY DEF RingTypeOK
  <2>3. forgot' \in BOOLEAN /\ clock' \in BOOLEAN
    <3>1. forgot' = forgot \/ forgot' = TRUE
      OBVIOUS
    <3>2. forgot \in BOOLEAN /\ clock' = FALSE
      BY DEF RingTypeOK
    <3> HIDE DEF PowerLoss, RingIInv
    <3> QED
      BY <3>1, <3>2, Zenon
  <2>4. at' = "off" /\ at' \notin Holding /\ fresh' = Blank
    BY DEF Holding
  <2>5. /\ {head, next, count, pending, unsaved, last, batch}' \subseteq {0}
        /\ UNCHANGED <<mark, bootSession, anchors, made, delivered, archived, kept, lost>>
    OBVIOUS
  <2>6. RingTypeOK
    OBVIOUS
  <2> HIDE DEF PowerLoss, RingIInv
  <2> QED
    BY <1>1, <2>1, <2>2, <2>3, <2>4, <2>5, <2>6 DEF RingTypeOK
<1>3. BacklogIsKept'
  BY <1>1, BacklogMoves DEF Owed
<1>4. NumberInv' /\ QueueInv' /\ FreshInv'
  BY DEF NumberInv, QueueInv, FreshInv
<1> QED
  BY <1>1, <1>2, <1>3, <1>4

(* A record that decays is lost: its packet is no longer owed.             *)
LEMMA SlotDecaysInv == ASSUME RingIInv, SlotDecays PROVE RingIInv'
<1> USE DEF SlotDecays, RingIInv, markVars, numberVars, timeVars, queueVars
<1>1. PICK s \in 0 .. RingSlots - 1 :
        /\ ring[s] # Blank /\ ring' = [ring EXCEPT ![s] = Blank]
        /\ lost' = lost \cup {ring[s].seq}
  BY DEF RingTypeOK
<1>2. ring[s] \in OnFlash /\ ring[s].seq \in Nat
  BY <1>1, FlashType DEF OnFlash, RingTypeOK
<1>3. \A t \in 0 .. RingSlots - 1 : t # s => ring'[t] = ring[t]
  BY <1>1 DEF RingTypeOK
<1>4. ring'[s] = Blank /\ ring' \in [0 .. RingSlots - 1 -> RingRecord \cup {Blank}]
  BY <1>1 DEF RingTypeOK
<1>5. \A r \in OnFlash' : r \in OnFlash
  BY <1>3, <1>4 DEF OnFlash, RingTypeOK
<1>6. RingTypeOK'
  <2>1. flaws' \in Nat
    BY FlawsType
  <2> QED
    BY <1>1, <1>2, <1>4, <2>1 DEF RingTypeOK, Holding
<1>7. SlotInv' /\ OrderInv'
  BY <1>3, <1>4, <1>5 DEF SlotInv, OrderInv, SlotOf
<1>8. BacklogIsKept'
  <2>1. ASSUME NEW r \in OnFlash, r.seq \in Owed'
        PROVE  r \in OnFlash'
    <3>1. r # ring[s]
      BY <1>1, <2>1 DEF Owed
    <3>2. r # Blank /\ \E t \in 0 .. RingSlots - 1 : ring[t] = r
      BY DEF OnFlash, RingTypeOK
    <3> QED
      BY <1>3, <1>4, <3>1, <3>2 DEF OnFlash
  <2> QED
    BY <2>1, BacklogMoves DEF Owed, InQueue
<1>9. NumberInv' /\ QueueInv'
  BY <1>5 DEF NumberInv, QueueInv
<1>10. FreshInv'
  <2>1. ASSUME NEW o \in Nat
        PROVE  IF SlotOf(o) = s THEN ~(ring'[SlotOf(o)] # Blank)
               ELSE ring'[SlotOf(o)] = ring[SlotOf(o)]
    BY <1>3, <1>4, SlotType
  <2>2. head \in Nat /\ next \in Nat
    BY DEF RingTypeOK
  <2>3. at = "admit" =>
          IF Readable(next)' THEN Record(next)'.seq = fresh.seq ELSE fresh.seq \in lost'
    <3>1. CASE SlotOf(next) = s
      <4>1. ~Readable(next)'
        BY <2>1, <2>2, <3>1 DEF Readable, Record, SlotOf
      <4>2. Readable(next) => ring[s].seq = Record(next).seq
        BY <3>1 DEF Record
      <4> QED
        BY <1>1, <4>1, <4>2 DEF FreshInv
    <3>2. CASE SlotOf(next) # s
      <4>1. Readable(next)' = Readable(next) /\ Record(next)' = Record(next)
        BY <2>1, <2>2, <3>2 DEF Readable, Record, SlotOf
      <4> QED
        BY <1>1, <4>1 DEF FreshInv
    <3> QED
      BY <3>1, <3>2
  <2>4. Readable(head)' => Readable(head) /\ Record(head)' = Record(head)
    BY <2>1, <2>2 DEF Readable, Record, SlotOf
  <2> QED
    BY <1>5, <2>3, <2>4 DEF FreshInv
<1> QED
  BY <1>6, <1>7, <1>8, <1>9, <1>10

-----------------------------------------------------------------------------
(* The theorems.                                                           *)

LEMMA RingInitially == RingInit => RingIInv
<1> SUFFICES ASSUME RingInit PROVE RingIInv
  OBVIOUS
<1>1. OnFlash = {} /\ Owed = {}
  BY RingConstants DEF RingInit, OnFlash, Owed
<1>2. RingTypeOK
  BY DEF RingInit, RingTypeOK, Holding
<1>3. SlotInv /\ OrderInv /\ BacklogIsKept
  BY <1>1 DEF RingInit, SlotInv, OrderInv, BacklogIsKept
<1>4. NumberInv /\ QueueInv /\ FreshInv
  BY DEF RingInit, NumberInv, QueueInv, FreshInv
<1> QED
  BY <1>2, <1>3, <1>4 DEF RingIInv

LEMMA RingStep == RingIInv /\ [RingNext]_ringVars => RingIInv'
<1> SUFFICES ASSUME RingIInv, [RingNext]_ringVars PROVE RingIInv'
  OBVIOUS
<1>1. CASE LoopStep
  BY <1>1, StartLoopInv, EndReplayInv, CannotReadInv, SkipCorruptInv, DeferInv, IsolateInv,
     ConsumeArchivedInv, ReplayAcknowledgedInv, UnansweredInv, NoSampleInv, MakeInv,
     CannotMakeInv, SendDirectlyInv, StoreFreshInv, MakeRoomInv, PutInv, CannotPutInv,
     AdmitInv, ArchiveRefusedInv DEF LoopStep
<1>2. CASE Boot \/ PowerLoss \/ SlotDecays
  BY <1>2, BootInv, PowerLossInv, SlotDecaysInv
<1>3. CASE UNCHANGED ringVars
  <2>1. UNCHANGED <<ring, mark, pending, unsaved, floor, last, made, forgot, bootSession, anchors,
                    clock, at, batch, fresh, head, next, count, delivered, archived, kept,
                    lost, flaws>>
    BY <1>3 DEF ringVars, markVars, numberVars, timeVars, queueVars
  <2>2. RingTypeOK' /\ SlotInv' /\ OrderInv' /\ NumberInv'
    BY <2>1 DEF RingIInv, RingTypeOK, SlotInv, OrderInv, NumberInv, OnFlash, SlotOf
  <2>3. QueueInv' /\ FreshInv'
    BY <2>1 DEF RingIInv, QueueInv, FreshInv, OnFlash, Readable, Record, SlotOf
  <2>4. BacklogIsKept'
    BY <2>1, BacklogMoves DEF RingIInv, Owed, OnFlash, InQueue
  <2> QED
    BY <2>2, <2>3, <2>4 DEF RingIInv
<1> QED
  BY <1>1, <1>2, <1>3 DEF RingNext

(* The inductive invariant: where records lie, how their numbers grow, how *)
(* the queue, its watermark and the new packet stand to each other.        *)
THEOREM RingInvariance == RingSpec => []RingIInv
BY RingInitially, RingStep, PTL DEF RingSpec

(* However writes and reads fail, records decay and the power goes, a packet *)
(* whose storage the node reported is in flash above the watermark and in  *)
(* the queue, until it is delivered, archived or given up for newer ones.  *)
THEOREM BacklogStays == RingSpec => []BacklogIsKept
<1>1. RingIInv => BacklogIsKept
  BY DEF RingIInv
<1> QED
  BY <1>1, RingInvariance, PTL

(* What stands at the head of the queue was measured before all else owed. *)
LEMMA HeadIsOldest ==
  ASSUME RingIInv, at # "off", Readable(head), NEW k \in Owed
  PROVE  HeadRecord.seq <= k
<1> USE DEF RingIInv
<1>1. PICK r \in Active : r.seq = k /\ InQueue(r)
  BY DEF BacklogIsKept, InQueue
<1>2. r \in OnFlash /\ r.ord \in Nat /\ r.seq \in Nat /\ head \in Nat /\ count \in Nat
  BY FlashType DEF Active, RingTypeOK
<1>3. HeadRecord \in OnFlash /\ HeadRecord.seq \in Nat /\ HeadRecord.ord = head
  BY HeadOnFlash DEF HeadRecord, Readable
<1>4. CASE r.ord = head
  BY <1>1, <1>2, <1>4, RecordInSlot DEF HeadRecord
<1>5. CASE r.ord # head
  <2>1. HeadRecord.ord < r.ord
    BY <1>1, <1>2, <1>3, <1>5 DEF InQueue
  <2> QED
    BY <1>1, <1>2, <1>3, <2>1 DEF OrderInv
<1> QED
  BY <1>4, <1>5

LEMMA StepDelivers ==
  ASSUME RingIInv, RingNext, NEW n \in delivered' \ delivered, NEW k \in Owed
  PROVE  n <= k
<1>1. CASE ReplayAcknowledged \/ Unanswered
  <2>1. at # "off" /\ Readable(head) /\ n = HeadRecord.seq
    BY <1>1 DEF ReplayAcknowledged, Unanswered, Replaying
  <2> QED
    BY <2>1, HeadIsOldest
<1>2. CASE SendDirectly
  <2>1. PICK r \in Active : r.ord \in head .. head + count - 1
    BY <1>2 DEF SendDirectly, RingIInv, BacklogIsKept
  <2>2. count = 0 /\ head \in Nat
    BY <1>2 DEF SendDirectly, RingIInv, RingTypeOK
  <2> QED
    BY <2>1, <2>2
<1>3. delivered' = delivered \/ ReplayAcknowledged \/ Unanswered \/ SendDirectly
  <2>1. CASE LoopStep
    BY <2>1 DEF LoopStep, StartLoop, EndReplay, CannotRead, SkipCorrupt, Defer, Isolate,
       ConsumeArchived, NoSample, Make, CannotMake, StoreFresh, MakeRoom, Put, CannotPut,
       Admit, ArchiveRefused
  <2>2. CASE Boot \/ PowerLoss \/ SlotDecays
    BY <2>2 DEF Boot, PowerLoss, SlotDecays
  <2> QED
    BY <2>1, <2>2 DEF RingNext
<1> QED
  BY <1>1, <1>2, <1>3

LEMMA RingDelivers == RingInit /\ [][RingNext]_ringVars => DeliveredInOrder
<1>1. RingIInv /\ [RingNext]_ringVars =>
        [\A n \in delivered' \ delivered : \A k \in Owed : n <= k]_ringVars
  BY StepDelivers
<1> QED
  BY <1>1, RingInitially, RingStep, PTL DEF DeliveredInOrder

(* The backend is given what is in the queue in the order it was measured, *)
(* and a packet is sent past the queue only when nothing waits in it.      *)
THEOREM DeliveriesInOrder == RingSpec => DeliveredInOrder
BY RingDelivers, PTL DEF RingSpec

LEMMA StepNumbers ==
  ASSUME RingIInv, RingNext, at = "make", at' = "send"
  PROVE  /\ last' \notin {r.seq : r \in OnFlash}
         /\ forgot \/ last' \notin made
<1> USE DEF RingIInv
<1>1. last' = last + 1
  <2>1. CASE LoopStep
    BY <2>1 DEF LoopStep, StartLoop, EndReplay, CannotRead, SkipCorrupt, Defer, Isolate,
       ConsumeArchived, ReplayAcknowledged, Unanswered, SendDirectly, NoSample, Make,
       CannotMake, StoreFresh, MakeRoom, Put, CannotPut, Admit, ArchiveRefused, Replaying
  <2>2. CASE Boot \/ PowerLoss \/ SlotDecays
    BY <2>2 DEF Boot, PowerLoss, SlotDecays
  <2> QED
    BY <2>1, <2>2 DEF RingNext
<1>2. last \in Nat /\ made \subseteq Nat
  BY DEF RingTypeOK
<1>3. \A r \in OnFlash : r.seq <= last /\ r.seq \in Nat
  BY FlashType DEF QueueInv
<1>4. forgot \/ \A m \in made : m <= last
  BY DEF NumberInv
<1> QED
  BY <1>1, <1>2, <1>3, <1>4

LEMMA RingNumbers == RingInit /\ [][RingNext]_ringVars => NumbersAreNew
<1>1. RingIInv /\ [RingNext]_ringVars =>
        [at = "make" /\ at' = "send" =>
           /\ last' \notin {r.seq : r \in OnFlash}
           /\ forgot \/ last' \notin made]_ringVars
  BY StepNumbers
<1> QED
  BY <1>1, RingInitially, RingStep, PTL DEF NumbersAreNew

(* Whenever the power fails, no number is used twice; and should NVS lose  *)
(* its floor, no number of a record in flash is.                           *)
THEOREM NumbersStayNew == RingSpec => NumbersAreNew
BY RingNumbers, PTL DEF RingSpec
=============================================================================
