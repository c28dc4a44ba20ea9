--------------------------- MODULE ClockSyncProofs --------------------------
(***************************************************************************)
(* The managed clock configuration, for every number of revisions, events, *)
(* failures and crashes: admission is open over one configuration only,    *)
(* events keep their mapping, a stop is final and clean, the mapping is    *)
(* replaced behind the barrier, and the equipment sees whole               *)
(* configurations (Switchover).                                            *)
(***************************************************************************)
EXTENDS ClockSync, TLAPS

-----------------------------------------------------------------------------
(* The controller's steps.                                                 *)

Installing == {"configure", "start", "verify", "resume", "commit", "open"}

\* The step after a step, and the last one of what the controller does.
Then(s) ==
    CASE s = "hold" -> "settle" [] s = "settle" -> "discover" [] s = "discover" -> "quiesce"
      [] s = "quiesce" -> "paused" [] s = "paused" -> "stop" [] s = "stop" -> "drain"
      [] s = "drain" -> "drained" [] s = "drained" -> "configure" [] s = "configure" -> "start"
      [] s = "start" -> "verify" [] s = "verify" -> "resume" [] s = "resume" -> "commit"
      [] OTHER -> "open"
EndOf(m) ==
    CASE m = "first" -> "paused" [] m = "fail" -> "stop" [] m \in {"rollback", "shutdown"} -> "drained"
      [] OTHER -> "open"

Ordered(t) == \A i \in DOMAIN t : i + 1 \in DOMAIN t => t[i + 1] = Then(t[i])
Plan(m, t) ==
    /\ t \in Seq(Steps) /\ t # << >> /\ Ordered(t)
    /\ \A i \in DOMAIN t : t[i] = EndOf(m) <=> i = Len(t)
    /\ m \notin {"apply", "restore"} => \A i \in DOMAIN t : t[i] \notin Installing

Busy == {"first", "apply", "rollback", "restore", "fail", "shutdown"}
Resting == {"idle", "stopped", "exited"}
Planned == (mode \in Resting /\ todo = << >>) \/ (mode \in Busy /\ Plan(mode, todo))

\* The step the controller is at.
Now == IF todo = << >> THEN "none" ELSE Head(todo)

-----------------------------------------------------------------------------
(* The invariant.                                                          *)

\* The revisions the controller and the resolver know.
Known ==
    /\ ri \in Revisions
    /\ desired \in 0..MaxRevs /\ applied \in 0..MaxRevs
    /\ good \in 0..MaxRevs /\ resolver \in 0..MaxRevs
    /\ mode = "apply" => desired # 0
    /\ mode = "restore" => good # 0

\* The sessions on disk; active.json names one with a receipt.
Journal ==
    /\ sess \in Seq([rev : Revisions, verified : BOOLEAN])
    /\ active \in 0..Len(sess) /\ record \in 0..Len(sess)
    /\ JournalSound

\* Nothing but a session with a receipt polls or writes, and a stranger is left alone.
Confirmed(s) == s \in 1..Len(sess) /\ sess[s].verified
BoxOK ==
    /\ box \in [session : 0..Len(sess), up : BOOLEAN, active : BOOLEAN,
                lock : {"free", "poll", "write"}, owned : BOOLEAN]
    /\ box.session = 0 => box \in {NoBox, Stranger}
    /\ ~box.owned => box = Stranger
    /\ box.active \/ box.lock # "free" => box.up /\ Confirmed(box.session)

\* Events come from sessions with a receipt.
StreamOK ==
    /\ \A e \in pending : Confirmed(e.session)
    /\ worker = {} \/ \E e \in pending : worker = {e}
    /\ placed.to \in {"nowhere", "buffer"} /\ placed.session \in 0..Len(sess)
    /\ placed.rev = RevOf(placed.session)

\* Until a command is on the wire, the producer that may get it has the revision its
\* address is looked up in; on the wire it has that of its session.
CmdOK ==
    /\ cmd \in [at : {"none", "core", "found", "wire", "writing", "replied"}, rev : 0..MaxRevs,
                to : 0..Len(sess), waiting : BOOLEAN]
    /\ cmd.at \in {"core", "found"} => cmd.waiting
    /\ cmd.waiting /\ box.up /\ box.owned => RevOf(box.session) = resolver
    /\ cmd.at = "found" => cmd.rev = resolver
    /\ cmd.at \in {"wire", "writing"} => cmd.to # 0 /\ cmd.rev = RevOf(cmd.to)

\* One configuration, in the resolver, the producer's record and its container.
OneConfiguration ==
    /\ record # 0 /\ resolver = RevOf(record)
    /\ box = NoBox \/ box.session = record

\* What the controller's place says.
PlaceOK ==
    /\ stopping => held
    /\ ~held => /\ Now \in {"none", "hold"}
                /\ OneConfiguration /\ Confirmed(record) /\ active = record
    /\ Now \notin {"none", "hold", "settle"} /\ mode \notin {"fail", "shutdown"} => ~cmd.waiting
    /\ Now \in {"drain", "drained", "configure", "start"} => box = NoBox
    /\ Now = "configure" => pending = {} /\ worker = {}
    /\ Now \in {"start", "verify", "resume", "commit", "open"} => OneConfiguration
    /\ Now = "start" => cmd.to # record
    /\ Now \in {"resume", "commit", "open"} => Confirmed(record)
    /\ Now = "open" => active = record
    /\ mode = "stopped" => box = NoBox /\ pending = {}

ClockInv == Planned /\ Known /\ Journal /\ BoxOK /\ StreamOK /\ CmdOK /\ PlaceOK

-----------------------------------------------------------------------------
(* How the controller moves.                                               *)

LEMMA StepsAre ==
    Steps = {"hold", "settle", "discover", "quiesce", "paused", "stop", "drain", "drained"}
            \cup Installing
<1>1. {HoldSteps[i] : i \in DOMAIN HoldSteps} = {"hold", "settle", "discover", "quiesce", "paused"}
  <2>1. DOMAIN HoldSteps = 1..5 BY DEF HoldSteps
  <2>2. /\ HoldSteps[1] = "hold" /\ HoldSteps[2] = "settle" /\ HoldSteps[3] = "discover"
        /\ HoldSteps[4] = "quiesce" /\ HoldSteps[5] = "paused"
    BY DEF HoldSteps
  <2> QED BY <2>1, <2>2
<1>2. {InstallSteps[i] : i \in DOMAIN InstallSteps} = Installing
  <2>1. DOMAIN InstallSteps = 1..6 BY DEF InstallSteps
  <2>2. /\ InstallSteps[1] = "configure" /\ InstallSteps[2] = "start" /\ InstallSteps[3] = "verify"
        /\ InstallSteps[4] = "resume" /\ InstallSteps[5] = "commit" /\ InstallSteps[6] = "open"
    BY DEF InstallSteps
  <2> QED BY <2>1, <2>2 DEF Installing
<1> QED BY <1>1, <1>2 DEF Steps

\* One list of steps after another.
LEMMA OrderedConcat ==
    ASSUME NEW s \in Seq(Steps), NEW t \in Seq(Steps), s # << >>, t # << >>,
           Ordered(s), Ordered(t), t[1] = Then(s[Len(s)])
    PROVE  /\ s \o t \in Seq(Steps) /\ s \o t # << >> /\ Ordered(s \o t)
           /\ Len(s \o t) = Len(s) + Len(t) /\ Head(s \o t) = s[1]
           /\ \A i \in 1..Len(s \o t) : (s \o t)[i] = IF i <= Len(s) THEN s[i] ELSE t[i - Len(s)]
<1> DEFINE st == s \o t
<1>1. /\ st \in Seq(Steps) /\ Len(s) \in Nat /\ Len(t) \in Nat /\ Len(s) > 0 /\ Len(t) > 0
      /\ Len(st) = Len(s) + Len(t) /\ st # << >>
      /\ DOMAIN st = 1..(Len(s) + Len(t)) /\ DOMAIN s = 1..Len(s) /\ DOMAIN t = 1..Len(t)
  OBVIOUS
<1>2. \A i \in 1..(Len(s) + Len(t)) : st[i] = IF i <= Len(s) THEN s[i] ELSE t[i - Len(s)]
  OBVIOUS
<1>3. Head(st) = st[1] BY <1>1
<1> HIDE DEF st
<1>4. Ordered(st)
  <2> SUFFICES ASSUME NEW i \in DOMAIN st, i + 1 \in DOMAIN st PROVE st[i + 1] = Then(st[i])
    BY DEF Ordered
  <2>1. CASE i + 1 <= Len(s)
    <3>1. i \in DOMAIN s /\ i + 1 \in DOMAIN s /\ st[i] = s[i] /\ st[i + 1] = s[i + 1]
      BY <1>1, <1>2, <2>1
    <3> QED BY <3>1 DEF Ordered
  <2>2. CASE i = Len(s)
    <3>1. st[i] = s[Len(s)] /\ st[i + 1] = t[1] BY <1>1, <1>2, <2>2
    <3> QED BY <3>1
  <2>3. CASE i > Len(s)
    <3>1. PICK k \in Nat : k = i - Len(s) /\ k >= 1 BY <1>1, <2>3
    <3>2. k \in DOMAIN t /\ k + 1 \in DOMAIN t /\ st[i] = t[k] /\ st[i + 1] = t[k + 1]
      BY <1>1, <1>2, <3>1
    <3> QED BY <3>2 DEF Ordered
  <2> QED BY <1>1, <2>1, <2>2, <2>3
<1> QED BY <1>1, <1>2, <1>3, <1>4 DEF st

\* What the controller sets out to do, in order.
LEMMA Plans ==
    /\ Plan("first", HoldSteps) /\ Head(HoldSteps) = "hold"
    /\ Plan("apply", ClearSteps \o InstallSteps) /\ Head(ClearSteps \o InstallSteps) = "hold"
    /\ Plan("rollback", ClearSteps) /\ Plan("shutdown", ClearSteps) /\ Head(ClearSteps) = "hold"
    /\ Plan("restore", InstallSteps) /\ Head(InstallSteps) = "configure"
    /\ Plan("fail", HoldSteps \o <<"stop">>) /\ Head(HoldSteps \o <<"stop">>) = "hold"
    /\ Plan("fail", <<"stop">>) /\ Head(<<"stop">>) = "stop"
    /\ Plan("shutdown", <<"stop", "drain", "drained">>)
    /\ Head(<<"stop", "drain", "drained">>) = "stop"
<1> DEFINE stops == <<"stop", "drain", "drained">>
           early == {"hold", "settle", "discover", "quiesce", "paused"}
           late == {"stop", "drain", "drained"}
<1>1. /\ HoldSteps \in Seq(Steps) /\ HoldSteps # << >> /\ Ordered(HoldSteps)
      /\ Len(HoldSteps) = 5 /\ HoldSteps[1] = "hold" /\ HoldSteps[5] = "paused"
      /\ \A i \in 1..5 : HoldSteps[i] \in early /\ (HoldSteps[i] = "paused" <=> i = 5)
  BY StepsAre DEF HoldSteps, Ordered, Then
<1>2. /\ stops \in Seq(Steps) /\ stops # << >> /\ Ordered(stops)
      /\ Len(stops) = 3 /\ stops[1] = "stop" /\ stops[3] = "drained"
      /\ \A i \in 1..3 : stops[i] \in late /\ (stops[i] = "drained" <=> i = 3)
  BY StepsAre DEF Ordered, Then
<1>3. /\ <<"stop">> \in Seq(Steps) /\ <<"stop">> # << >> /\ Ordered(<<"stop">>)
      /\ Len(<<"stop">>) = 1 /\ <<"stop">>[1] = "stop"
  BY StepsAre DEF Ordered, Then
<1>4. /\ InstallSteps \in Seq(Steps) /\ InstallSteps # << >> /\ Ordered(InstallSteps)
      /\ Len(InstallSteps) = 6 /\ InstallSteps[1] = "configure"
      /\ \A i \in 1..6 : InstallSteps[i] \in Installing /\ (InstallSteps[i] = "open" <=> i = 6)
  BY StepsAre DEF InstallSteps, Ordered, Then, Installing
<1>5. Then("paused") = "stop" /\ Then("drained") = "configure" BY DEF Then
<1> HIDE DEF stops
<1>6. /\ ClearSteps \in Seq(Steps) /\ ClearSteps # << >> /\ Ordered(ClearSteps)
      /\ Len(ClearSteps) = 8 /\ Head(ClearSteps) = "hold" /\ ClearSteps[1] = "hold"
      /\ \A i \in 1..8 : ClearSteps[i] \in early \cup late /\ (ClearSteps[i] = "drained" <=> i = 8)
  <2>1. ClearSteps = HoldSteps \o stops BY DEF ClearSteps, stops
  <2>2. /\ ClearSteps \in Seq(Steps) /\ ClearSteps # << >> /\ Ordered(ClearSteps)
        /\ Len(ClearSteps) = 8 /\ Head(ClearSteps) = "hold"
        /\ \A i \in 1..8 : ClearSteps[i] = IF i <= 5 THEN HoldSteps[i] ELSE stops[i - 5]
    <3>1. stops[1] = Then(HoldSteps[Len(HoldSteps)]) BY <1>1, <1>2, <1>5
    <3>2. /\ ClearSteps \in Seq(Steps) /\ ClearSteps # << >> /\ Ordered(ClearSteps)
          /\ Len(ClearSteps) = Len(HoldSteps) + Len(stops) /\ Head(ClearSteps) = HoldSteps[1]
          /\ \A i \in 1..Len(ClearSteps) :
                ClearSteps[i] = IF i <= Len(HoldSteps) THEN HoldSteps[i]
                                ELSE stops[i - Len(HoldSteps)]
      BY <1>1, <1>2, <2>1, <3>1, OrderedConcat, Zenon
    <3> QED BY <1>1, <1>2, <3>2
  <2>3. ASSUME NEW i \in 1..8
        PROVE  ClearSteps[i] \in early \cup late /\ (ClearSteps[i] = "drained" <=> i = 8)
    <3>1. CASE i <= 5 BY <1>1, <2>2, <3>1
    <3>2. CASE i > 5
      <4>1. i - 5 \in 1..3 /\ ClearSteps[i] = stops[i - 5] BY <2>2, <3>2
      <4> QED BY <1>2, <4>1
    <3> QED BY <3>1, <3>2
  <2>4. ClearSteps[1] = "hold" BY <1>1, <2>2
  <2> QED BY <2>2, <2>3, <2>4
<1>7. Plan("first", HoldSteps) /\ Head(HoldSteps) = "hold"
  BY <1>1 DEF Plan, EndOf, Installing
<1>8. Plan("rollback", ClearSteps) /\ Plan("shutdown", ClearSteps)
  BY <1>6 DEF Plan, EndOf, Installing
<1>9. Plan("restore", InstallSteps) /\ Head(InstallSteps) = "configure"
  BY <1>4 DEF Plan, EndOf
<1>10. Plan("apply", ClearSteps \o InstallSteps) /\ Head(ClearSteps \o InstallSteps) = "hold"
  <2> DEFINE t == ClearSteps \o InstallSteps
  <2>1. /\ t \in Seq(Steps) /\ t # << >> /\ Ordered(t) /\ Len(t) = 14 /\ Head(t) = "hold"
        /\ \A i \in 1..14 : t[i] = IF i <= 8 THEN ClearSteps[i] ELSE InstallSteps[i - 8]
    <3>1. InstallSteps[1] = Then(ClearSteps[Len(ClearSteps)]) BY <1>4, <1>5, <1>6
    <3>2. ClearSteps \in Seq(Steps) /\ ClearSteps # << >> /\ Ordered(ClearSteps)
      BY <1>6
    <3>3. InstallSteps \in Seq(Steps) /\ InstallSteps # << >> /\ Ordered(InstallSteps)
      BY <1>4
    <3>4. /\ t \in Seq(Steps) /\ t # << >> /\ Ordered(t)
          /\ Len(t) = Len(ClearSteps) + Len(InstallSteps) /\ Head(t) = ClearSteps[1]
          /\ \A i \in 1..Len(t) : t[i] = IF i <= Len(ClearSteps) THEN ClearSteps[i]
                                         ELSE InstallSteps[i - Len(ClearSteps)]
      BY <3>1, <3>2, <3>3, OrderedConcat
    <3> HIDE DEF t
    <3> QED BY <1>4, <1>6, <3>4
  <2> HIDE DEF t
  <2>2. DOMAIN t = 1..14 BY <2>1
  <2>3. ASSUME NEW i \in 1..14 PROVE t[i] = "open" <=> i = 14
    <3>1. CASE i <= 8
      <4>1. i \in 1..8 /\ t[i] = ClearSteps[i] BY <2>1, <3>1
      <4> QED BY <1>6, <4>1
    <3>2. CASE i > 8
      <4>1. i - 8 \in 1..6 /\ t[i] = InstallSteps[i - 8] BY <2>1, <3>2
      <4> QED BY <1>4, <4>1
    <3> QED BY <3>1, <3>2
  <2> QED BY <2>1, <2>2, <2>3, Zenon DEF Plan, EndOf, t
<1>11. Plan("fail", HoldSteps \o <<"stop">>) /\ Head(HoldSteps \o <<"stop">>) = "hold"
  <2> DEFINE t == HoldSteps \o <<"stop">>
  <2>1. /\ t \in Seq(Steps) /\ t # << >> /\ Ordered(t) /\ Len(t) = 6 /\ Head(t) = "hold"
        /\ \A i \in 1..6 : t[i] = IF i <= 5 THEN HoldSteps[i] ELSE <<"stop">>[i - 5]
    <3>1. <<"stop">>[1] = Then(HoldSteps[Len(HoldSteps)]) BY <1>1, <1>3, <1>5
    <3>2. PICK s \in Seq(Steps) : s = <<"stop">> BY <1>3, Zenon
    <3>3. s # << >> /\ Ordered(s) /\ s[1] = Then(HoldSteps[Len(HoldSteps)]) /\ Len(s) = 1
      BY <1>3, <3>1, <3>2
    <3>4. /\ t \in Seq(Steps) /\ t # << >> /\ Ordered(t)
          /\ Len(t) = Len(HoldSteps) + Len(s) /\ Head(t) = HoldSteps[1]
          /\ \A i \in 1..Len(t) : t[i] = IF i <= Len(HoldSteps) THEN HoldSteps[i]
                                         ELSE s[i - Len(HoldSteps)]
      BY <1>1, <3>2, <3>3, OrderedConcat, Zenon
    <3> HIDE DEF t
    <3> QED BY <1>1, <3>2, <3>3, <3>4
  <2> HIDE DEF t
  <2>2. DOMAIN t = 1..6 BY <2>1
  <2>3. ASSUME NEW i \in 1..6
        PROVE  (t[i] = "stop" <=> i = 6) /\ t[i] \notin Installing
    BY <1>1, <1>3, <2>1 DEF Installing
  <2> QED BY <2>1, <2>2, <2>3 DEF Plan, EndOf, t
<1>12. Plan("fail", <<"stop">>) /\ Head(<<"stop">>) = "stop"
  BY <1>3 DEF Plan, EndOf, Installing
<1>13. Plan("shutdown", stops) /\ Head(stops) = "stop"
  BY <1>2 DEF Plan, EndOf, Installing
<1> QED BY <1>6, <1>7, <1>8, <1>9, <1>10, <1>11, <1>12, <1>13 DEF stops

\* A step that succeeded leads to the next one, or ends what the controller does.
Advanced(s) ==
    \/ /\ s # EndOf(mode) /\ Now' = Then(s)
       /\ UNCHANGED <<mode, good, applied>>
    \/ /\ s = EndOf(mode) /\ mode = "rollback" /\ good # 0
       /\ mode' = "restore" /\ Now' = "configure"
       /\ UNCHANGED <<good, applied>>
    \/ /\ s = EndOf(mode) /\ Now' = "none"
       /\ mode' = IF mode = "shutdown" THEN "stopped" ELSE "idle"
       /\ good' \in {good, desired} /\ applied' \in {applied, good, desired}

\* One that failed leads back.
Retreated ==
    /\ mode' \in {"idle", "rollback", "fail", "shutdown", "exited"}
    /\ Now' \in {"none", "hold", "stop"}
    /\ Now' = "stop" => mode' \in {"fail", "shutdown"}
    /\ UNCHANGED <<good, applied>>

LEMMA PlanTail ==
    ASSUME NEW m, NEW t, Plan(m, t)
    PROVE  /\ Len(t) > 1 => Plan(m, Tail(t)) /\ Head(Tail(t)) = Then(Head(t)) /\ Tail(t) # << >>
           /\ (Len(t) > 1 => Head(t) # EndOf(m)) /\ (Len(t) <= 1 => Head(t) = EndOf(m))
           /\ Head(t) \in Steps /\ t # << >>
           /\ Head(t) \in Installing => m \in {"apply", "restore"}
<1>1. t \in Seq(Steps) /\ t # << >> /\ Len(t) \in Nat /\ Len(t) >= 1 BY DEF Plan
<1>2. DOMAIN t = 1..Len(t) /\ Head(t) = t[1] /\ \A i \in 1..Len(t) : t[i] \in Steps BY <1>1
<1>3. ASSUME Len(t) > 1
      PROVE  Plan(m, Tail(t)) /\ Head(Tail(t)) = Then(Head(t)) /\ Tail(t) # << >>
  <2> DEFINE u == Tail(t)
  <2>1. /\ u \in Seq(Steps) /\ Len(u) = Len(t) - 1 /\ DOMAIN u = 1..(Len(t) - 1)
        /\ \A i \in 1..(Len(t) - 1) : u[i] = t[i + 1]
    BY <1>1, <1>3
  <2>2. u # << >>
    <3>1. Len(u) # 0 /\ Len(<< >>) = 0 BY <1>1, <1>3, <2>1
    <3> QED BY <3>1
  <2>3. Head(u) = u[1] BY <2>1, <2>2
  <2> HIDE DEF u
  <2>4. Ordered(u)
    <3> SUFFICES ASSUME NEW i \in DOMAIN u, i + 1 \in DOMAIN u PROVE u[i + 1] = Then(u[i])
      BY DEF Ordered
    <3>1. i \in Nat /\ i + 1 \in DOMAIN t /\ (i + 1) + 1 \in DOMAIN t BY <1>1, <1>2, <2>1
    <3>2. u[i] = t[i + 1] /\ u[i + 1] = t[(i + 1) + 1] BY <1>1, <2>1
    <3> QED BY <3>1, <3>2 DEF Plan, Ordered
  <2>5. ASSUME NEW i \in DOMAIN u PROVE u[i] = EndOf(m) <=> i = Len(u)
    <3>1. i + 1 \in DOMAIN t /\ u[i] = t[i + 1] BY <1>1, <1>2, <2>1
    <3>2. t[i + 1] = EndOf(m) <=> i + 1 = Len(t) BY <3>1 DEF Plan
    <3> QED BY <1>1, <2>1, <3>1, <3>2
  <2>6. m \notin {"apply", "restore"} => \A i \in DOMAIN u : u[i] \notin Installing
    BY <1>1, <1>2, <2>1 DEF Plan
  <2>7. Plan(m, u) BY <2>1, <2>2, <2>4, <2>5, <2>6 DEF Plan
  <2>8. 1 \in DOMAIN t /\ 1 + 1 \in DOMAIN t /\ u[1] = t[1 + 1] BY <1>1, <1>2, <1>3, <2>1
  <2>9. Head(u) = Then(Head(t)) BY <1>2, <2>3, <2>8 DEF Plan, Ordered
  <2> QED BY <2>2, <2>7, <2>9 DEF u
<1>4. (Len(t) > 1 => Head(t) # EndOf(m)) /\ (Len(t) <= 1 => Head(t) = EndOf(m))
  BY <1>1, <1>2 DEF Plan
<1>5. Head(t) \in Steps BY <1>1, <1>2
<1>6. Head(t) \in Installing => m \in {"apply", "restore"} BY <1>1, <1>2 DEF Plan
<1> QED BY <1>1, <1>3, <1>4, <1>5, <1>6

\* Where the controller is, and what it does there.
LEMMA AtStep ==
    ASSUME Planned, NEW s, At(s)
    PROVE  /\ Now = s /\ mode \in Busy /\ s \in Steps /\ Plan(mode, todo)
           /\ s \in Installing => mode \in {"apply", "restore"}
<1>1. todo # << >> /\ Head(todo) = s BY DEF At
<1>2. mode \in Busy /\ Plan(mode, todo) BY <1>1 DEF Planned
<1> QED BY <1>1, <1>2, PlanTail, Zenon DEF Now

LEMMA PlanIsConstant == \A m, t : Plan(m, t)' <=> Plan(m, t)
BY DEF Plan, Ordered, Then, EndOf, Installing, Steps, HoldSteps, InstallSteps

LEMMA DoneMoves ==
    ASSUME Planned, NEW s, At(s), Done
    PROVE  Planned' /\ Advanced(s) /\ UNCHANGED desired
<1>1. Now = s /\ mode \in Busy /\ Plan(mode, todo) /\ Head(todo) = s /\ todo # << >>
  BY AtStep DEF At
<1>2. UNCHANGED desired BY DEF Done
<1>3. CASE Len(todo) > 1
  <2>1. todo' = Tail(todo) /\ UNCHANGED <<applied, good, mode>> BY <1>3 DEF Done
  <2>2. Plan(mode, Tail(todo)) /\ Head(Tail(todo)) = Then(s) /\ Tail(todo) # << >>
    BY <1>1, <1>3, PlanTail, Zenon
  <2>3. Planned'
    <3>1. Plan(mode', todo') BY <2>1, <2>2
    <3> QED BY <1>1, <2>1, <3>1, PlanIsConstant DEF Planned
  <2>4. Now' = Then(s) BY <2>1, <2>2 DEF Now
  <2>5. s # EndOf(mode) BY <1>1, <1>3, PlanTail, Zenon
  <2> QED BY <1>2, <2>1, <2>3, <2>4, <2>5 DEF Advanced
<1>4. CASE ~(Len(todo) > 1)
  <2>1. s = EndOf(mode)
    <3>1. Len(todo) \in Nat BY <1>1 DEF Plan
    <3>2. Len(todo) <= 1 BY <1>4, <3>1
    <3> QED BY <1>1, <3>2, PlanTail, Zenon
  <2>2. /\ good' \in {good, desired} /\ applied' \in {applied, good, desired}
        /\ mode # "apply" => UNCHANGED good
        /\ mode \notin {"apply", "restore"} => UNCHANGED applied
    BY <1>4 DEF Done
  <2>3. CASE mode = "rollback" /\ Restorable
    <3>1. mode' = "restore" /\ todo' = InstallSteps BY <1>4, <2>3 DEF Done
    <3>2. Plan(mode', todo') /\ todo' # << >> /\ Now' = "configure"
      BY <3>1, Plans DEF Now, Plan
    <3>3. Planned' BY <3>1, <3>2, PlanIsConstant DEF Planned, Busy
    <3> QED BY <1>2, <2>1, <2>2, <2>3, <3>1, <3>2, <3>3 DEF Advanced, Restorable
  <2>4. CASE ~(mode = "rollback" /\ Restorable)
    <3>1. mode' = (IF mode = "shutdown" THEN "stopped" ELSE "idle") /\ todo' = << >>
      BY <1>4, <2>4 DEF Done
    <3>2. Planned' /\ Now' = "none" BY <3>1 DEF Planned, Resting, Now
    <3> QED BY <1>2, <2>1, <2>2, <3>1, <3>2 DEF Advanced
  <2> QED BY <2>3, <2>4
<1> QED BY <1>3, <1>4

LEMMA FailMoves ==
    ASSUME Planned, NEW s, At(s), NEW timeUp, Fail(timeUp)
    PROVE  Planned' /\ Retreated /\ UNCHANGED desired
<1>1. mode \in Busy /\ todo # << >> BY AtStep DEF At
<1>2. /\ mode' = OnFail[mode].mode /\ todo' = OnFail[mode].todo
      /\ UNCHANGED <<desired, applied, good>>
  BY DEF Fail
<1>3. \/ mode' \in {"idle", "exited"} /\ todo' = << >>
      \/ mode' = "rollback" /\ todo' = ClearSteps
      \/ mode' = "fail" /\ todo' \in {HoldSteps \o <<"stop">>, <<"stop">>}
      \/ mode' = "shutdown" /\ todo' = <<"stop", "drain", "drained">>
  <2>1. CASE mode = "first" BY <1>2, <2>1 DEF OnFail
  <2>2. CASE mode = "apply" BY <1>2, <2>2 DEF OnFail
  <2>3. CASE mode = "rollback" BY <1>2, <2>3 DEF OnFail
  <2>4. CASE mode = "restore" BY <1>2, <2>4 DEF OnFail
  <2>5. CASE mode = "fail" BY <1>2, <2>5 DEF OnFail
  <2>6. CASE mode = "shutdown" BY <1>2, <2>6 DEF OnFail
  <2> QED BY <1>1, <2>1, <2>2, <2>3, <2>4, <2>5, <2>6 DEF Busy
<1>4. CASE mode' \in {"idle", "exited"} /\ todo' = << >>
  <2>1. Planned' /\ Now' = "none" BY <1>4 DEF Planned, Resting, Now
  <2> QED BY <1>2, <1>4, <2>1 DEF Retreated
<1>5. CASE mode' # "idle" /\ mode' # "exited"
  <2>1. /\ mode' \in {"rollback", "fail", "shutdown"} /\ Plan(mode', todo')
        /\ Head(todo') \in {"hold", "stop"}
        /\ Head(todo') = "stop" => mode' \in {"fail", "shutdown"}
    BY <1>3, <1>5, Plans, Zenon
  <2>2. todo' # << >> BY <2>1 DEF Plan
  <2>3. Planned' BY <2>1, PlanIsConstant DEF Planned, Busy
  <2> QED BY <1>2, <2>1, <2>2, <2>3 DEF Retreated, Now
<1> QED BY <1>3, <1>4, <1>5

\* What a step that failed leaves, and where it leads.
LEMMA FailReports ==
    ASSUME mode \in Busy, NEW timeUp, Fail(timeUp)
    PROVE  /\ UNCHANGED <<desired, applied, good, initialized>>
           /\ mode' \in {"rollback", "fail"} => mode \in {"apply", "rollback", "restore", "fail"}
           /\ mode = "shutdown" => mode' \in {"shutdown", "exited"}
           /\ mode' \notin {"apply", "restore"}
<1>1. mode' = OnFail[mode].mode /\ UNCHANGED <<desired, applied, good, initialized>> BY DEF Fail
<1>2. CASE mode = "first" BY <1>1, <1>2 DEF OnFail
<1>3. CASE mode = "apply" BY <1>1, <1>3 DEF OnFail
<1>4. CASE mode = "rollback" BY <1>1, <1>4 DEF OnFail
<1>5. CASE mode = "restore" BY <1>1, <1>5 DEF OnFail
<1>6. CASE mode = "fail" BY <1>1, <1>6 DEF OnFail
<1>7. CASE mode = "shutdown" BY <1>1, <1>7 DEF OnFail
<1> QED BY <1>2, <1>3, <1>4, <1>5, <1>6, <1>7 DEF Busy

\* What a step that succeeded reports: nothing before the gate is open.
LEMMA DoneReports ==
    ASSUME Planned, NEW s, At(s), Done
    PROVE  /\ initialized => initialized'
           /\ s # "open" => UNCHANGED <<applied, good, desired>>
           /\ s = "open" => mode \in {"apply", "restore"} /\ applied' = Wanted
<1>1. mode \in Busy /\ Plan(mode, todo) /\ Head(todo) = s
  BY AtStep DEF At
<1>2. initialized => initialized' BY Zenon DEF Done
<1>3. UNCHANGED desired BY DEF Done
<1>4. CASE Len(todo) > 1
  <2>1. UNCHANGED <<applied, good>> BY <1>4 DEF Done
  <2>2. s # EndOf(mode) BY <1>1, <1>4, PlanTail, Zenon
  <2>3. s = "open" => mode \in {"apply", "restore"} BY AtStep DEF Installing
  <2>4. s # "open" BY <2>2, <2>3 DEF EndOf
  <2> QED BY <1>2, <1>3, <2>1, <2>4
<1>5. CASE ~(Len(todo) > 1)
  <2>1. s = EndOf(mode)
    <3>1. Len(todo) \in Nat BY <1>1 DEF Plan
    <3>2. Len(todo) <= 1 BY <1>5, <3>1
    <3> QED BY <1>1, <3>2, PlanTail, Zenon
  <2>2. s = "open" <=> mode \in {"apply", "restore"} BY <1>1, <2>1 DEF EndOf, Busy
  <2>3. /\ mode \notin {"apply", "restore"} => UNCHANGED <<applied, good>>
        /\ mode \in {"apply", "restore"} => applied' = Wanted
    BY <1>5 DEF Done, Wanted
  <2> QED BY <1>2, <1>3, <2>2, <2>3
<1> QED BY <1>4, <1>5

-----------------------------------------------------------------------------
(* Steps that leave the sessions, the container, the stream and the        *)
(* command alone.                                                          *)

DataOK == Journal /\ BoxOK /\ StreamOK /\ CmdOK

LEMMA DataStays ==
    ASSUME DataOK,
           UNCHANGED <<sess, active, record, box, pending, worker, placed, cmd, resolver>>
    PROVE  DataOK'
<1>1. Journal' BY DEF DataOK, Journal, JournalSound
<1>2. BoxOK' BY DEF DataOK, BoxOK, Confirmed
<1>3. StreamOK' BY DEF DataOK, StreamOK, Confirmed, RevOf
<1>4. CmdOK' BY DEF DataOK, CmdOK, RevOf
<1> QED BY <1>1, <1>2, <1>3, <1>4 DEF DataOK

LEMMA ConfigurationStays ==
    ASSUME UNCHANGED <<sess, record, box, resolver>>
    PROVE  /\ OneConfiguration' <=> OneConfiguration
           /\ Confirmed(record)' <=> Confirmed(record)
BY DEF OneConfiguration, Confirmed, RevOf

\* A step that fails.
LEMMA Retreat ==
    ASSUME ClockInv, NEW s, At(s), s # "hold", NEW timeUp, Fail(timeUp),
           UNCHANGED <<ri, resolver, held, stopping>>
    PROVE  Planned' /\ Known' /\ PlaceOK'
<1>1. Planned' /\ Retreated /\ UNCHANGED desired BY FailMoves DEF ClockInv
<1>2. Now = s /\ s \in Steps BY AtStep DEF ClockInv
<1>3. s # "none" BY <1>2, StepsAre DEF Installing
<1>4. held BY <1>2, <1>3 DEF ClockInv, PlaceOK
<1>5. Known' BY <1>1 DEF ClockInv, Known, Retreated
<1>6. PlaceOK' BY <1>1, <1>4 DEF PlaceOK, Retreated
<1> QED BY <1>1, <1>5, <1>6

\* A step that succeeds.
LEMMA Forward ==
    ASSUME ClockInv, NEW s, At(s), Done, UNCHANGED ri, resolver' \in 0..MaxRevs
    PROVE  /\ Planned' /\ Known' /\ Advanced(s) /\ Now = s /\ mode \in Busy
           /\ s \notin {"none", "hold"} => held
<1>1. Planned' /\ Advanced(s) /\ UNCHANGED desired BY DoneMoves DEF ClockInv
<1>2. Now = s /\ s \in Steps /\ mode \in Busy BY AtStep DEF ClockInv
<1>3. Known' BY <1>1 DEF ClockInv, Known, Advanced
<1>4. s \notin {"none", "hold"} => held BY <1>2 DEF ClockInv, PlaceOK
<1> QED BY <1>1, <1>2, <1>3, <1>4

LEMMA HoldKeeps ==
    ASSUME ClockInv, Hold
    PROVE  ClockInv'
<1>1. /\ At("hold") /\ Done /\ held' = TRUE
      /\ UNCHANGED <<sess, active, record, box, pending, worker, placed, cmd, resolver, ri>>
  BY DEF Hold, StepKeeps, diskVars, busVars
<1>2. DataOK' BY <1>1, DataStays DEF ClockInv, DataOK
<1>3. Planned' /\ Known' /\ Advanced("hold")
  <2>1. resolver' \in 0..MaxRevs BY <1>1 DEF ClockInv, Known
  <2> QED BY <1>1, <2>1, Forward
<1>4. Now' = "settle" /\ mode' # "stopped"
  <2>1. "hold" # EndOf(mode) /\ Then("hold") = "settle" BY DEF EndOf, Then
  <2>2. mode \in Busy BY <1>1, AtStep DEF ClockInv
  <2> QED BY <1>3, <2>1, <2>2 DEF Advanced, Busy
<1>5. PlaceOK' BY <1>1, <1>4 DEF PlaceOK
<1> QED BY <1>2, <1>3, <1>5 DEF ClockInv, DataOK

LEMMA SettleKeeps ==
    ASSUME ClockInv, Settle
    PROVE  ClockInv'
<1>1. /\ At("settle") /\ ((Done /\ ~cmd.waiting) \/ Fail(TRUE))
      /\ UNCHANGED <<sess, active, record, box, pending, worker, placed, cmd, resolver, ri, held,
                     stopping>>
  BY Zenon DEF Settle, StepKeeps, diskVars, busVars
<1>2. DataOK' BY <1>1, DataStays DEF ClockInv, DataOK
<1>3. CASE Fail(TRUE) BY <1>1, <1>2, <1>3, Retreat, Zenon DEF ClockInv, DataOK
<1>4. CASE Done /\ ~cmd.waiting
  <2>1. resolver' \in 0..MaxRevs BY <1>1 DEF ClockInv, Known
  <2>2. Planned' /\ Known' /\ Advanced("settle") /\ held /\ mode \in Busy
    BY <1>1, <1>4, <2>1, Forward
  <2>3. Now' = "discover" /\ mode' # "stopped"
    <3>1. "settle" # EndOf(mode) /\ Then("settle") = "discover" BY DEF EndOf, Then
    <3> QED BY <2>2, <3>1 DEF Advanced, Busy
  <2>4. ~cmd'.waiting /\ held' BY <1>1, <1>4, <2>2
  <2>5. PlaceOK' BY <2>3, <2>4 DEF PlaceOK
  <2> QED BY <1>2, <2>2, <2>5 DEF ClockInv, DataOK
<1> QED BY <1>1, <1>3, <1>4, Zenon

\* The backlog before the mapping is replaced.
LEMMA DrainKeeps ==
    ASSUME ClockInv, Drain
    PROVE  ClockInv'
<1>1. /\ At("drain") /\ (Done \/ Fail(FALSE))
      /\ UNCHANGED <<sess, active, record, box, pending, worker, placed, cmd, resolver, ri, held,
                     stopping>>
  BY Zenon DEF Drain, StepKeeps, diskVars, busVars, coreVars
<1>2. DataOK' BY <1>1, DataStays DEF ClockInv, DataOK
<1>3. CASE Fail(FALSE) BY <1>1, <1>2, <1>3, Retreat, Zenon DEF ClockInv, DataOK
<1>4. CASE Done
  <2>1. resolver' \in 0..MaxRevs BY <1>1 DEF ClockInv, Known
  <2>2. Planned' /\ Known' /\ Advanced("drain") /\ held /\ mode \in Busy /\ Now = "drain"
    BY <1>1, <1>4, <2>1, Forward
  <2>3. Now' = "drained" /\ mode' = mode /\ mode # "stopped"
    <3>1. "drain" # EndOf(mode) /\ Then("drain") = "drained" BY DEF EndOf, Then
    <3> QED BY <2>2, <3>1 DEF Advanced, Busy
  <2>4. /\ box = NoBox /\ (mode \notin {"fail", "shutdown"} => ~cmd.waiting)
    BY <2>2 DEF ClockInv, PlaceOK
  <2>5. NoBox' = NoBox BY DEF NoBox
  <2>6. PlaceOK' BY <1>1, <2>2, <2>3, <2>4, <2>5 DEF PlaceOK
  <2> QED BY <1>2, <2>2, <2>6 DEF ClockInv, DataOK
<1> QED BY <1>1, <1>3, <1>4, Zenon

LEMMA DrainedKeeps ==
    ASSUME ClockInv, Drained
    PROVE  ClockInv'
<1>1. /\ At("drained") /\ ((Done /\ pending = {} /\ worker = {}) \/ Fail(TRUE))
      /\ UNCHANGED <<sess, active, record, box, pending, worker, placed, cmd, resolver, ri, held,
                     stopping>>
  BY Zenon DEF Drained, StepKeeps, diskVars, busVars, BacklogEmpty
<1>2. DataOK' BY <1>1, DataStays DEF ClockInv, DataOK
<1>3. CASE Fail(TRUE) BY <1>1, <1>2, <1>3, Retreat, Zenon DEF ClockInv, DataOK
<1>4. CASE Done /\ pending = {} /\ worker = {}
  <2>1. resolver' \in 0..MaxRevs BY <1>1 DEF ClockInv, Known
  <2>2. Planned' /\ Known' /\ Advanced("drained") /\ held /\ mode \in Busy /\ Now = "drained"
    BY <1>1, <1>4, <2>1, Forward
  <2>3. /\ box = NoBox /\ (mode \notin {"fail", "shutdown"} => ~cmd.waiting)
    BY <2>2 DEF ClockInv, PlaceOK
  <2>4. Then("drained") = "configure" BY DEF Then
  <2>5. \/ Now' = "none"
        \/ Now' = "configure" /\ mode' = mode
        \/ Now' = "configure" /\ mode = "rollback" /\ mode' = "restore"
    BY <2>2, <2>4 DEF Advanced, Busy
  <2>6. Now' = "configure" => ~cmd'.waiting \/ mode' \in {"fail", "shutdown"}
    BY <1>1, <2>3, <2>5
  <2>7. box' = NoBox' /\ pending' = {} /\ worker' = {} /\ held' BY <1>1, <1>4, <2>2, <2>3 DEF NoBox
  <2>8. PlaceOK' BY <2>5, <2>6, <2>7 DEF PlaceOK
  <2> QED BY <1>2, <2>2, <2>8 DEF ClockInv, DataOK
<1> QED BY <1>1, <1>3, <1>4, Zenon

LEMMA PausedKeeps ==
    ASSUME ClockInv, Paused
    PROVE  ClockInv'
<1>1. /\ At("paused") /\ (Done \/ Fail(TRUE))
      /\ UNCHANGED <<sess, active, record, box, pending, worker, placed, cmd, resolver, ri, held,
                     stopping>>
  BY Zenon DEF Paused, StepKeeps, diskVars, busVars
<1>2. DataOK' BY <1>1, DataStays DEF ClockInv, DataOK
<1>3. CASE Fail(TRUE) BY <1>1, <1>2, <1>3, Retreat, Zenon DEF ClockInv, DataOK
<1>4. CASE Done
  <2>1. resolver' \in 0..MaxRevs BY <1>1 DEF ClockInv, Known
  <2>2. Planned' /\ Known' /\ Advanced("paused") /\ held /\ mode \in Busy /\ Now = "paused"
    BY <1>1, <1>4, <2>1, Forward
  <2>3. mode \notin {"fail", "shutdown"} => ~cmd.waiting BY <2>2 DEF ClockInv, PlaceOK
  <2>4. ((Now' = "stop" /\ mode' = mode) \/ Now' = "none") /\ mode' # "stopped"
    <3>1. "paused" # EndOf("shutdown") /\ "paused" # EndOf("rollback") /\ Then("paused") = "stop"
      BY DEF EndOf, Then
    <3> QED BY <2>2, <3>1 DEF Advanced, Busy
  <2>5. held' BY <1>1, <2>2
  <2>6. PlaceOK' BY <1>1, <2>3, <2>4, <2>5 DEF PlaceOK
  <2> QED BY <1>2, <2>2, <2>6 DEF ClockInv, DataOK
<1> QED BY <1>1, <1>3, <1>4, Zenon

\* Admission opens over the configuration that was committed.
LEMMA OpenKeeps ==
    ASSUME ClockInv, Open
    PROVE  ClockInv'
<1>1. /\ At("open") /\ UNCHANGED stopping
      /\ (Done /\ ~stopping) \/ (Fail(FALSE) /\ UNCHANGED held)
      /\ UNCHANGED <<sess, active, record, box, pending, worker, placed, cmd, resolver, ri>>
  BY Zenon DEF Open, StepKeeps, diskVars, busVars
<1>2. DataOK' BY <1>1, DataStays DEF ClockInv, DataOK
<1>3. CASE Fail(FALSE) /\ UNCHANGED held BY <1>1, <1>2, <1>3, Retreat, Zenon DEF ClockInv, DataOK
<1>4. CASE Done /\ ~stopping
  <2>1. resolver' \in 0..MaxRevs BY <1>1 DEF ClockInv, Known
  <2>2. Planned' /\ Known' /\ Advanced("open") /\ mode \in Busy /\ Now = "open"
    BY <1>1, <1>4, <2>1, Forward
  <2>3. OneConfiguration /\ Confirmed(record) /\ active = record
    BY <2>2 DEF ClockInv, PlaceOK
  <2>4. OneConfiguration' /\ Confirmed(record)' /\ active' = record'
    BY <1>1, <2>3, ConfigurationStays
  <2>5. Now' = "none" /\ mode' = "idle"
    <3>1. mode \in {"apply", "restore"} BY <1>1, AtStep DEF ClockInv, Installing
    <3>2. EndOf(mode) = "open" BY <3>1 DEF EndOf
    <3> QED BY <2>2, <3>1, <3>2 DEF Advanced
  <2>6. ~stopping' BY <1>1, <1>4
  <2>7. PlaceOK' BY <2>4, <2>5, <2>6 DEF PlaceOK
  <2> QED BY <1>2, <2>2, <2>7 DEF ClockInv, DataOK
<1> QED BY <1>1, <1>3, <1>4, Zenon

-----------------------------------------------------------------------------
(* What starts and ends the controller's work, and the signals around it.  *)

LEMMA BeginsKeep ==
    ASSUME ClockInv, FirstHold \/ Sync \/ Shutdown
    PROVE  ClockInv'
<1>1. /\ UNCHANGED <<sess, active, record, box, pending, worker, placed, cmd, resolver, ri, held,
                     stopping, good>>
      /\ mode = "idle" /\ mode' \in {"first", "apply", "shutdown"}
      /\ desired' \in {desired, ri} /\ applied' \in {applied, 0}
      /\ mode' = "apply" => desired' = ri
  BY DEF FirstHold, Sync, Shutdown, diskVars, busVars, coreVars
<1>2. DataOK' BY <1>1, DataStays DEF ClockInv, DataOK
<1>3. Plan(mode', todo') /\ Head(todo') = "hold"
  BY Plans, Zenon DEF FirstHold, Sync, Shutdown, ShutdownSteps
<1>4. Planned' /\ Now' = "hold"
  <2>1. todo' # << >> BY <1>3 DEF Plan
  <2>2. Planned' BY <1>1, <1>3, PlanIsConstant DEF Planned, Busy
  <2> QED BY <1>3, <2>1, <2>2 DEF Now
<1>5. Known' BY <1>1, ClockBoundsAssumption DEF ClockInv, Known, Revisions
<1>6. Now = "none" BY <1>1 DEF ClockInv, Planned, Busy, Now
<1>7. PlaceOK'
  <2>1. (OneConfiguration' <=> OneConfiguration) /\ (Confirmed(record)' <=> Confirmed(record))
    BY <1>1, ConfigurationStays
  <2> QED BY <1>1, <1>4, <2>1 DEF ClockInv, PlaceOK
<1> QED BY <1>2, <1>4, <1>5, <1>7, Zenon DEF ClockInv, DataOK

LEMMA LeaseKeeps ==
    ASSUME ClockInv, LeaseExpires
    PROVE  ClockInv'
<1>1. /\ UNCHANGED <<sess, active, record, box, pending, worker, placed, cmd, resolver, ri, held,
                     stopping, good, desired, applied>>
      /\ stopping /\ mode' = "exited" /\ todo' = << >>
  BY DEF LeaseExpires, diskVars, busVars, coreVars
<1>2. DataOK' BY <1>1, DataStays DEF ClockInv, DataOK
<1>3. Planned' /\ Now' = "none" BY <1>1 DEF Planned, Resting, Now
<1>4. Known' BY <1>1 DEF ClockInv, Known
<1>5. held' BY <1>1 DEF ClockInv, PlaceOK
<1>6. PlaceOK' BY <1>1, <1>3, <1>5 DEF PlaceOK
<1> QED BY <1>2, <1>3, <1>4, <1>6 DEF ClockInv, DataOK

LEMMA SignalsKeep ==
    ASSUME ClockInv, Publish \/ RequestStop
    PROVE  ClockInv'
<1>1. /\ UNCHANGED <<sess, active, record, box, pending, worker, placed, cmd, resolver, good,
                     desired, applied, mode, todo>>
      /\ held' = held \/ held' = TRUE
      /\ stopping' => held' \/ stopping
      /\ ri' = ri \/ (ri < MaxRevs /\ ri' = ri + 1)
  BY DEF Publish, RequestStop, diskVars, busVars, coreVars, ctlVars
<1>2. DataOK' BY <1>1, DataStays DEF ClockInv, DataOK
<1>3. Planned' /\ Now' = Now
  BY <1>1, PlanIsConstant DEF ClockInv, Planned, Now
<1>4. ri' \in Revisions
  <2>1. ri \in 1..MaxRevs BY DEF ClockInv, Known, Revisions
  <2> QED BY <1>1, <2>1, ClockBoundsAssumption DEF Revisions
<1>5. Known' BY <1>1, <1>4, Zenon DEF ClockInv, Known
<1>6. PlaceOK'
  <2>1. (OneConfiguration' <=> OneConfiguration) /\ (Confirmed(record)' <=> Confirmed(record))
    BY <1>1, ConfigurationStays
  <2>2. NoBox' = NoBox BY DEF NoBox
  <2> QED BY <1>1, <1>3, <2>1, <2>2 DEF ClockInv, PlaceOK
<1> QED BY <1>2, <1>3, <1>5, <1>6 DEF ClockInv, DataOK

-----------------------------------------------------------------------------
(* The container goes down, or pauses.                                     *)

Halted == [box EXCEPT !.up = FALSE, !.active = FALSE, !.lock = "free"]
Idled == [box EXCEPT !.active = FALSE]

LEMMA BoxIs ==
    ASSUME BoxOK
    PROVE  /\ box = [session |-> box.session, up |-> box.up, active |-> box.active,
                     lock |-> box.lock, owned |-> box.owned]
           /\ box.session \in 0..Len(sess) /\ box.up \in BOOLEAN /\ box.active \in BOOLEAN
           /\ box.lock \in {"free", "poll", "write"} /\ box.owned \in BOOLEAN
BY DEF BoxOK

LEMMA BoxNames ==
    /\ NoBox.session = 0 /\ ~NoBox.up /\ ~NoBox.active /\ NoBox.lock = "free" /\ NoBox.owned
    /\ Stranger = [session |-> 0, up |-> TRUE, active |-> FALSE, lock |-> "free", owned |-> FALSE]
    /\ NoBox' = NoBox /\ Stranger' = Stranger
<1>1. /\ NoBox.session = 0 /\ NoBox.up = FALSE /\ NoBox.active = FALSE /\ NoBox.lock = "free"
      /\ NoBox.owned = TRUE
  BY DEF NoBox
<1>2. Stranger = [session |-> 0, up |-> TRUE, active |-> FALSE, lock |-> "free", owned |-> FALSE]
  <2>1. PICK c : c = Stranger OBVIOUS
  <2>2. PICK b : b = NoBox OBVIOUS
  <2>3. c = [b EXCEPT !.up = TRUE, !.owned = FALSE] BY <2>1, <2>2 DEF Stranger
  <2>4. b = [session |-> 0, up |-> FALSE, active |-> FALSE, lock |-> "free", owned |-> TRUE]
    BY <2>2 DEF NoBox
  <2> QED BY <2>1, <2>3, <2>4, Zenon
<1>3. NoBox' = NoBox BY DEF NoBox
<1>4. Stranger' = Stranger BY <1>3 DEF Stranger
<1> QED BY <1>1, <1>2, <1>3, <1>4

\* A container of ours that goes down, is removed or pauses.
LEMMA LowerBox ==
    ASSUME DataOK, box.owned, box' \in {box, NoBox, Halted, Idled},
           UNCHANGED <<sess, active, record, pending, worker, placed, cmd, resolver>>
    PROVE  /\ DataOK'
           /\ box = NoBox => box' = NoBox
           /\ box' = NoBox \/ box'.session = box.session
<1>1. /\ box = [session |-> box.session, up |-> box.up, active |-> box.active,
                lock |-> box.lock, owned |-> box.owned]
      /\ box.session \in 0..Len(sess) /\ box.up \in BOOLEAN /\ box.active \in BOOLEAN
      /\ box.lock \in {"free", "poll", "write"}
  BY BoxIs, Zenon DEF DataOK
<1>2. box.session = 0 => box = NoBox
  BY BoxNames DEF DataOK, BoxOK
<1>3. ASSUME box = NoBox PROVE box' = NoBox
  <2>1. PICK h : h = Halted OBVIOUS
  <2>2. PICK i : i = Idled OBVIOUS
  <2>3. h = NoBox BY <1>3, <2>1, Zenon DEF Halted, NoBox
  <2>4. i = NoBox BY <1>3, <2>2, Zenon DEF Idled, NoBox
  <2> QED BY <1>3, <2>1, <2>2, <2>3, <2>4
<1>4. /\ box' = [session |-> box'.session, up |-> box'.up, active |-> box'.active,
                 lock |-> box'.lock, owned |-> box'.owned]
      /\ box'.session \in {0, box.session} /\ (box'.session # box.session => box' = NoBox)
      /\ box'.owned = TRUE
      /\ box'.up \in {box.up, FALSE} /\ box'.active \in {box.active, FALSE}
      /\ box'.lock \in {box.lock, "free"}
  <2>1. CASE box' = box BY <1>1, <2>1
  <2>2. CASE box' = NoBox BY <2>2 DEF NoBox
  <2>3. CASE box' = Halted BY <1>1, <2>3, Zenon DEF Halted
  <2>4. CASE box' = Idled BY <1>1, <2>4, Zenon DEF Idled
  <2> QED BY <2>1, <2>2, <2>3, <2>4, Zenon
<1>5. BoxOK'
  <2>1. FALSE \in BOOLEAN /\ TRUE \in BOOLEAN OBVIOUS
  <2>2. 0 \in 0..Len(sess) BY <1>1 DEF DataOK, Journal
  <2>3. box' \in [session : 0..Len(sess), up : BOOLEAN, active : BOOLEAN,
                  lock : {"free", "poll", "write"}, owned : BOOLEAN]
    <3>1. box'.up \in BOOLEAN /\ box'.active \in BOOLEAN /\ box'.owned \in BOOLEAN
      BY <1>1, <1>4, <2>1, Zenon
    <3>2. box'.session \in 0..Len(sess) /\ box'.lock \in {"free", "poll", "write"}
      BY <1>1, <1>4, <2>2
    <3> QED BY <1>4, <3>1, <3>2
  <2>4. box'.session = 0 => box' = NoBox BY <1>2, <1>3, <1>4
  <2>5. box'.active \/ box'.lock # "free" => box'.up /\ Confirmed(box'.session)
    <3>1. CASE box' = box BY <3>1 DEF DataOK, BoxOK
    <3>2. CASE box' \in {NoBox, Halted} BY <1>1, <3>2, BoxNames, Zenon DEF Halted
    <3>3. CASE box' = Idled BY <1>1, <3>3 DEF Idled, DataOK, BoxOK
    <3> QED BY <3>1, <3>2, <3>3
  <2>6. Confirmed(box'.session) => Confirmed(box.session)' BY DEF Confirmed
  <2> QED BY <1>4, <2>3, <2>4, <2>5, <2>6, BoxNames DEF BoxOK
<1>6. Journal' BY Zenon DEF DataOK, Journal, JournalSound
<1>7. StreamOK' BY DEF DataOK, StreamOK, Confirmed, RevOf
<1>8. CmdOK'
  <2>1. \A s : RevOf(s)' = RevOf(s) BY DEF RevOf
  <2>2. ASSUME cmd.waiting, box'.up PROVE RevOf(box'.session) = resolver
    <3>1. box.up BY <1>4, <2>2, Zenon
    <3>2. box'.session = box.session BY <1>4, <2>2, BoxNames
    <3> QED BY <2>2, <3>1, <3>2 DEF DataOK, CmdOK
  <2>3. cmd'.waiting /\ box'.up => RevOf(box.session)' = resolver'
    BY <2>2 DEF RevOf
  <2> QED BY <2>1, <2>3 DEF DataOK, CmdOK
<1> QED BY <1>3, <1>4, <1>5, <1>6, <1>7, <1>8 DEF DataOK

\* A container that is up takes or lets go of its lock, or polls again.
LEMMA SetBox ==
    ASSUME BoxOK, UNCHANGED sess, box.up, box.session # 0,
           NEW a \in BOOLEAN, NEW l \in {"free", "poll", "write"},
           a \/ l # "free" => Confirmed(box.session),
           box' = [session |-> box.session, up |-> box.up, active |-> a, lock |-> l,
                   owned |-> box.owned]
    PROVE  /\ BoxOK' /\ box.owned /\ box # NoBox /\ box' # NoBox
           /\ box'.session = box.session /\ box'.up = box.up /\ box'.owned = box.owned
<1>1. /\ box.session \in 0..Len(sess) /\ box.up \in BOOLEAN /\ box.owned \in BOOLEAN
  BY BoxIs, Zenon
<1>2. box.owned BY BoxNames DEF BoxOK
<1>3. /\ box'.session = box.session /\ box'.up = box.up /\ box'.owned = box.owned
      /\ box'.active = a /\ box'.lock = l
  OBVIOUS
<1>4. box' \in [session : 0..Len(sess), up : BOOLEAN, active : BOOLEAN,
                lock : {"free", "poll", "write"}, owned : BOOLEAN]
  BY <1>1
<1>5. box'.owned /\ box'.session # 0 /\ box'.up BY <1>2, <1>3
<1>6. box'.active \/ box'.lock # "free" => Confirmed(box.session) BY <1>3
<1>7. Confirmed(box.session) => Confirmed(box.session)' BY <1>3, Zenon DEF Confirmed
<1>8. BoxOK' BY <1>4, <1>5, <1>6, <1>7, Zenon DEF BoxOK
<1>9. box # NoBox /\ box' # NoBox BY <1>3, BoxNames, Zenon
<1> QED BY <1>2, <1>3, <1>8, <1>9

\* Nothing but the container's lock, the stream and the command change: what the
\* controller's place says stays.
LEMMA PlaceStays ==
    ASSUME PlaceOK, UNCHANGED <<mode, todo, held, stopping, sess, active, record, resolver>>,
           box = NoBox => box' = NoBox,
           box' = NoBox \/ box'.session = box.session,
           cmd'.waiting => cmd.waiting \/ ~held,
           cmd'.to \in {cmd.to, 0} \/ box # NoBox,
           box = NoBox /\ pending = {} => pending' = {},
           box = NoBox /\ pending = {} /\ worker = {} => worker' = {}
    PROVE  PlaceOK'
<1>1. Now' = Now BY DEF Now
<1>2. NoBox' = NoBox BY BoxNames, Zenon
<1>3. OneConfiguration => OneConfiguration' BY <1>2, BoxNames DEF OneConfiguration, RevOf
<1>4. Confirmed(record) => Confirmed(record)' BY DEF Confirmed
<1>5. Now = "start" => cmd'.to # record
  <2>1. Now = "start" => box = NoBox /\ cmd.to # record /\ record # 0
    BY DEF PlaceOK, OneConfiguration
  <2> QED BY <2>1
<1>6. Now \in {"none", "hold"} \/ held BY DEF PlaceOK
<1>7. Now = "configure" => pending' = {} /\ worker' = {} BY DEF PlaceOK
<1>8. mode = "stopped" => box' = NoBox /\ pending' = {} BY DEF PlaceOK
<1>9. Now \notin {"none", "hold", "settle"} /\ mode \notin {"fail", "shutdown"} => ~cmd'.waiting
  BY <1>6 DEF PlaceOK
<1> QED BY <1>1, <1>2, <1>3, <1>4, <1>5, <1>7, <1>8, <1>9 DEF PlaceOK

LEMMA RestStays ==
    ASSUME Planned, Known, UNCHANGED <<ri, desired, applied, good, resolver, mode, todo>>
    PROVE  Planned' /\ Known'
BY PlanIsConstant DEF Planned, Known

LEMMA CmdStays ==
    ASSUME CmdOK, UNCHANGED <<sess, cmd, resolver>>, box'.session = box.session,
           box'.up = box.up, box'.owned = box.owned
    PROVE  CmdOK'
BY DEF CmdOK, RevOf

LEMMA ProducerKeeps ==
    ASSUME ClockInv, ProducerNext
    PROVE  ClockInv'
<1>1. /\ box = [session |-> box.session, up |-> box.up, active |-> box.active,
                lock |-> box.lock, owned |-> box.owned]
      /\ box.up \in BOOLEAN /\ box.active \in BOOLEAN
      /\ box.lock \in {"free", "poll", "write"}
  BY BoxIs DEF ClockInv
<1>2. box.active \/ box.lock # "free" => box.up /\ Confirmed(box.session) /\ box.session # 0
  BY DEF ClockInv, BoxOK, Confirmed
<1>3. UNCHANGED <<mode, todo, held, stopping, sess, active, record, resolver, cmd, ri, desired,
                  applied, good, worker, placed>>
  BY DEF ProducerNext, PollBegins, PollPublishes, BoxExits, diskVars, busVars, ctlVars, coreVars
<1>4. Planned' /\ Known' BY <1>3, RestStays DEF ClockInv
<1>5. Journal' BY <1>3 DEF ClockInv, Journal, JournalSound
<1>6. CASE BoxExits
  <2>1. box.owned /\ box' = Halted /\ UNCHANGED pending
    BY <1>6, Zenon DEF BoxExits, Halted, busVars
  <2>2. DataOK' /\ (box = NoBox => box' = NoBox) /\ (box' = NoBox \/ box'.session = box.session)
    BY <1>3, <2>1, LowerBox, Zenon DEF ClockInv, DataOK
  <2>3. PlaceOK' BY <1>3, <2>1, <2>2, PlaceStays DEF ClockInv
  <2> QED BY <1>4, <2>2, <2>3 DEF ClockInv, DataOK
<1>7. CASE PollBegins
  <2>1. box.active /\ box' = [box EXCEPT !.lock = "poll"] /\ UNCHANGED pending
    BY <1>7 DEF PollBegins, busVars
  <2>2. box' = [session |-> box.session, up |-> box.up, active |-> box.active, lock |-> "poll",
                owned |-> box.owned]
    BY <1>1, <2>1, Zenon
  <2>3. /\ BoxOK' /\ box # NoBox /\ box'.session = box.session /\ box'.up = box.up
        /\ box'.owned = box.owned
    BY <1>1, <1>2, <1>3, <2>1, <2>2, SetBox, Zenon DEF ClockInv
  <2>4. CmdOK' BY <1>3, <2>3, CmdStays DEF ClockInv
  <2>5. StreamOK' BY <1>3, <2>1 DEF ClockInv, StreamOK, Confirmed, RevOf
  <2>6. PlaceOK' BY <1>3, <2>1, <2>3, PlaceStays DEF ClockInv
  <2> QED BY <1>4, <1>5, <2>3, <2>4, <2>5, <2>6 DEF ClockInv
<1>8. CASE PollPublishes
  <2>1. /\ box.lock = "poll" /\ box' = [box EXCEPT !.lock = "free"]
        /\ pending' = pending \cup {[n |-> events', session |-> box.session]}
    BY <1>8 DEF PollPublishes
  <2>2. box' = [session |-> box.session, up |-> box.up, active |-> box.active, lock |-> "free",
                owned |-> box.owned]
    BY <1>1, <2>1
  <2>3. /\ BoxOK' /\ box # NoBox /\ box'.session = box.session /\ box'.up = box.up
        /\ box'.owned = box.owned
    BY <1>1, <1>2, <1>3, <2>1, <2>2, SetBox, Zenon DEF ClockInv
  <2>4. CmdOK' BY <1>3, <2>3, CmdStays DEF ClockInv
  <2>5. StreamOK'
    <3>1. \A e \in pending' : Confirmed(e.session)
      <4>1. Confirmed(box.session) BY <1>2, <2>1
      <4>2. \A e \in pending : Confirmed(e.session) BY DEF ClockInv, StreamOK
      <4> QED BY <2>1, <4>1, <4>2
    <3>2. \A e : Confirmed(e.session)' <=> Confirmed(e.session) BY <1>3 DEF Confirmed
    <3>3. worker' = {} \/ \E e \in pending' : worker' = {e}
      BY <1>3, <2>1 DEF ClockInv, StreamOK
    <3>4. RevOf(placed.session)' = RevOf(placed.session) BY <1>3 DEF RevOf
    <3>5. \A e \in pending' : Confirmed(e.session)' BY <3>1, <3>2, Zenon
    <3> QED BY <1>3, <3>3, <3>4, <3>5 DEF ClockInv, StreamOK
  <2>6. PlaceOK' BY <1>3, <2>3, PlaceStays DEF ClockInv
  <2> QED BY <1>4, <1>5, <2>3, <2>4, <2>5, <2>6 DEF ClockInv
<1> QED BY <1>6, <1>7, <1>8 DEF ProducerNext

\* The mapping of an event is that of its session, which has a receipt.
LEMMA WorkerKeeps ==
    ASSUME ClockInv, WorkerNext
    PROVE  ClockInv'
<1>1. /\ UNCHANGED <<mode, todo, held, stopping, sess, active, record, resolver, cmd, ri, desired,
                     applied, good, box>>
      /\ pending' \subseteq pending
  BY DEF WorkerNext, WorkerTakes, WorkerDone, diskVars, busVars, ctlVars, coreVars
<1>2. Planned' /\ Known' BY <1>1, RestStays DEF ClockInv
<1>3. Journal' BY <1>1 DEF ClockInv, Journal, JournalSound
<1>4. BoxOK' BY <1>1, Zenon DEF ClockInv, BoxOK, Confirmed
<1>5. CmdOK' BY <1>1 DEF ClockInv, CmdOK, RevOf
<1>6. \A e \in pending' : Confirmed(e.session)'
  <2>1. \A e \in pending' : Confirmed(e.session) BY <1>1 DEF ClockInv, StreamOK
  <2>2. \A e : Confirmed(e.session)' <=> Confirmed(e.session) BY <1>1 DEF Confirmed
  <2> QED BY <2>1, <2>2
<1>7. CASE WorkerTakes
  <2>1. (\E e \in pending : worker' = {e}) /\ UNCHANGED <<pending, placed>>
    BY <1>7, Zenon DEF WorkerTakes
  <2>2. StreamOK' BY <1>1, <1>6, <2>1 DEF ClockInv, StreamOK, RevOf
  <2>3. pending # {} BY <2>1
  <2>4. PlaceOK' BY <1>1, <2>1, <2>3, PlaceStays DEF ClockInv
  <2> QED BY <1>2, <1>3, <1>4, <1>5, <2>2, <2>4 DEF ClockInv
<1>8. CASE WorkerDone
  <2>1. PICK e \in worker :
          placed' = IF sess[e.session].verified
                    THEN [to |-> "buffer", session |-> e.session, rev |-> Mapping(e)]
                    ELSE [to |-> "quarantine", session |-> e.session, rev |-> 0]
    BY <1>8, Zenon DEF WorkerDone
  <2>2. worker' = {} BY <1>8, Zenon DEF WorkerDone
  <2>3. Confirmed(e.session) BY <2>1, Zenon DEF ClockInv, StreamOK
  <2>4. placed' = [to |-> "buffer", session |-> e.session, rev |-> RevOf(e.session)]
    BY <2>1, <2>3 DEF Confirmed, Mapping
  <2>5. /\ placed'.to = "buffer" /\ placed'.session = e.session
        /\ placed'.rev = RevOf(e.session)
    BY <2>4, Zenon
  <2>6. RevOf(placed.session)' = RevOf(e.session) BY <1>1, <2>5 DEF RevOf
  <2>7. e.session \in 0..Len(sess) BY <2>3 DEF Confirmed
  <2>8. StreamOK' BY <1>1, <1>6, <2>2, <2>5, <2>6, <2>7, Zenon DEF StreamOK
  <2>9. PlaceOK' BY <1>1, <2>2, PlaceStays, Zenon DEF ClockInv
  <2> QED BY <1>2, <1>3, <1>4, <1>5, <2>8, <2>9 DEF ClockInv
<1> QED BY <1>7, <1>8, Zenon DEF WorkerNext

-----------------------------------------------------------------------------
(* Commands.                                                               *)

LEMMA CmdIs ==
    ASSUME CmdOK
    PROVE  /\ cmd = [at |-> cmd.at, rev |-> cmd.rev, to |-> cmd.to, waiting |-> cmd.waiting]
           /\ cmd.at \in {"none", "core", "found", "wire", "writing", "replied"}
           /\ cmd.rev \in 0..MaxRevs /\ cmd.to \in 0..Len(sess) /\ cmd.waiting \in BOOLEAN
BY Zenon DEF CmdOK

\* A command that stands well, with its container as it is.
LEMMA SetCmd ==
    ASSUME DataOK, UNCHANGED <<sess, resolver>>,
           box'.session = box.session, box'.up = box.up, box'.owned = box.owned,
           NEW at \in {"none", "core", "found", "wire", "writing", "replied"},
           NEW rev \in 0..MaxRevs, NEW to \in 0..Len(sess), NEW waiting \in BOOLEAN,
           cmd' = [at |-> at, rev |-> rev, to |-> to, waiting |-> waiting],
           at \in {"core", "found"} => waiting,
           waiting /\ box.up /\ box.owned => RevOf(box.session) = resolver,
           at = "found" => rev = resolver,
           at \in {"wire", "writing"} => to # 0 /\ rev = RevOf(to)
    PROVE  CmdOK' /\ cmd'.waiting = waiting /\ cmd'.to = to
<1>1. cmd'.at = at /\ cmd'.rev = rev /\ cmd'.to = to /\ cmd'.waiting = waiting BY SMTT(20), Zenon
<1>2. RevOf(box.session)' = RevOf(box.session) /\ RevOf(cmd.to)' = RevOf(to)
  BY <1>1, Zenon DEF RevOf
<1>3. cmd' \in [at : {"none", "core", "found", "wire", "writing", "replied"}, rev : 0..MaxRevs,
                to : 0..Len(sess), waiting : BOOLEAN]
  OBVIOUS
<1> QED BY <1>1, <1>2, <1>3, Zenon DEF CmdOK

\* What the gate lets in finds the one configuration.
LEMMA OpenGate ==
    ASSUME ClockInv, ~held, box.up, box.owned
    PROVE  RevOf(box.session) = resolver
<1>1. OneConfiguration BY DEF ClockInv, PlaceOK
<1> QED BY <1>1, BoxNames DEF OneConfiguration

LEMMA CommandKeeps ==
    ASSUME ClockInv, CommandNext
    PROVE  ClockInv'
<1>1. UNCHANGED <<mode, todo, held, stopping, sess, active, record, resolver, ri, desired,
                  applied, good, pending, worker, placed>>
  BY DEF CommandNext, Enter, Lookup, Send, Deliver, WriteDone, CmdTimeout, CmdEnds, CmdStep,
         diskVars, busVars, ctlVars, coreVars
<1>2. Planned' /\ Known' BY <1>1, RestStays, Zenon DEF ClockInv
<1>3. Journal' BY <1>1 DEF ClockInv, Journal, JournalSound
<1>4. StreamOK' BY <1>1 DEF ClockInv, StreamOK, Confirmed, RevOf
<1>5. /\ cmd = [at |-> cmd.at, rev |-> cmd.rev, to |-> cmd.to, waiting |-> cmd.waiting]
      /\ cmd.at \in {"none", "core", "found", "wire", "writing", "replied"}
      /\ cmd.rev \in 0..MaxRevs /\ cmd.to \in 0..Len(sess) /\ cmd.waiting \in BOOLEAN
  BY CmdIs DEF ClockInv
<1>6. /\ cmd.at \in {"core", "found"} => cmd.waiting
      /\ cmd.waiting /\ box.up /\ box.owned => RevOf(box.session) = resolver
      /\ cmd.at = "found" => cmd.rev = resolver
      /\ cmd.at \in {"wire", "writing"} => cmd.to # 0 /\ cmd.rev = RevOf(cmd.to)
  BY DEF ClockInv, CmdOK
<1>7. DataOK /\ resolver \in 0..MaxRevs BY DEF ClockInv, DataOK, Known
<1>8. 0 \in 0..Len(sess) /\ 0 \in 0..MaxRevs /\ TRUE \in BOOLEAN /\ FALSE \in BOOLEAN
  BY ClockBoundsAssumption DEF ClockInv, Journal
<1>9. ASSUME UNCHANGED box, CmdOK', cmd'.waiting => cmd.waiting \/ ~held,
             cmd'.to \in {cmd.to, 0} \/ box # NoBox
      PROVE  ClockInv'
  <2>1. BoxOK' BY <1>1, <1>9, Zenon DEF ClockInv, BoxOK, Confirmed
  <2>2. PlaceOK' BY <1>1, <1>9, PlaceStays DEF ClockInv
  <2> QED BY <1>2, <1>3, <1>4, <1>9, <2>1, <2>2, Zenon DEF ClockInv
<1>10. CASE Enter
  <2>1. UNCHANGED box /\ ~held /\ cmd' = [NoCmd EXCEPT !.at = "core", !.waiting = TRUE]
    BY <1>10 DEF Enter
  <2>2. NoCmd = [at |-> "none", rev |-> 0, to |-> 0, waiting |-> FALSE] BY DEF NoCmd
  <2>3. cmd' = [at |-> "core", rev |-> 0, to |-> 0, waiting |-> TRUE] BY <2>1, <2>2, Zenon
  <2>4. box.up /\ box.owned => RevOf(box.session) = resolver BY <2>1, OpenGate
  <2>5. CmdOK' /\ cmd'.to = 0 BY <1>1, <1>7, <1>8, <2>1, <2>3, <2>4, SetCmd, Zenon
  <2> QED BY <1>9, <2>1, <2>5
<1>11. CASE Lookup
  <2>1. /\ UNCHANGED box /\ cmd.at = "core"
        /\ cmd' = [cmd EXCEPT !.at = IF resolver # 0 THEN "found" ELSE "replied", !.rev = resolver]
    BY <1>11 DEF Lookup
  <2>2. PICK x \in {"found", "replied"} : x = IF resolver # 0 THEN "found" ELSE "replied" OBVIOUS
  <2>3. cmd' = [at |-> x, rev |-> resolver, to |-> cmd.to, waiting |-> cmd.waiting]
    BY <1>5, <2>1, <2>2, Zenon
  <2>4. CmdOK' /\ cmd'.to = cmd.to /\ cmd'.waiting = cmd.waiting
    BY <1>1, <1>5, <1>6, <1>7, <2>1, <2>2, <2>3, SetCmd, ZenonT(30)
  <2> QED BY <1>9, <2>1, <2>4
<1>12. CASE Send
  <2>1. UNCHANGED box /\ cmd.at = "found" BY <1>12 DEF Send
  <2>2. CASE box.up /\ box.owned
    <3>1. cmd' = [cmd EXCEPT !.at = "wire", !.to = box.session] BY <1>12, <2>2 DEF Send
    <3>2. cmd' = [at |-> "wire", rev |-> cmd.rev, to |-> box.session, waiting |-> cmd.waiting]
      BY <1>5, <3>1, Zenon
    <3>3. box.session # 0 /\ box # NoBox BY <2>2, BoxNames DEF ClockInv, BoxOK
    <3>4. box.session \in 0..Len(sess) BY BoxIs, Zenon DEF ClockInv
    <3>5. CmdOK' /\ cmd'.waiting = cmd.waiting
      BY <1>1, <1>5, <1>6, <1>7, <2>1, <2>2, <3>2, <3>3, <3>4, SetCmd, Zenon
    <3> QED BY <1>9, <2>1, <3>3, <3>5
  <2>3. CASE ~(box.up /\ box.owned)
    <3>1. cmd' = [cmd EXCEPT !.at = "replied"] BY <1>12, <2>3 DEF Send
    <3>2. cmd' = [at |-> "replied", rev |-> cmd.rev, to |-> cmd.to, waiting |-> cmd.waiting]
      BY <1>5, <3>1, Zenon
    <3>3. CmdOK' /\ cmd'.waiting = cmd.waiting /\ cmd'.to = cmd.to
      BY <1>1, <1>5, <1>6, <1>7, <2>1, <3>2, SetCmd
    <3> QED BY <1>9, <2>1, <3>3
  <2> QED BY <2>2, <2>3
<1>13. CASE CmdTimeout
  <2>1. UNCHANGED box /\ cmd.at \in {"wire", "writing"} /\ cmd' = [cmd EXCEPT !.waiting = FALSE]
    BY <1>13 DEF CmdTimeout
  <2>2. cmd' = [at |-> cmd.at, rev |-> cmd.rev, to |-> cmd.to, waiting |-> FALSE]
    BY <1>5, <2>1, Zenon
  <2>3. CmdOK' /\ cmd'.waiting = FALSE /\ cmd'.to = cmd.to
    BY <1>1, <1>5, <1>6, <1>7, <1>8, <2>1, <2>2, SetCmd, ZenonT(30)
  <2> QED BY <1>9, <2>1, <2>3
<1>14. CASE CmdEnds
  <2>1. UNCHANGED box /\ cmd' = [at |-> "none", rev |-> 0, to |-> 0, waiting |-> FALSE]
    BY <1>14, SMTT(20), Zenon DEF CmdEnds, NoCmd
  <2>2. CmdOK' /\ cmd'.waiting = FALSE /\ cmd'.to = 0 BY <1>1, <1>7, <1>8, <2>1, SetCmd, Zenon
  <2> QED BY <1>9, <2>1, <2>2, SMTT(20), Zenon
<1>15. CASE Deliver \/ WriteDone
  <2>1. /\ cmd.at \in {"wire", "writing"} /\ box.up /\ box.session = cmd.to
        /\ cmd' = [cmd EXCEPT !.at = "replied"] \/ cmd' = [cmd EXCEPT !.at = "writing"]
        /\ \/ box' = [box EXCEPT !.lock = "free"]
           \/ box' = [box EXCEPT !.lock = "write"] /\ box.active
    <3>1. CASE Deliver /\ box.active BY <3>1 DEF Deliver
    <3>2. CASE Deliver /\ ~box.active BY <3>2 DEF Deliver
    <3>3. CASE WriteDone BY <3>3 DEF WriteDone
    <3> QED BY <1>15, <3>1, <3>2, <3>3
  <2>2. cmd.to # 0 /\ cmd.rev = RevOf(cmd.to) /\ box.session # 0 BY <1>6, <2>1, Zenon
  <2>3. /\ box = [session |-> box.session, up |-> box.up, active |-> box.active,
                  lock |-> box.lock, owned |-> box.owned]
        /\ box.active \in BOOLEAN
    BY BoxIs DEF ClockInv
  <2>4. box.active => Confirmed(box.session) BY DEF ClockInv, BoxOK
  <2>5. PICK l \in {"free", "write"} : box' = [box EXCEPT !.lock = l] /\ (l = "write" => box.active)
    BY <2>1
  <2>6. box' = [session |-> box.session, up |-> box.up, active |-> box.active, lock |-> l,
                owned |-> box.owned]
    BY <2>3, <2>5
  <2>7. /\ BoxOK' /\ box # NoBox /\ box'.session = box.session /\ box'.up = box.up
        /\ box'.owned = box.owned
    BY <1>1, <2>1, <2>2, <2>3, <2>4, <2>5, <2>6, SetBox, Zenon DEF ClockInv
  <2>8. PICK x \in {"replied", "writing"} : cmd' = [cmd EXCEPT !.at = x] BY <2>1
  <2>9. cmd' = [at |-> x, rev |-> cmd.rev, to |-> cmd.to, waiting |-> cmd.waiting]
    BY <1>5, <2>8
  <2>10. CmdOK' /\ cmd'.waiting = cmd.waiting /\ cmd'.to = cmd.to
    BY <1>1, <1>5, <1>6, <1>7, <2>2, <2>7, <2>8, <2>9, SetCmd, Zenon
  <2>11. PlaceOK' BY <1>1, <2>7, <2>10, PlaceStays DEF ClockInv
  <2> QED BY <1>2, <1>3, <1>4, <2>7, <2>10, <2>11 DEF ClockInv
<1> QED BY <1>10, <1>11, <1>12, <1>13, <1>14, <1>15 DEF CommandNext

-----------------------------------------------------------------------------
(* Steps that stop, pause and resume the producer.                         *)

LEMMA BoxDown ==
    ASSUME DataOK,
           UNCHANGED <<sess, active, record, pending, worker, placed, cmd, resolver>>,
           box' = box \/ (box.owned /\ box' \in {NoBox, Halted, Idled})
    PROVE  DataOK'
<1>1. CASE box' = box BY <1>1, DataStays, Zenon
<1>2. CASE box.owned /\ box' \in {NoBox, Halted, Idled}
  <2>1. box' \in {box, NoBox, Halted, Idled} BY <1>2
  <2> QED BY <1>2, <2>1, LowerBox
<1> QED BY <1>1, <1>2, Zenon

LEMMA StopEnds ==
    ASSUME StopOk \/ StopFails
    PROVE  \/ Done /\ box.owned /\ box' = NoBox
           \/ (\E t : Fail(t)) /\ (box' = box \/ (box.owned /\ box' = Halted))
<1>1. CASE StopOk BY <1>1 DEF StopOk, Ours
<1>2. CASE StopFails
  <2>1. CASE Fail(NoTime) /\ UNCHANGED box BY <2>1
  <2>2. CASE /\ Ours /\ \E late \in BOOLEAN : Fail(late)
             /\ box' \in {box, [box EXCEPT !.up = FALSE, !.active = FALSE, !.lock = "free"]}
    BY <2>2 DEF Ours, Halted
  <2> QED BY <1>2, <2>1, <2>2 DEF StopFails
<1> QED BY <1>1, <1>2

LEMMA DiscoverKeeps ==
    ASSUME ClockInv, Discover
    PROVE  ClockInv'
<1>1. /\ At("discover")
      /\ UNCHANGED <<sess, active, record, pending, worker, placed, cmd, resolver, ri, held, stopping>>
  BY DEF Discover, StepKeeps, diskVars, busVars
<1>2. \/ Done /\ (box' = box \/ (box.owned /\ box' = NoBox))
      \/ (\E t : Fail(t)) /\ (box' = box \/ (box.owned /\ box' = Halted))
  BY StopEnds, Zenon DEF Discover
<1>3. DataOK' BY <1>1, <1>2, BoxDown, Zenon DEF ClockInv, DataOK
<1>4. CASE \E t : Fail(t)
  <2>1. PICK t : Fail(t) BY <1>4
  <2> QED BY <1>1, <1>3, <2>1, Retreat DEF ClockInv, DataOK
<1>5. CASE Done
  <2>1. resolver' \in 0..MaxRevs BY <1>1 DEF ClockInv, Known
  <2>2. Planned' /\ Known' /\ Advanced("discover") /\ held /\ mode \in Busy /\ Now = "discover"
    BY <1>1, <1>5, <2>1, Forward
  <2>3. mode \notin {"fail", "shutdown"} => ~cmd.waiting BY <2>2 DEF ClockInv, PlaceOK
  <2>4. Now' = "quiesce" /\ mode' = mode /\ mode # "stopped"
    <3>1. "discover" # EndOf(mode) /\ Then("discover") = "quiesce" BY Zenon DEF EndOf, Then
    <3> QED BY <2>2, <3>1 DEF Advanced, Busy
  <2>5. PlaceOK' BY <1>1, <2>2, <2>3, <2>4 DEF PlaceOK
  <2> QED BY <1>3, <2>2, <2>5 DEF ClockInv, DataOK
<1> QED BY <1>2, <1>4, <1>5

LEMMA QuiesceKeeps ==
    ASSUME ClockInv, Quiesce
    PROVE  ClockInv'
<1>1. /\ At("quiesce")
      /\ UNCHANGED <<sess, active, record, pending, worker, placed, cmd, resolver, ri, held, stopping>>
  BY DEF Quiesce, StepKeeps, diskVars, busVars, coreVars
<1>2. \/ Done /\ (box' = box \/ (box.owned /\ box' = Idled))
      \/ Fail(TRUE) /\ box' = box
  BY Zenon DEF Quiesce, Answers, Idled
<1>3. DataOK' BY <1>1, <1>2, BoxDown, Zenon DEF ClockInv, DataOK
<1>4. CASE Fail(TRUE) BY <1>1, <1>3, <1>4, Retreat, Zenon DEF ClockInv, DataOK
<1>5. CASE Done
  <2>1. resolver' \in 0..MaxRevs BY <1>1 DEF ClockInv, Known
  <2>2. Planned' /\ Known' /\ Advanced("quiesce") /\ held /\ mode \in Busy /\ Now = "quiesce"
    BY <1>1, <1>5, <2>1, Forward
  <2>3. mode \notin {"fail", "shutdown"} => ~cmd.waiting BY <2>2, Zenon DEF ClockInv, PlaceOK
  <2>4. Now' = "paused" /\ mode' = mode /\ mode # "stopped"
    <3>1. "quiesce" # EndOf(mode) /\ Then("quiesce") = "paused" BY Zenon DEF EndOf, Then
    <3> QED BY <2>2, <3>1 DEF Advanced, Busy
  <2>5. PlaceOK' BY <1>1, <2>2, <2>3, <2>4 DEF PlaceOK
  <2> QED BY <1>3, <2>2, <2>5, Zenon DEF ClockInv, DataOK
<1> QED BY <1>2, <1>4, <1>5, Zenon

LEMMA StopKeeps ==
    ASSUME ClockInv, Stop
    PROVE  ClockInv'
<1>1. /\ At("stop")
      /\ UNCHANGED <<sess, active, record, pending, worker, placed, cmd, resolver, ri, held, stopping>>
  BY DEF Stop, StepKeeps, diskVars, busVars
<1>2. \/ Done /\ box.owned /\ box' = NoBox
      \/ (\E t : Fail(t)) /\ (box' = box \/ (box.owned /\ box' = Halted))
  <2>1. CASE StopOk \/ StopFails BY <2>1, StopEnds
  <2>2. CASE Fail(FALSE) /\ UNCHANGED box BY <2>2, Zenon
  <2> QED BY <2>1, <2>2, Zenon DEF Stop
<1>3. DataOK' BY <1>1, <1>2, BoxDown, Zenon DEF ClockInv, DataOK
<1>4. CASE \E t : Fail(t)
  <2>1. PICK t : Fail(t) BY <1>4
  <2> QED BY <1>1, <1>3, <2>1, Retreat DEF ClockInv, DataOK
<1>5. CASE Done /\ box' = NoBox
  <2>1. resolver' \in 0..MaxRevs BY <1>1 DEF ClockInv, Known
  <2>2. Planned' /\ Known' /\ Advanced("stop") /\ held /\ mode \in Busy /\ Now = "stop"
    BY <1>1, <1>5, <2>1, Forward
  <2>3. mode \notin {"fail", "shutdown"} => ~cmd.waiting BY <2>2, Zenon DEF ClockInv, PlaceOK
  <2>4. ((Now' = "drain" /\ mode' = mode) \/ Now' = "none") /\ mode' # "stopped"
    <3>1. "stop" # EndOf("shutdown") /\ "stop" # EndOf("rollback") /\ Then("stop") = "drain"
      BY Zenon DEF EndOf, Then
    <3> QED BY <2>2, <3>1 DEF Advanced, Busy
  <2>5. box' = NoBox' BY <1>5, BoxNames, Zenon
  <2>6. PlaceOK' BY <1>1, <2>2, <2>3, <2>4, <2>5 DEF PlaceOK
  <2> QED BY <1>3, <2>2, <2>6 DEF ClockInv, DataOK
<1> QED BY <1>2, <1>4, <1>5

LEMMA ResumeKeeps ==
    ASSUME ClockInv, Resume
    PROVE  ClockInv'
<1>1. /\ At("resume")
      /\ UNCHANGED <<sess, active, record, pending, worker, placed, cmd, resolver, ri, held, stopping>>
  BY DEF Resume, StepKeeps, diskVars, busVars, coreVars
<1>2. \/ box.up /\ box.session = record /\ box' = [box EXCEPT !.active = TRUE]
         /\ (Done \/ \E t : Fail(t))
      \/ (\E t : Fail(t)) /\ box' = box
  BY Zenon DEF Resume, Answers
<1>3. Now = "resume" BY <1>1, AtStep, Zenon DEF ClockInv
<1>4. OneConfiguration /\ Confirmed(record) /\ record # 0 BY <1>3 DEF ClockInv, PlaceOK, OneConfiguration
<1>5. CASE box.up /\ box.session = record /\ box' = [box EXCEPT !.active = TRUE]
  <2>1. /\ box = [session |-> box.session, up |-> box.up, active |-> box.active,
                  lock |-> box.lock, owned |-> box.owned]
        /\ box.lock \in {"free", "poll", "write"}
    BY BoxIs DEF ClockInv
  <2>2. box' = [session |-> box.session, up |-> box.up, active |-> TRUE, lock |-> box.lock,
                owned |-> box.owned]
    BY <1>5, <2>1, Zenon
  <2>3. TRUE \in BOOLEAN OBVIOUS
  <2>4. /\ BoxOK' /\ box'.session = box.session /\ box'.up = box.up /\ box'.owned = box.owned
    BY <1>1, <1>4, <1>5, <2>1, <2>2, <2>3, SetBox, ZenonT(30) DEF ClockInv
  <2>5. CmdOK' BY <1>1, <2>4, CmdStays DEF ClockInv
  <2>6. Journal' BY <1>1, Zenon DEF ClockInv, Journal, JournalSound
  <2>7. StreamOK' BY <1>1, Zenon DEF ClockInv, StreamOK, Confirmed, RevOf
  <2>8. DataOK' BY <2>4, <2>5, <2>6, <2>7, Zenon DEF DataOK
  <2>9. CASE \E t : Fail(t)
    <3>1. PICK t : Fail(t) BY <2>9
    <3> QED BY <1>1, <2>8, <3>1, Retreat, Zenon DEF ClockInv, DataOK
  <2>10. CASE Done
    <3>1. resolver' \in 0..MaxRevs BY <1>1 DEF ClockInv, Known
    <3>2. Planned' /\ Known' /\ Advanced("resume") /\ held /\ mode \in Busy
      BY <1>1, <2>10, <3>1, Forward
    <3>3. mode \notin {"fail", "shutdown"} => ~cmd.waiting BY <1>3 DEF ClockInv, PlaceOK
    <3>4. Now' = "commit" /\ mode' = mode /\ mode # "stopped"
      <4>1. "resume" # EndOf(mode) /\ Then("resume") = "commit" BY DEF EndOf, Then
      <4> QED BY <3>2, <4>1 DEF Advanced, Busy
    <3>5. OneConfiguration' /\ Confirmed(record)'
      BY <1>1, <1>4, <1>5, <2>4, Zenon DEF OneConfiguration, Confirmed, RevOf
    <3>6. PlaceOK' BY <1>1, <3>2, <3>3, <3>4, <3>5, Zenon DEF PlaceOK
    <3> QED BY <2>8, <3>2, <3>6, Zenon DEF ClockInv, DataOK
  <2> QED BY <1>2, <1>5, <2>9, <2>10, Zenon
<1>6. CASE (\E t : Fail(t)) /\ box' = box
  <2>1. PICK t : Fail(t) BY <1>6
  <2>2. DataOK' BY <1>1, <1>6, DataStays DEF ClockInv, DataOK
  <2> QED BY <1>1, <2>1, <2>2, Retreat DEF ClockInv, DataOK
<1> QED BY <1>2, <1>5, <1>6

LEMMA CommitKeeps ==
    ASSUME ClockInv, Commit
    PROVE  ClockInv'
<1>1. /\ At("commit")
      /\ UNCHANGED <<sess, record, box, pending, worker, placed, cmd, resolver, ri, held, stopping>>
      /\ (Done /\ active' = record) \/ (Fail(FALSE) /\ active' \in {active, record})
  BY Zenon DEF Commit, StepKeeps, diskVars, busVars, coreVars, AtomicFile
<1>2. Now = "commit" BY <1>1, AtStep, Zenon DEF ClockInv
<1>3. OneConfiguration /\ Confirmed(record) /\ record # 0 BY <1>2 DEF ClockInv, PlaceOK, OneConfiguration
<1>4. DataOK'
  <2>1. active' \in {active, record} BY <1>1, Zenon
  <2>2. Journal' BY <1>1, <1>3, <2>1 DEF ClockInv, Journal, JournalSound, Confirmed
  <2>3. BoxOK' BY <1>1, Zenon DEF ClockInv, BoxOK, Confirmed
  <2>4. StreamOK' BY <1>1, Zenon DEF ClockInv, StreamOK, Confirmed, RevOf
  <2>5. CmdOK' BY <1>1 DEF ClockInv, CmdOK, RevOf
  <2> QED BY <2>2, <2>3, <2>4, <2>5 DEF DataOK
<1>5. CASE Fail(FALSE) BY <1>1, <1>4, <1>5, Retreat, Zenon DEF ClockInv, DataOK
<1>6. CASE Done /\ active' = record
  <2>1. resolver' \in 0..MaxRevs BY <1>1, Zenon DEF ClockInv, Known
  <2>2. Planned' /\ Known' /\ Advanced("commit") /\ held /\ mode \in Busy
    BY <1>1, <1>6, <2>1, Forward
  <2>3. mode \notin {"fail", "shutdown"} => ~cmd.waiting BY <1>2 DEF ClockInv, PlaceOK
  <2>4. Now' = "open" /\ mode' = mode /\ mode # "stopped"
    <3>1. "commit" # EndOf(mode) /\ Then("commit") = "open" BY DEF EndOf, Then
    <3> QED BY <2>2, <3>1 DEF Advanced, Busy
  <2>5. OneConfiguration' /\ Confirmed(record)' BY <1>1, <1>3, ConfigurationStays
  <2>6. active' = record' BY <1>1, <1>6, Zenon
  <2>7. PlaceOK' BY <1>1, <2>2, <2>3, <2>4, <2>5, <2>6, Zenon DEF PlaceOK
  <2> QED BY <1>4, <2>2, <2>7, Zenon DEF ClockInv, DataOK
<1> QED BY <1>1, <1>5, <1>6, Zenon

-----------------------------------------------------------------------------
(* Steps that write sessions and start the producer.                       *)

Sessions == Seq([rev : Revisions, verified : BOOLEAN])

\* A session keeps its revision and its receipt.
Grown ==
    /\ sess' \in Sessions /\ Len(sess') >= Len(sess)
    /\ \A s \in 1..Len(sess) : /\ sess'[s].rev = sess[s].rev
                               /\ sess[s].verified => sess'[s].verified

LEMMA GrownKeeps ==
    ASSUME DataOK, Grown, UNCHANGED <<active, box, pending, worker, placed, cmd>>,
           record' \in 0..Len(sess'), resolver' = resolver \/ ~cmd.waiting
    PROVE  /\ DataOK'
           /\ \A s \in 0..Len(sess) : RevOf(s)' = RevOf(s)
<1>1. Len(sess) \in Nat /\ Len(sess') \in Nat /\ Len(sess') >= Len(sess)
  BY DEF DataOK, Journal, Grown, Sessions
<1>2. ASSUME NEW s \in 0..Len(sess) PROVE RevOf(s)' = RevOf(s)
  BY <1>1 DEF RevOf, Grown
<1>3. ASSUME NEW s, Confirmed(s) PROVE Confirmed(s)'
  BY <1>1, <1>3 DEF Confirmed, Grown
<1>4. 0..Len(sess) \subseteq 0..Len(sess') BY <1>1
<1>5. Journal'
  <2>1. active # 0 => Confirmed(active) BY <1>1 DEF DataOK, Journal, JournalSound, Confirmed
  <2>2. active # 0 => sess'[active].verified
    <3>1. PICK a : a = active BY Zenon
    <3> QED BY <1>3, <2>1, <3>1 DEF Confirmed
  <2> QED BY <1>4, <2>2 DEF DataOK, Journal, JournalSound, Grown, Sessions
<1>6. BoxOK'
  <2>1. PICK s : s = box.session OBVIOUS
  <2>2. box.active \/ box.lock # "free" => box.up /\ Confirmed(s) BY <2>1 DEF DataOK, BoxOK
  <2>3. Confirmed(s)' => Confirmed(box.session)' BY <2>1, Zenon DEF Confirmed
  <2>4. box' \in [session : 0..Len(sess'), up : BOOLEAN, active : BOOLEAN,
                  lock : {"free", "poll", "write"}, owned : BOOLEAN]
    BY <1>4, Zenon DEF DataOK, BoxOK
  <2> QED BY <1>3, <2>2, <2>3, <2>4, BoxNames, Zenon DEF DataOK, BoxOK
<1>7. StreamOK'
  <2>1. \A e \in pending : Confirmed(e.session)' BY <1>3 DEF DataOK, StreamOK
  <2>2. PICK s \in 0..Len(sess) : s = placed.session BY Zenon DEF DataOK, StreamOK
  <2>3. RevOf(placed.session)' = RevOf(placed.session) BY <1>2, <2>2, Zenon DEF RevOf
  <2> QED BY <1>4, <2>1, <2>3, Zenon DEF DataOK, StreamOK
<1>8. CmdOK'
  <2>1. PICK s \in 0..Len(sess) : s = cmd.to BY DEF DataOK, CmdOK
  <2>2. PICK t \in 0..Len(sess) : t = box.session BY Zenon DEF DataOK, BoxOK
  <2>3. RevOf(cmd.to)' = RevOf(cmd.to) /\ RevOf(box.session)' = RevOf(box.session)
    BY <1>2, <2>1, <2>2, Zenon DEF RevOf
  <2>4. cmd' \in [at : {"none", "core", "found", "wire", "writing", "replied"}, rev : 0..MaxRevs,
                  to : 0..Len(sess'), waiting : BOOLEAN]
    BY <1>4, Zenon DEF DataOK, CmdOK
  <2> QED BY <2>3, <2>4, Zenon DEF DataOK, CmdOK
<1> QED BY <1>2, <1>5, <1>6, <1>7, <1>8, Zenon DEF DataOK

LEMMA ReceiptGrows ==
    ASSUME Journal, record # 0, Receipt
    PROVE  Grown /\ Len(sess') = Len(sess) /\ sess'[record].verified /\ record \in 1..Len(sess)
<1>1. sess \in Sessions /\ record \in 1..Len(sess) BY DEF Journal, Sessions
<1>2. PICK r \in 1..Len(sess) : r = record BY <1>1
<1>3. sess' = [sess EXCEPT ![r].verified = TRUE] BY <1>2 DEF Receipt
<1>4. sess \in [1..Len(sess) -> [rev : Revisions, verified : BOOLEAN]] /\ Len(sess) \in Nat
  <2>1. PICK S : S = [rev : Revisions, verified : BOOLEAN] BY Zenon
  <2>2. sess \in Seq(S) BY <1>1, <2>1 DEF Sessions
  <2>3. sess \in [1..Len(sess) -> S] /\ Len(sess) \in Nat BY <2>2
  <2> QED BY <2>1, <2>3
<1>5. PICK new \in [rev : Revisions, verified : BOOLEAN] :
        new = [sess[r] EXCEPT !.verified = TRUE]
  <2>1. PICK b \in [rev : Revisions, verified : BOOLEAN] : b = sess[r] BY <1>4
  <2>2. TRUE \in BOOLEAN OBVIOUS
  <2>3. [b EXCEPT !.verified = TRUE] \in [rev : Revisions, verified : BOOLEAN] BY <2>2, Zenon
  <2> QED BY <2>1, <2>3
<1>6. new.verified /\ new.rev = sess[r].rev
  <2>1. PICK b \in [rev : Revisions, verified : BOOLEAN] : b = sess[r] BY <1>4
  <2> QED BY <1>5, <2>1
<1>7. sess' = [sess EXCEPT ![r] = new] BY <1>3, <1>5
<1>8. /\ sess' \in Sessions /\ Len(sess') = Len(sess)
      /\ \A s \in 1..Len(sess) : sess'[s] = IF s = r THEN new ELSE sess[s]
  BY <1>1, <1>4, <1>5, <1>7 DEF Sessions
<1> QED BY <1>1, <1>2, <1>4, <1>6, <1>8 DEF Grown

LEMMA VerifyKeeps ==
    ASSUME ClockInv, Verify
    PROVE  ClockInv'
<1>1. /\ At("verify")
      /\ UNCHANGED <<active, record, box, pending, worker, placed, cmd, resolver, ri, held, stopping>>
  BY DEF Verify, StepKeeps, busVars
<1>2. (Done /\ Receipt) \/ ((\E t : Fail(t)) /\ (Receipt \/ UNCHANGED sess))
  BY Zenon DEF Verify
<1>3. Now = "verify" /\ Journal BY <1>1, AtStep, Zenon DEF ClockInv
<1>4. OneConfiguration /\ record # 0 BY <1>3, Zenon DEF ClockInv, PlaceOK, OneConfiguration
<1>5. CASE UNCHANGED sess /\ \E t : Fail(t)
  <2>1. PICK t : Fail(t) BY <1>5, Zenon
  <2>2. DataOK' BY <1>1, <1>5, DataStays DEF ClockInv, DataOK
  <2> QED BY <1>1, <2>1, <2>2, Retreat DEF ClockInv, DataOK
<1>6. CASE Receipt
  <2>1. Grown /\ Len(sess') = Len(sess) /\ sess'[record].verified /\ record \in 1..Len(sess)
    BY <1>3, <1>4, <1>6, ReceiptGrows, Zenon
  <2>2. record' \in 0..Len(sess') BY <1>1, <2>1, SMTT(20), Zenon
  <2>3. DataOK' /\ \A s \in 0..Len(sess) : RevOf(s)' = RevOf(s)
    BY <1>1, <2>1, <2>2, GrownKeeps, Zenon DEF ClockInv, DataOK
  <2>4. CASE \E t : Fail(t)
    <3>1. PICK t : Fail(t) BY <2>4
    <3> QED BY <1>1, <2>3, <3>1, Retreat, Zenon DEF ClockInv, DataOK
  <2>5. CASE Done
    <3>1. resolver' \in 0..MaxRevs BY <1>1, Zenon DEF ClockInv, Known
    <3>2. Planned' /\ Known' /\ Advanced("verify") /\ held /\ mode \in Busy
      BY <1>1, <2>5, <3>1, Forward
    <3>3. mode \notin {"fail", "shutdown"} => ~cmd.waiting BY <1>3, Zenon DEF ClockInv, PlaceOK
    <3>4. Now' = "resume" /\ mode' = mode /\ mode # "stopped"
      <4>1. "verify" # EndOf(mode) /\ Then("verify") = "resume" BY DEF EndOf, Then
      <4> QED BY <3>2, <4>1 DEF Advanced, Busy
    <3>5. Confirmed(record)' BY <1>1, <2>1, Zenon DEF Confirmed
    <3>6. OneConfiguration'
      <4>1. PICK r \in 0..Len(sess) : r = record BY <2>1
      <4>2. RevOf(record)' = RevOf(record) BY <1>1, <2>3, <4>1, Zenon DEF RevOf
      <4> QED BY <1>1, <1>4, <4>2, BoxNames DEF OneConfiguration
    <3>7. PlaceOK' BY <1>1, <3>2, <3>3, <3>4, <3>5, <3>6, Zenon DEF PlaceOK
    <3> QED BY <2>3, <3>2, <3>7, Zenon DEF ClockInv, DataOK
  <2> QED BY <1>2, <2>4, <2>5
<1> QED BY <1>2, <1>5, <1>6

LEMMA NewSessionGrows ==
    ASSUME Journal, NEW w \in Revisions, Wanted = w, sess' = NewSession
    PROVE  Grown /\ Len(sess') = Len(sess) + 1 /\ sess'[Len(sess) + 1].rev = w
<1>1. PICK new \in [rev : Revisions, verified : BOOLEAN] : new = [rev |-> w, verified |-> FALSE]
  <2>1. FALSE \in BOOLEAN OBVIOUS
  <2> QED BY <2>1, Zenon
<1>2. sess \in Sessions /\ Len(sess) \in Nat BY DEF Journal, Sessions
<1>3. sess' = Append(sess, new) BY <1>1 DEF NewSession
<1>4. sess' \in Sessions /\ Len(sess') = Len(sess) + 1 BY <1>2, <1>3 DEF Sessions
<1>5. \A s \in 1..Len(sess) : sess'[s] = sess[s] BY <1>2, <1>3 DEF Sessions
<1>6. sess'[Len(sess) + 1] = new BY <1>2, <1>3 DEF Sessions
<1> QED BY <1>1, <1>2, <1>4, <1>5, <1>6 DEF Grown

LEMMA ConfigureKeeps ==
    ASSUME ClockInv, Configure
    PROVE  ClockInv'
<1>1. /\ At("configure")
      /\ UNCHANGED <<active, box, pending, worker, placed, cmd, ri, held, stopping>>
  BY DEF Configure, StepKeeps, busVars
<1>2. Now = "configure" /\ mode \in {"apply", "restore"}
  BY <1>1, AtStep DEF ClockInv, Installing
<1>3. \/ Done /\ sess' = NewSession /\ record' = Len(sess) + 1 /\ resolver' = Wanted
      \/ /\ Fail(FALSE) /\ UNCHANGED resolver
         /\ sess' \in {sess, NewSession}
         /\ record' \in {record, Len(sess) + 1} /\ record' <= Len(sess')
  <2>1. CASE /\ sess' = NewSession /\ record' = Len(sess) + 1
             /\ (resolver' = Wanted /\ Done) \/ (Fail(FALSE) /\ UNCHANGED resolver)
    <3>1. Len(NewSession) = Len(sess) + 1 /\ Len(sess) \in Nat
      BY DEF NewSession, ClockInv, Journal
    <3>2. Len(sess') = Len(sess) + 1 BY <2>1, <3>1
    <3>3. record' <= Len(sess') /\ record' \in {record, Len(sess) + 1} /\ sess' \in {sess, NewSession}
      BY <2>1, <3>1, <3>2
    <3> QED BY <2>1, <3>3, Zenon
  <2>2. CASE /\ Fail(FALSE) /\ UNCHANGED resolver /\ sess' \in AtomicFile(sess, NewSession)
             /\ record' \in {record, Len(sess) + 1} /\ record' <= Len(sess')
    BY <2>2, Zenon DEF AtomicFile
  <2> QED BY <2>1, <2>2, Zenon DEF Configure
<1>4. PICK w \in Revisions : w = Wanted
  BY <1>2 DEF Wanted, ClockInv, Known, Revisions
<1>5. Journal /\ Len(sess) \in Nat BY DEF ClockInv, Journal
<1>6. sess' = NewSession => Grown /\ Len(sess') = Len(sess) + 1 /\ sess'[Len(sess) + 1].rev = w
  BY <1>4, <1>5, NewSessionGrows
<1>7. sess' = sess => Grown BY <1>5 DEF Grown, Journal, Sessions
<1>8. ~cmd.waiting /\ box = NoBox /\ pending = {} /\ worker = {} /\ held
  BY <1>2 DEF ClockInv, PlaceOK
<1>9. Grown /\ record' \in 0..Len(sess')
  <2>1. Grown BY <1>3, <1>6, <1>7, Zenon
  <2>2. record \in 0..Len(sess) BY <1>5, Zenon DEF Journal
  <2>3. Len(sess') \in Nat BY <2>1 DEF Grown, Sessions
  <2>4. record' \in {record, Len(sess) + 1} /\ record' <= Len(sess')
    <3>1. CASE sess' = NewSession /\ record' = Len(sess) + 1 BY <1>5, <1>6, <3>1, SMTT(20), Zenon
    <3> QED BY <1>3, <3>1, Zenon
  <2> QED BY <1>5, <2>1, <2>2, <2>3, <2>4
<1>10. DataOK' /\ \A s \in 0..Len(sess) : RevOf(s)' = RevOf(s)
  BY <1>1, <1>8, <1>9, GrownKeeps DEF ClockInv, DataOK
<1>11. CASE Fail(FALSE) /\ UNCHANGED resolver
  BY <1>1, <1>10, <1>11, Retreat, Zenon DEF ClockInv, DataOK
<1>12. CASE Done /\ sess' = NewSession /\ record' = Len(sess) + 1 /\ resolver' = Wanted
  <2>1. resolver' \in 0..MaxRevs BY <1>4, <1>12 DEF Revisions
  <2>2. Planned' /\ Known' /\ Advanced("configure") /\ mode \in Busy
    BY <1>1, <1>12, <2>1, Forward, Zenon
  <2>3. Now' = "start" /\ mode' = mode /\ mode # "stopped"
    <3>1. "configure" # EndOf(mode) /\ Then("configure") = "start" BY Zenon DEF EndOf, Then
    <3> QED BY <2>2, <3>1 DEF Advanced, Busy
  <2>4. OneConfiguration'
    <3>1. RevOf(record)' = w /\ record' # 0 BY <1>5, <1>6, <1>12 DEF RevOf
    <3> QED BY <1>1, <1>4, <1>8, <1>12, <3>1, BoxNames, Zenon DEF OneConfiguration
  <2>5. cmd'.to # record'
    <3>1. cmd.to \in 0..Len(sess) BY CmdIs, Zenon DEF ClockInv
    <3> QED BY <1>1, <1>5, <1>12, <3>1
  <2>6. box' = NoBox' /\ ~cmd'.waiting /\ held' BY <1>1, <1>8, BoxNames, Zenon
  <2>7. PlaceOK' BY <2>3, <2>4, <2>5, <2>6, SMTT(20), Zenon DEF PlaceOK
  <2> QED BY <1>10, <2>2, <2>7 DEF ClockInv, DataOK
<1> QED BY <1>3, <1>11, <1>12, Zenon

\* The container Start makes.
NewBox(up) == [session |-> record, up |-> up, active |-> FALSE, lock |-> "free", owned |-> TRUE]

LEMMA StartEnds ==
    ASSUME Start
    PROVE  /\ At("start")
           /\ UNCHANGED <<sess, active, record, pending, worker, placed, cmd, resolver, ri, held,
                          stopping>>
           /\ \/ Done /\ box = NoBox /\ box' = NewBox(TRUE)
              \/ (\E t : Fail(t)) /\ (box' = box \/ (box = NoBox /\ \E up \in BOOLEAN : box' = NewBox(up)))
<1>1. /\ At("start")
      /\ UNCHANGED <<sess, active, record, pending, worker, placed, cmd, resolver, ri, held, stopping>>
  BY DEF Start, StepKeeps, diskVars, busVars
<1>2. ASSUME NEW up PROVE [NoBox EXCEPT !.session = record, !.up = up] = NewBox(up)
  <2>1. PICK b : b = [NoBox EXCEPT !.session = record, !.up = up] OBVIOUS
  <2>2. NoBox = [session |-> 0, up |-> FALSE, active |-> FALSE, lock |-> "free", owned |-> TRUE]
    BY DEF NoBox
  <2>3. b = NewBox(up) BY <2>1, <2>2, Zenon DEF NewBox
  <2> QED BY <2>1, <2>3
<1>3. \/ (\E t : Fail(t)) /\ box' = box
      \/ /\ box = NoBox
         /\ \/ Done /\ box' = [NoBox EXCEPT !.session = record, !.up = TRUE]
            \/ /\ \E t : Fail(t)
               /\ box' \in {NoBox, [NoBox EXCEPT !.session = record, !.up = FALSE],
                            [NoBox EXCEPT !.session = record, !.up = TRUE]}
  BY Zenon DEF Start
<1>4. TRUE \in BOOLEAN /\ FALSE \in BOOLEAN OBVIOUS
<1> QED BY <1>1, <1>2, <1>3, <1>4, Zenon

LEMMA StartKeeps ==
    ASSUME ClockInv, Start
    PROVE  ClockInv'
<1>1. /\ At("start")
      /\ UNCHANGED <<sess, active, record, pending, worker, placed, cmd, resolver, ri, held, stopping>>
      /\ \/ Done /\ box = NoBox /\ box' = NewBox(TRUE)
         \/ (\E t : Fail(t)) /\ (box' = box \/ (box = NoBox /\ \E up \in BOOLEAN : box' = NewBox(up)))
  BY StartEnds, Zenon
<1>2. Now = "start" /\ mode \in {"apply", "restore"} BY <1>1, AtStep, Zenon DEF ClockInv, Installing
<1>3. /\ ~cmd.waiting /\ held /\ record # 0 /\ resolver = RevOf(record)
      /\ record \in 0..Len(sess)
  BY <1>2 DEF ClockInv, PlaceOK, OneConfiguration, Journal
<1>4. ASSUME NEW up \in BOOLEAN, box' = NewBox(up) PROVE DataOK'
  <2>1. /\ box'.session = record /\ box'.up = up /\ box'.active = FALSE /\ box'.lock = "free"
        /\ box'.owned = TRUE
    BY <1>4, Zenon DEF NewBox
  <2>2. box' \in [session : 0..Len(sess), up : BOOLEAN, active : BOOLEAN,
                  lock : {"free", "poll", "write"}, owned : BOOLEAN]
    <3>1. FALSE \in BOOLEAN /\ TRUE \in BOOLEAN OBVIOUS
    <3> QED BY <1>3, <1>4, <3>1 DEF NewBox
  <2>3. BoxOK' BY <1>1, <1>3, <2>1, <2>2, SMTT(20), Zenon DEF BoxOK
  <2>4. Journal' BY <1>1, Zenon DEF ClockInv, Journal, JournalSound
  <2>5. StreamOK' BY <1>1, Zenon DEF ClockInv, StreamOK, Confirmed, RevOf
  <2>6. ~cmd'.waiting BY <1>1, <1>3, SMTT(20), Zenon
  <2>7. CmdOK' BY <1>1, <2>6, Zenon DEF ClockInv, CmdOK, RevOf
  <2> QED BY <2>3, <2>4, <2>5, <2>7, Zenon DEF DataOK
<1>5. DataOK'
  <2>1. CASE box' = box BY <1>1, <2>1, DataStays DEF ClockInv, DataOK
  <2>2. CASE \E up \in BOOLEAN : box' = NewBox(up) BY <1>4, <2>2, Zenon
  <2>3. TRUE \in BOOLEAN OBVIOUS
  <2> QED BY <1>1, <2>1, <2>2, <2>3, Zenon
<1>6. CASE \E t : Fail(t)
  <2>1. PICK t : Fail(t) BY <1>6
  <2> QED BY <1>1, <1>5, <2>1, Retreat, Zenon DEF ClockInv, DataOK
<1>7. CASE Done /\ box' = NewBox(TRUE)
  <2>1. resolver' \in 0..MaxRevs BY <1>1, Zenon DEF ClockInv, Known
  <2>2. Planned' /\ Known' /\ Advanced("start") /\ mode \in Busy BY <1>1, <1>7, <2>1, Forward, Zenon
  <2>3. Now' = "verify" /\ mode' = mode /\ mode # "stopped"
    <3>1. "start" # EndOf(mode) /\ Then("start") = "verify" BY Zenon DEF EndOf, Then
    <3> QED BY <2>2, <3>1 DEF Advanced, Busy
  <2>4. box'.session = record BY <1>7, Zenon DEF NewBox
  <2>5. OneConfiguration' BY <1>1, <1>3, <2>4, Zenon DEF OneConfiguration, RevOf
  <2>6. ~cmd'.waiting /\ held' BY <1>1, <1>3, Zenon
  <2>7. PlaceOK' BY <2>3, <2>5, <2>6, Zenon DEF PlaceOK
  <2> QED BY <1>5, <2>2, <2>7, Zenon DEF ClockInv, DataOK
<1> QED BY <1>1, <1>6, <1>7, Zenon

-----------------------------------------------------------------------------
(* The process ends and begins again.                                      *)

LEMMA EndKeeps ==
    ASSUME ClockInv, GatewayEnds
    PROVE  ClockInv'
<1>1. /\ UNCHANGED <<ri, sess, active, box, pending, placed>>
      /\ desired' = 0 /\ applied' = 0 /\ good' = RevOf(active) /\ mode' = "idle" /\ todo' = << >>
      /\ held' = TRUE /\ resolver' = 0 /\ record' = 0 /\ worker' = {}
  BY DEF GatewayEnds, LastGood, diskVars
<1>2. Planned' /\ Now' = "none" BY <1>1 DEF Planned, Resting, Now
<1>3. RevOf(active) \in 0..MaxRevs
  <2>1. CASE active = 0 BY <2>1, ClockBoundsAssumption DEF RevOf
  <2>2. CASE active # 0
    <3>1. active \in 1..Len(sess) /\ sess \in Seq([rev : Revisions, verified : BOOLEAN])
      BY <2>2 DEF ClockInv, Journal
    <3>2. PICK S : S = [rev : Revisions, verified : BOOLEAN] BY Zenon
    <3>3. sess[active] \in S
      <4>1. sess \in Seq(S) BY <3>1, <3>2
      <4> QED BY <3>1, <4>1
    <3>4. sess[active].rev \in Revisions BY <3>2, <3>3, Zenon
    <3> QED BY <2>2, <3>4, ClockBoundsAssumption DEF RevOf, Revisions
  <2> QED BY <2>1, <2>2
<1>4. Known'
  <2>1. ri \in Revisions /\ 0 \in 0..MaxRevs BY ClockBoundsAssumption DEF ClockInv, Known
  <2> QED BY <1>1, <1>3, <2>1 DEF Known, Revisions
<1>5. Journal' BY <1>1 DEF ClockInv, Journal, JournalSound
<1>6. BoxOK' BY <1>1, Zenon DEF ClockInv, BoxOK, Confirmed, NoBox, Stranger
<1>7. StreamOK' BY <1>1 DEF ClockInv, StreamOK, Confirmed, RevOf
<1>8. CmdOK'
  <2>1. /\ cmd = [at |-> cmd.at, rev |-> cmd.rev, to |-> cmd.to, waiting |-> cmd.waiting]
        /\ cmd.rev \in 0..MaxRevs /\ cmd.to \in 0..Len(sess)
    BY CmdIs DEF ClockInv
  <2>2. 0 \in 0..Len(sess) /\ 0 \in 0..MaxRevs /\ FALSE \in BOOLEAN
    BY ClockBoundsAssumption, SMTT(20), Zenon DEF ClockInv, Journal
  <2>3. CASE cmd.at \in {"wire", "writing"}
    <3>1. cmd' = [cmd EXCEPT !.waiting = FALSE] BY <2>3 DEF GatewayEnds
    <3>2. cmd' = [at |-> cmd.at, rev |-> cmd.rev, to |-> cmd.to, waiting |-> FALSE] BY <2>1, <3>1, Zenon
    <3>3. cmd'.at = cmd.at /\ cmd'.rev = cmd.rev /\ cmd'.to = cmd.to /\ cmd'.waiting = FALSE
      BY <3>2, Zenon
    <3>4. cmd.to # 0 /\ cmd.rev = RevOf(cmd.to) BY <2>3, Zenon DEF ClockInv, CmdOK
    <3>5. RevOf(cmd.to)' = RevOf(cmd.to) BY <1>1, <3>3, Zenon DEF RevOf
    <3>6. cmd' \in [at : {"none", "core", "found", "wire", "writing", "replied"}, rev : 0..MaxRevs,
                    to : 0..Len(sess), waiting : BOOLEAN]
      BY <2>1, <2>2, <2>3, <3>2, Zenon
    <3> QED BY <1>1, <2>3, <3>3, <3>4, <3>5, <3>6 DEF CmdOK
  <2>4. CASE cmd.at \notin {"wire", "writing"}
    <3>1. cmd' = [at |-> "none", rev |-> 0, to |-> 0, waiting |-> FALSE]
      BY <2>4, Zenon DEF GatewayEnds, NoCmd
    <3>2. cmd'.at = "none" /\ cmd'.waiting = FALSE BY <3>1, Zenon
    <3>3. cmd' \in [at : {"none", "core", "found", "wire", "writing", "replied"}, rev : 0..MaxRevs,
                    to : 0..Len(sess), waiting : BOOLEAN]
      BY <2>2, <3>1, Zenon
    <3> QED BY <1>1, <3>2, <3>3 DEF CmdOK
  <2> QED BY <2>3, <2>4, Zenon
<1>9. PlaceOK' BY <1>1, <1>2 DEF PlaceOK
<1> QED BY <1>2, <1>4, <1>5, <1>6, <1>7, <1>8, <1>9 DEF ClockInv

LEMMA ClockStart == ClockInit => ClockInv
<1> SUFFICES ASSUME ClockInit PROVE ClockInv OBVIOUS
<1>1. /\ sess = << >> /\ Len(sess) = 0 /\ active = 0 /\ record = 0 /\ resolver = 0 /\ mode = "idle"
      /\ todo = << >> /\ held = TRUE /\ stopping = FALSE /\ pending = {} /\ worker = {}
      /\ ri = 1 /\ desired = 0 /\ applied = 0 /\ good = 0
  BY DEF ClockInit
<1>2. Planned /\ Now = "none" BY <1>1, Zenon DEF Planned, Resting, Now
<1>3. Known BY <1>1, ClockBoundsAssumption DEF Known, Revisions
<1>4. Journal BY <1>1 DEF Journal, JournalSound
<1>5. 0 \in 0..Len(sess) /\ TRUE \in BOOLEAN /\ FALSE \in BOOLEAN /\ 0 \in 0..MaxRevs
  BY <1>1, ClockBoundsAssumption
<1>6. BoxOK
  <2>1. box \in {NoBox, Stranger} BY Zenon DEF ClockInit
  <2>2. CASE box = NoBox
    <3>1. box = [session |-> 0, up |-> FALSE, active |-> FALSE, lock |-> "free", owned |-> TRUE]
      BY <2>2, Zenon DEF NoBox
    <3> QED BY <1>5, <2>2, <3>1 DEF BoxOK
  <2>3. CASE box = Stranger
    <3>1. box = [session |-> 0, up |-> TRUE, active |-> FALSE, lock |-> "free", owned |-> FALSE]
      BY <2>3, BoxNames, Zenon
    <3> QED BY <1>5, <2>3, <3>1, SMTT(20), Zenon DEF BoxOK
  <2> QED BY <2>1, <2>2, <2>3, Zenon
<1>7. StreamOK
  <2>1. placed.to = "nowhere" /\ placed.session = 0 /\ placed.rev = 0 BY Zenon DEF ClockInit
  <2> QED BY <1>1, <1>5, <2>1, Zenon DEF StreamOK, RevOf
<1>8. CmdOK
  <2>1. cmd = [at |-> "none", rev |-> 0, to |-> 0, waiting |-> FALSE] BY Zenon DEF ClockInit, NoCmd
  <2> QED BY <1>5, <2>1, Zenon DEF CmdOK
<1>9. PlaceOK BY <1>1, <1>2 DEF PlaceOK
<1> QED BY <1>2, <1>3, <1>4, <1>6, <1>7, <1>8, <1>9 DEF ClockInv

LEMMA ClockStep ==
    ASSUME ClockInv, [ClockNext]_clockVars
    PROVE  ClockInv'
<1>1. CASE ProducerNext BY <1>1, ProducerKeeps
<1>2. CASE CommandNext BY <1>2, CommandKeeps, Zenon
<1>3. CASE WorkerNext BY <1>3, WorkerKeeps
<1>4. CASE ControllerNext
  BY <1>4, BeginsKeep, HoldKeeps, SettleKeeps, DiscoverKeeps, QuiesceKeeps, PausedKeeps, StopKeeps,
     DrainKeeps, DrainedKeeps, ConfigureKeeps, StartKeeps, VerifyKeeps, ResumeKeeps, CommitKeeps,
     OpenKeeps, Zenon DEF ControllerNext
<1>5. CASE Publish \/ RequestStop BY <1>5, SignalsKeep, Zenon
<1>6. CASE LeaseExpires BY <1>6, LeaseKeeps
<1>7. CASE GatewayEnds BY <1>7, EndKeeps
<1>8. CASE UNCHANGED clockVars
  <2>1. UNCHANGED <<mode, todo, held, stopping, sess, active, record, resolver, ri, desired,
                    applied, good, pending, worker, placed, box, cmd>>
    BY <1>8, Zenon DEF clockVars, diskVars, busVars, ctlVars, coreVars
  <2>2. Planned' /\ Known' BY <2>1, RestStays, Zenon DEF ClockInv
  <2>3. DataOK' BY <2>1, DataStays, Zenon DEF ClockInv, DataOK
  <2>4. PlaceOK' BY <2>1, PlaceStays DEF ClockInv
  <2> QED BY <2>2, <2>3, <2>4, Zenon DEF ClockInv, DataOK
<1> QED BY <1>1, <1>2, <1>3, <1>4, <1>5, <1>6, <1>7, <1>8, Zenon DEF ClockNext

LEMMA ClockHolds == ClockSpec => []ClockInv
<1>1. ClockInv /\ [ClockNext]_clockVars => ClockInv' BY ClockStep, Zenon
<1> QED BY <1>1, ClockStart, PTL DEF ClockSpec

-----------------------------------------------------------------------------
(* The theorems.                                                           *)

LEMMA ClockTypes == ClockInv => ClockTypeOK
<1> SUFFICES ASSUME ClockInv PROVE ClockTypeOK OBVIOUS
<1>1. {desired, applied, good, resolver} \subseteq 0..MaxRevs /\ ri \in Revisions
  BY DEF ClockInv, Known
<1>2. mode \in Busy \cup Resting /\ todo \in Seq(Steps)
  <2>1. << >> \in Seq(Steps) OBVIOUS
  <2>2. Plan(mode, todo) => todo \in Seq(Steps) BY DEF Plan
  <2> QED BY <2>1, <2>2, Zenon DEF ClockInv, Planned
<1>3. worker \subseteq pending /\ \A d, e \in worker : d = e
  BY Zenon DEF ClockInv, StreamOK
<1>4. /\ sess \in Seq([rev : Revisions, verified : BOOLEAN])
      /\ active \in 0..Len(sess) /\ record \in 0..Len(sess)
  BY DEF ClockInv, Journal
<1>5. box \in [session : 0..Len(sess), up : BOOLEAN, active : BOOLEAN,
               lock : {"free", "poll", "write"}, owned : BOOLEAN]
  BY Zenon DEF ClockInv, BoxOK
<1>6. cmd \in [at : {"none", "core", "found", "wire", "writing", "replied"}, rev : 0..MaxRevs,
               to : 0..Len(sess), waiting : BOOLEAN]
  BY DEF ClockInv, CmdOK
<1> QED BY <1>1, <1>2, <1>3, <1>4, <1>5, <1>6 DEF ClockTypeOK, Busy, Resting

\* Whatever the number of revisions, failures and crashes, the gate (Gateway.held) is
\* open only over one configuration: the resolver, the record, active.json and the
\* container have one revision, with a receipt on disk.
THEOREM OpenOverOneConfiguration == ClockSpec => []OpenIsCoherent
<1>1. ClockInv => OpenIsCoherent
  <2> SUFFICES ASSUME ClockInv PROVE OpenIsCoherent OBVIOUS
  <2>1. ClockTypeOK /\ JournalSound BY ClockTypes, Zenon DEF ClockInv, Journal
  <2>2. ~held => /\ record # 0 /\ active = record /\ sess[record].verified
                 /\ resolver = RevOf(record)
                 /\ box # NoBox => box.session = record
    BY Zenon DEF ClockInv, PlaceOK, OneConfiguration, Confirmed
  <2> QED BY <2>1, <2>2 DEF OpenIsCoherent
<1> QED BY <1>1, ClockHolds, PTL

\* Gateway.process resolves every event with the mapping of its own session, and sets
\* no event of a managed producer aside.
THEOREM MappingIsTheSessions == ClockSpec => []EventsKeepTheirMapping
<1>1. ClockInv => EventsKeepTheirMapping BY Zenon DEF ClockInv, StreamOK, EventsKeepTheirMapping
<1> QED BY <1>1, ClockHolds, PTL

\* After RequestStop the gate stays closed in this process, and a Shutdown without an
\* error leaves no container of ours and an empty stream.
THEOREM StopIsFinal == ClockSpec => []CleanShutdown
<1>1. ClockInv => CleanShutdown BY BoxNames DEF ClockInv, PlaceOK, CleanShutdown
<1> QED BY <1>1, ClockHolds, PTL

LEMMA OnlyConfigure ==
    ASSUME [ClockNext]_clockVars, resolver' \notin {resolver, 0}
    PROVE  Configure
<1>1. ~ProducerNext
  BY DEF ProducerNext, PollBegins, PollPublishes, BoxExits, coreVars
<1>2. ~CommandNext
  BY Zenon DEF CommandNext, Enter, Lookup, Send, Deliver, WriteDone, CmdTimeout, CmdEnds, CmdStep, coreVars
<1>3. ~WorkerNext BY SMTT(20), Zenon DEF WorkerNext, WorkerTakes, WorkerDone, coreVars
<1>4. ControllerNext => Configure
  BY Zenon DEF ControllerNext, FirstHold, Sync, Hold, Settle, Discover, Quiesce, Paused, Stop, Drain,
         Drained, Start, Verify, Resume, Commit, Open, Shutdown, coreVars
<1>5. ~(Publish \/ RequestStop \/ LeaseExpires \/ GatewayEnds)
  BY Zenon DEF Publish, RequestStop, LeaseExpires, GatewayEnds, coreVars
<1>6. ~UNCHANGED clockVars BY DEF clockVars, coreVars
<1> QED BY <1>1, <1>2, <1>3, <1>4, <1>5, <1>6 DEF ClockNext

\* ResolverRuntime.Configure replaces the mapping only with the gate closed, no
\* container, nothing in the stream and no command inside the gate.
THEOREM MappingReplacedBehindBarrier == ClockSpec => ReplacedBehindBarrier
<1>1. ASSUME ClockInv, [ClockNext]_clockVars
      PROVE  [resolver' \notin {resolver, 0} =>
                held /\ box = NoBox /\ pending = {} /\ worker = {} /\ ~cmd.waiting]_clockVars
  <2> SUFFICES ASSUME resolver' \notin {resolver, 0}
               PROVE  held /\ box = NoBox /\ pending = {} /\ worker = {} /\ ~cmd.waiting
    OBVIOUS
  <2>1. At("configure") BY <1>1, OnlyConfigure, Zenon DEF Configure
  <2>2. Now = "configure" /\ mode \in {"apply", "restore"}
    BY <1>1, <2>1, AtStep DEF ClockInv, Installing
  <2> QED BY <1>1, <2>2, Zenon DEF ClockInv, PlaceOK
<1> QED BY <1>1, ClockHolds, PTL DEF ClockSpec, ReplacedBehindBarrier

-----------------------------------------------------------------------------
(* Whole configurations: the refinement of Switchover.                     *)

InForce == IF box.up THEN RevOf(box.session) ELSE 0
Writing == cmd.at = "writing" /\ box.up /\ box.session = cmd.to
Writes == IF Writing THEN {cmd.rev} ELSE {}
Switched ==
    \/ UNCHANGED <<InForce, Writes>>
    \/ InForce = 0 /\ InForce' \in Revisions /\ UNCHANGED Writes
    \/ InForce' = 0 /\ Writes' = {}
    \/ InForce # 0 /\ Writes' = {InForce} /\ UNCHANGED InForce
    \/ Writes' = {} /\ UNCHANGED InForce

\* The producer and the command stay as they are.
LEMMA SameProducer ==
    ASSUME box'.up = box.up, box'.session = box.session, RevOf(box.session)' = RevOf(box.session)
    PROVE  /\ UNCHANGED InForce
           /\ cmd' = cmd => UNCHANGED Writes
           /\ (~Writing /\ ~Writing') => UNCHANGED Writes
BY Zenon DEF InForce, Writes, Writing

LEMMA RevIsRevision ==
    ASSUME Journal, NEW s \in 1..Len(sess)
    PROVE  RevOf(s) \in Revisions /\ RevOf(s) # 0
<1>1. PICK S : S = [rev : Revisions, verified : BOOLEAN] BY Zenon
<1>2. sess \in Seq(S) BY <1>1 DEF Journal
<1>3. sess[s] \in S BY <1>2
<1>4. sess[s].rev \in Revisions BY <1>1, <1>3
<1>5. s # 0 BY <1>2
<1> QED BY <1>4, <1>5, ClockBoundsAssumption DEF RevOf, Revisions

\* A container that goes down takes its write along.
LEMMA GoneProducer ==
    ASSUME BoxOK, UNCHANGED <<sess, cmd>>, box' \in {box, NoBox, Halted, Idled}
    PROVE  Switched
<1>1. box = [session |-> box.session, up |-> box.up, active |-> box.active,
             lock |-> box.lock, owned |-> box.owned]
  BY BoxIs, Zenon
<1>2. CASE box' = box
  <2>1. RevOf(box.session)' = RevOf(box.session) BY <1>2, Zenon DEF RevOf
  <2> QED BY <1>2, <2>1, SameProducer, Zenon DEF Switched
<1>3. CASE box' = Idled
  <2>1. box' = [box EXCEPT !.active = FALSE] BY <1>3 DEF Idled
  <2>2. box' = [session |-> box.session, up |-> box.up, active |-> FALSE,
                lock |-> box.lock, owned |-> box.owned]
    BY <1>1, <2>1, Zenon
  <2>3. box'.up = box.up /\ box'.session = box.session BY <2>2, Zenon
  <2>4. RevOf(box.session)' = RevOf(box.session) BY <2>3, SMTT(20), Zenon DEF RevOf
  <2> QED BY <2>3, <2>4, SameProducer DEF Switched
<1>4. CASE box' = Halted \/ box' = NoBox
  <2>1. ~box'.up
    <3>1. CASE box' = NoBox BY <3>1, BoxNames, Zenon
    <3>2. CASE box' = Halted
      <4>1. box' = [box EXCEPT !.up = FALSE, !.active = FALSE, !.lock = "free"]
        BY <3>2 DEF Halted
      <4>2. box' = [session |-> box.session, up |-> FALSE, active |-> FALSE,
                    lock |-> "free", owned |-> box.owned]
        BY <1>1, <4>1, Zenon
      <4> QED BY <4>2
    <3> QED BY <1>4, <3>1, <3>2, Zenon
  <2> QED BY <2>1, Zenon DEF Switched, InForce, Writes, Writing
<1> QED BY <1>2, <1>3, <1>4, Zenon

LEMMA ProducerSwitches ==
    ASSUME BoxOK, ProducerNext
    PROVE  Switched
<1>1. UNCHANGED <<sess, cmd>>
  BY DEF ProducerNext, PollBegins, PollPublishes, BoxExits, diskVars
<1>2. CASE BoxExits
  BY <1>1, <1>2, GoneProducer, Zenon DEF BoxExits, Halted
<1>3. CASE PollBegins \/ PollPublishes
  <2>1. PICK l : box' = [box EXCEPT !.lock = l] BY <1>3, Zenon DEF PollBegins, PollPublishes
  <2>2. box = [session |-> box.session, up |-> box.up, active |-> box.active,
               lock |-> box.lock, owned |-> box.owned]
    BY BoxIs
  <2>3. box' = [session |-> box.session, up |-> box.up, active |-> box.active,
                lock |-> l, owned |-> box.owned]
    BY <2>1, <2>2, Zenon
  <2>4. box'.up = box.up /\ box'.session = box.session BY <2>3, Zenon
  <2>5. RevOf(box.session)' = RevOf(box.session) BY <1>1, <2>4 DEF RevOf
  <2> QED BY <1>1, <2>4, <2>5, SameProducer DEF Switched
<1> QED BY <1>2, <1>3 DEF ProducerNext

LEMMA CommandSwitches ==
    ASSUME ClockInv, CommandNext
    PROVE  Switched
<1>1. UNCHANGED sess
  BY Zenon DEF CommandNext, Enter, Lookup, Send, Deliver, WriteDone, CmdTimeout, CmdEnds, CmdStep, diskVars
<1>2. cmd = [at |-> cmd.at, rev |-> cmd.rev, to |-> cmd.to, waiting |-> cmd.waiting]
  BY CmdIs, Zenon DEF ClockInv
<1>3. box = [session |-> box.session, up |-> box.up, active |-> box.active,
             lock |-> box.lock, owned |-> box.owned]
  BY BoxIs, Zenon DEF ClockInv
<1>4. NoCmd = [at |-> "none", rev |-> 0, to |-> 0, waiting |-> FALSE] BY DEF NoCmd
<1>5. ASSUME UNCHANGED box, ~Writing, ~Writing' PROVE Switched
  <2>1. RevOf(box.session)' = RevOf(box.session) BY <1>1, <1>5 DEF RevOf
  <2> QED BY <1>5, <2>1, SameProducer, Zenon DEF Switched
<1>6. CASE Enter
  <2>1. UNCHANGED box /\ cmd = NoCmd /\ cmd' = [NoCmd EXCEPT !.at = "core", !.waiting = TRUE]
    BY <1>6 DEF Enter
  <2>2. cmd' = [at |-> "core", rev |-> 0, to |-> 0, waiting |-> TRUE] BY <1>4, <2>1, Zenon
  <2>3. cmd.at = "none" /\ cmd'.at = "core" BY <1>4, <2>1, <2>2
  <2> QED BY <1>5, <2>1, <2>3 DEF Writing
<1>7. CASE Lookup
  <2>1. /\ UNCHANGED box /\ cmd.at = "core"
        /\ cmd' = [cmd EXCEPT !.at = IF resolver # 0 THEN "found" ELSE "replied", !.rev = resolver]
    BY <1>7 DEF Lookup
  <2>2. PICK x \in {"found", "replied"} : x = IF resolver # 0 THEN "found" ELSE "replied" OBVIOUS
  <2>3. cmd' = [at |-> x, rev |-> resolver, to |-> cmd.to, waiting |-> cmd.waiting]
    BY <1>2, <2>1, <2>2, Zenon
  <2>4. cmd'.at = x BY <2>3, Zenon
  <2> QED BY <1>5, <2>1, <2>2, <2>4 DEF Writing
<1>8. CASE Send
  <2>1. UNCHANGED box /\ cmd.at = "found" BY <1>8 DEF Send
  <2>2. cmd'.at \in {"wire", "replied"}
    <3>1. CASE box.up /\ box.owned
      <4>1. cmd' = [cmd EXCEPT !.at = "wire", !.to = box.session] BY <1>8, <3>1 DEF Send
      <4>2. cmd' = [at |-> "wire", rev |-> cmd.rev, to |-> box.session, waiting |-> cmd.waiting]
        BY <1>2, <4>1, Zenon
      <4> QED BY <4>2
    <3>2. CASE ~(box.up /\ box.owned)
      <4>1. cmd' = [cmd EXCEPT !.at = "replied"] BY <1>8, <3>2 DEF Send
      <4>2. cmd' = [at |-> "replied", rev |-> cmd.rev, to |-> cmd.to, waiting |-> cmd.waiting]
        BY <1>2, <4>1
      <4> QED BY <4>2
    <3> QED BY <3>1, <3>2, Zenon
  <2> QED BY <1>5, <2>1, <2>2, Zenon DEF Writing
<1>9. CASE CmdTimeout
  <2>1. UNCHANGED box /\ cmd' = [cmd EXCEPT !.waiting = FALSE] BY <1>9 DEF CmdTimeout
  <2>2. cmd' = [at |-> cmd.at, rev |-> cmd.rev, to |-> cmd.to, waiting |-> FALSE] BY <1>2, <2>1, Zenon
  <2>3. cmd'.at = cmd.at /\ cmd'.rev = cmd.rev /\ cmd'.to = cmd.to BY <2>2
  <2>4. UNCHANGED Writes BY <2>1, <2>3 DEF Writes, Writing
  <2>5. UNCHANGED InForce BY <1>1, <2>1, Zenon DEF InForce, RevOf
  <2> QED BY <2>4, <2>5 DEF Switched
<1>10. CASE CmdEnds
  <2>1. UNCHANGED box /\ cmd' = NoCmd BY <1>10, Zenon DEF CmdEnds
  <2>2. cmd'.at = "none" BY <1>4, <2>1, Zenon
  <2>3. ~Writing BY <1>10 DEF CmdEnds, Writing
  <2> QED BY <1>5, <2>1, <2>2, <2>3, Zenon DEF Writing
<1>11. CASE Deliver
  <2>1. PICK x, l : /\ cmd' = [cmd EXCEPT !.at = x] /\ box' = [box EXCEPT !.lock = l]
                    /\ x = IF box.active THEN "writing" ELSE "replied"
    BY <1>11, Zenon DEF Deliver
  <2>2. cmd' = [at |-> x, rev |-> cmd.rev, to |-> cmd.to, waiting |-> cmd.waiting] BY <1>2, <2>1
  <2>3. box' = [session |-> box.session, up |-> box.up, active |-> box.active,
                lock |-> l, owned |-> box.owned]
    BY <1>3, <2>1, Zenon
  <2>4. cmd'.at = x /\ cmd'.rev = cmd.rev /\ cmd'.to = cmd.to BY <2>2, Zenon
  <2>5. box'.up = box.up /\ box'.session = box.session BY <2>3
  <2>6. RevOf(box.session)' = RevOf(box.session) BY <1>1, <2>5, Zenon DEF RevOf
  <2>7. UNCHANGED InForce BY <2>5, <2>6, SameProducer
  <2>8. box.up /\ box.session = cmd.to /\ cmd.at = "wire" BY <1>11, Zenon DEF Deliver
  <2>9. CASE ~box.active
    <3>1. ~Writing /\ ~Writing' BY <2>1, <2>4, <2>8, <2>9, SMTT(20), Zenon DEF Writing
    <3> QED BY <2>5, <2>6, <3>1, SameProducer DEF Switched
  <2>10. CASE box.active
    <3>1. PICK s \in 1..Len(sess) : s = box.session
      BY <2>10, Zenon DEF ClockInv, BoxOK, Confirmed
    <3>2. RevOf(s) # 0 BY <3>1, RevIsRevision, Zenon DEF ClockInv
    <3>3. InForce # 0 BY <2>8, <3>1, <3>2, Zenon DEF InForce
    <3>4. cmd.rev = RevOf(cmd.to) BY <2>8 DEF ClockInv, CmdOK
    <3>5. Writes' = {cmd.rev} BY <2>1, <2>4, <2>5, <2>8, <2>10, Zenon DEF Writes, Writing
    <3>6. cmd.rev = InForce BY <2>8, <3>4, Zenon DEF InForce
    <3> QED BY <2>7, <3>3, <3>5, <3>6, Zenon DEF Switched
  <2> QED BY <2>9, <2>10
<1>12. CASE WriteDone
  <2>1. cmd' = [cmd EXCEPT !.at = "replied"] /\ box' = [box EXCEPT !.lock = "free"]
    BY <1>12 DEF WriteDone
  <2>2. cmd' = [at |-> "replied", rev |-> cmd.rev, to |-> cmd.to, waiting |-> cmd.waiting]
    BY <1>2, <2>1
  <2>3. box' = [session |-> box.session, up |-> box.up, active |-> box.active,
                lock |-> "free", owned |-> box.owned]
    BY <1>3, <2>1, Zenon
  <2>4. cmd'.at = "replied" BY <2>2, Zenon
  <2>5. box'.up = box.up /\ box'.session = box.session BY <2>3, Zenon
  <2>6. RevOf(box.session)' = RevOf(box.session) BY <1>1, <2>5 DEF RevOf
  <2>7. Writes' = {} BY <2>4 DEF Writes, Writing
  <2> QED BY <2>5, <2>6, <2>7, SameProducer DEF Switched
<1> QED BY <1>6, <1>7, <1>8, <1>9, <1>10, <1>11, <1>12 DEF CommandNext

LEMMA StartSwitches ==
    ASSUME ClockInv, Start
    PROVE  Switched
<1>1. /\ At("start") /\ UNCHANGED <<sess, cmd>>
      /\ box' = box \/ (box = NoBox /\ \E up \in BOOLEAN : box' = NewBox(up))
  <2>1. TRUE \in BOOLEAN OBVIOUS
  <2> QED BY <2>1, StartEnds, Zenon
<1>2. CASE box' = box BY <1>1, <1>2, GoneProducer, Zenon DEF ClockInv
<1>3. CASE box = NoBox /\ \E up \in BOOLEAN : box' = NewBox(up)
  <2>1. PICK up \in BOOLEAN : box' = NewBox(up) BY <1>3, Zenon
  <2>2. box'.up = up /\ box'.session = record BY <2>1, Zenon DEF NewBox
  <2>3. Now = "start" BY <1>1, AtStep, Zenon DEF ClockInv
  <2>4. cmd.to # record /\ record # 0 BY <2>3, Zenon DEF ClockInv, PlaceOK, OneConfiguration
  <2>5. InForce = 0 /\ Writes = {} BY <1>3, BoxNames, Zenon DEF InForce, Writes, Writing
  <2>6. Writes' = {} BY <1>1, <2>2, <2>4 DEF Writes, Writing
  <2>7. PICK r \in 1..Len(sess) : r = record BY <2>4 DEF ClockInv, Journal
  <2>8. RevOf(r) \in Revisions BY <2>7, RevIsRevision, Zenon DEF ClockInv
  <2>9. RevOf(box.session)' = RevOf(r) BY <1>1, <2>2, <2>7, Zenon DEF RevOf
  <2>10. InForce' \in Revisions \/ InForce' = 0 BY <2>2, <2>8, <2>9 DEF InForce
  <2> QED BY <2>5, <2>6, <2>10, Zenon DEF Switched
<1> QED BY <1>1, <1>2, <1>3, SMTT(20), Zenon

\* The steps that write sessions keep the revision of every session there is.
LEMMA DiskSwitches ==
    ASSUME ClockInv, Configure \/ Verify
    PROVE  Switched
<1>1. UNCHANGED <<box, cmd>> BY Zenon DEF Configure, Verify
<1>2. CASE Configure
  <2>1. At("configure") BY <1>2, Zenon DEF Configure
  <2>2. Now = "configure" BY <2>1, AtStep, Zenon DEF ClockInv
  <2>3. box = NoBox /\ box' = NoBox BY <1>1, <2>2, Zenon DEF ClockInv, PlaceOK
  <2> QED BY <2>3, BoxNames, Zenon DEF Switched, InForce, Writes, Writing
<1>3. CASE Verify
  <2>1. At("verify") /\ (Receipt \/ UNCHANGED sess) BY <1>3, Zenon DEF Verify
  <2>2. Now = "verify" BY <2>1, AtStep, Zenon DEF ClockInv
  <2>3. record # 0 /\ Journal BY <2>2, Zenon DEF ClockInv, PlaceOK, OneConfiguration
  <2>4. PICK s \in 0..Len(sess) : s = box.session BY BoxIs, Zenon DEF ClockInv
  <2>5. RevOf(s)' = RevOf(s)
    <3>1. CASE UNCHANGED sess BY <3>1, Zenon DEF RevOf
    <3>2. CASE Receipt
      <4>1. Grown BY <2>3, <3>2, ReceiptGrows, Zenon
      <4> QED BY <4>1 DEF Grown, RevOf
    <3> QED BY <2>1, <3>1, <3>2, Zenon
  <2>6. RevOf(box.session)' = RevOf(box.session) BY <1>1, <2>4, <2>5 DEF RevOf
  <2> QED BY <1>1, <2>6, SameProducer DEF Switched
<1> QED BY <1>2, <1>3

LEMMA ControllerSwitches ==
    ASSUME ClockInv, ControllerNext
    PROVE  Switched
<1>1. CASE Configure \/ Verify BY <1>1, DiskSwitches
<1>2. CASE Start BY <1>2, StartSwitches, Zenon
<1>3. CASE Discover \/ Stop \/ Quiesce
  <2>1. UNCHANGED <<sess, cmd>> BY <1>3, Zenon DEF Discover, Stop, Quiesce, diskVars
  <2>2. box' \in {box, NoBox, Halted, Idled}
    <3>1. CASE StopOk \/ StopFails BY <3>1, StopEnds
    <3>2. CASE box' = box \/ box' = Idled BY <3>2
    <3>3. Quiesce => box' = box \/ box' = Idled BY Zenon DEF Quiesce, Idled
    <3>4. Discover \/ Stop => StopOk \/ StopFails \/ box' = box BY Zenon DEF Discover, Stop
    <3> QED BY <1>3, <3>1, <3>2, <3>3, <3>4, Zenon
  <2> QED BY <2>1, <2>2, GoneProducer DEF ClockInv
<1>4. CASE Resume
  <2>1. UNCHANGED <<sess, cmd>> BY <1>4 DEF Resume, diskVars
  <2>2. box' = box \/ box' = [box EXCEPT !.active = TRUE] BY <1>4, Zenon DEF Resume
  <2>3. box = [session |-> box.session, up |-> box.up, active |-> box.active,
               lock |-> box.lock, owned |-> box.owned]
    BY BoxIs DEF ClockInv
  <2>4. box'.up = box.up /\ box'.session = box.session
    <3>1. CASE box' = box BY <3>1, Zenon
    <3>2. CASE box' = [box EXCEPT !.active = TRUE]
      <4>1. box' = [session |-> box.session, up |-> box.up, active |-> TRUE,
                    lock |-> box.lock, owned |-> box.owned]
        BY <2>3, <3>2, Zenon
      <4> QED BY <4>1
    <3> QED BY <2>2, <3>1, <3>2
  <2>5. RevOf(box.session)' = RevOf(box.session) BY <2>1, <2>4 DEF RevOf
  <2> QED BY <2>1, <2>4, <2>5, SameProducer DEF Switched
<1>5. CASE FirstHold \/ Sync \/ Hold \/ Settle \/ Paused \/ Drain \/ Drained \/ Commit \/ Open
           \/ Shutdown
  <2>1. UNCHANGED <<sess, cmd, box>>
    BY <1>5, Zenon DEF FirstHold, Sync, Hold, Settle, Paused, Drain, Drained, Commit, Open, Shutdown,
                diskVars
  <2> QED BY <2>1, GoneProducer DEF ClockInv
<1> QED BY <1>1, <1>2, <1>3, <1>4, <1>5 DEF ControllerNext

LEMMA EndSwitches ==
    ASSUME ClockInv, GatewayEnds
    PROVE  Switched
<1>1. UNCHANGED <<sess, box>> BY Zenon DEF GatewayEnds, diskVars
<1>2. UNCHANGED InForce BY <1>1, Zenon DEF InForce, RevOf
<1>3. cmd = [at |-> cmd.at, rev |-> cmd.rev, to |-> cmd.to, waiting |-> cmd.waiting]
  BY CmdIs DEF ClockInv
<1>4. CASE cmd.at \in {"wire", "writing"}
  <2>1. cmd' = [cmd EXCEPT !.waiting = FALSE] BY <1>4 DEF GatewayEnds
  <2>2. cmd' = [at |-> cmd.at, rev |-> cmd.rev, to |-> cmd.to, waiting |-> FALSE] BY <1>3, <2>1, Zenon
  <2>3. cmd'.at = cmd.at /\ cmd'.rev = cmd.rev /\ cmd'.to = cmd.to BY <2>2
  <2>4. UNCHANGED Writes BY <1>1, <2>3, Zenon DEF Writes, Writing
  <2> QED BY <1>2, <2>4 DEF Switched
<1>5. CASE cmd.at \notin {"wire", "writing"}
  <2>1. cmd' = [at |-> "none", rev |-> 0, to |-> 0, waiting |-> FALSE]
    BY <1>5 DEF GatewayEnds, NoCmd
  <2>2. cmd'.at = "none" BY <2>1, Zenon
  <2>3. UNCHANGED Writes BY <1>5, <2>2 DEF Writes, Writing
  <2> QED BY <1>2, <2>3 DEF Switched
<1> QED BY <1>4, <1>5

LEMMA ClockSwitches ==
    ASSUME ClockInv, [ClockNext]_clockVars
    PROVE  Switched
<1>1. CASE ProducerNext BY <1>1, ProducerSwitches DEF ClockInv
<1>2. CASE CommandNext BY <1>2, CommandSwitches
<1>3. CASE ControllerNext BY <1>3, ControllerSwitches, Zenon
<1>4. CASE GatewayEnds BY <1>4, EndSwitches
<1>5. CASE WorkerNext \/ Publish \/ RequestStop \/ LeaseExpires \/ UNCHANGED clockVars
  <2>1. UNCHANGED <<sess, cmd, box>>
    BY <1>5, Zenon DEF WorkerNext, WorkerTakes, WorkerDone, Publish, RequestStop, LeaseExpires, clockVars,
                diskVars
  <2> QED BY <2>1, GoneProducer, SMTT(20), Zenon DEF ClockInv
<1> QED BY <1>1, <1>2, <1>3, <1>4, <1>5 DEF ClockNext

\* The transaction, with every failure, restart and late command, implements the
\* switchover the equipment is promised: one producer is gone before the next one
\* starts, and a write has the revision of the producer that carries it out.
THEOREM EquipmentSeesWholeConfigurations == ClockSpec => ImplementsSwitchover
<1>1. ClockInit => inForce!SwitchInit
  <2> SUFFICES ASSUME ClockInit PROVE InForce = 0 /\ Writes = {}
    BY Zenon DEF inForce!SwitchInit, InForce, Writes, Writing
  <2>1. box \in {NoBox, Stranger} /\ cmd = NoCmd BY Zenon DEF ClockInit
  <2>2. box.session = 0 BY <2>1, BoxNames, SMTT(20), Zenon
  <2>3. cmd.at = "none" BY <2>1, SMTT(20), Zenon DEF NoCmd
  <2> QED BY <2>2, <2>3, Zenon DEF InForce, Writes, Writing, RevOf
<1>2. ASSUME ClockInv, [ClockNext]_clockVars
      PROVE  [inForce!SwitchNext]_(inForce!switchVars)
  <2>1. Switched BY <1>2, ClockSwitches, Zenon
  <2> QED BY <2>1, Zenon DEF Switched, InForce, Writes, Writing, inForce!SwitchNext, inForce!Install,
                      inForce!Withdraw, inForce!BeginWrite, inForce!EndWrite, inForce!switchVars
<1> QED BY <1>1, <1>2, ClockHolds, PTL DEF ClockSpec, ImplementsSwitchover, inForce!SwitchSpec
-----------------------------------------------------------------------------
(* The revision reported as applied.                                       *)

\* From the configuration on, the resolver has what the transaction installs.
Installed == Now \in {"start", "verify", "resume", "commit", "open"} => resolver = Wanted

\* A revision is only reported between transactions, and all of the gateway has it.
Reported ==
    /\ mode \in {"apply", "rollback", "restore", "fail"} => initialized
    /\ applied # 0 =>
          /\ initialized /\ mode \in {"idle", "shutdown", "stopped", "exited"}
          /\ mode # "idle" => stopping
          /\ record # 0 /\ active = record
          /\ resolver = applied /\ RevOf(record) = applied
          /\ ~stopping => ~held

\* What is reported as applied is in force: the resolver, the producer's record and
\* active.json have that revision, and unless a stop was requested no transaction is
\* under way and the gate is open.
AppliedIsInForce ==
    applied # 0 =>
        /\ resolver = applied /\ RevOf(record) = applied /\ RevOf(active) = applied
        /\ stopping \/ (mode = "idle" /\ ~held)

\* Holding, stopping and draining.
LEMMA ClearingReports ==
    ASSUME ClockInv, Installed, Reported, NEW s, At(s), s \notin Installing,
           Done \/ \E timeUp \in BOOLEAN : Fail(timeUp),
           UNCHANGED <<stopping, resolver, record, active, sess>>
    PROVE  Installed' /\ Reported'
<1>1. Planned /\ Now = s /\ mode \in Busy /\ s \in Steps BY AtStep, Zenon DEF ClockInv
<1>2. applied # 0 => mode = "shutdown" /\ stopping BY <1>1, Zenon DEF Reported, Busy
<1>3. RevOf(record)' = RevOf(record) BY Zenon DEF RevOf
<1>4. CASE Done
  <2>1. Advanced(s) /\ (initialized => initialized') /\ UNCHANGED applied
    BY <1>1, <1>4, DoneMoves, DoneReports DEF Installing
  <2>2. Now' \notin {"start", "verify", "resume", "commit", "open"}
    BY <1>1, <2>1, StepsAre, Zenon DEF Advanced, Then, Installing
  <2>3. /\ mode' \in {"apply", "rollback", "restore", "fail"}
            => mode \in {"apply", "rollback", "restore", "fail"}
        /\ mode = "shutdown" => mode' \in {"shutdown", "stopped"}
    BY <2>1, Zenon DEF Advanced
  <2> QED BY <1>2, <1>3, <2>1, <2>2, <2>3, Zenon DEF Installed, Reported
<1>5. CASE \E timeUp \in BOOLEAN : Fail(timeUp)
  <2>1. PICK timeUp : Fail(timeUp) BY <1>5
  <2>2. Retreated BY <1>1, <2>1, FailMoves, Zenon
  <2>3. Now' \notin {"start", "verify", "resume", "commit", "open"} BY <2>2, Zenon DEF Retreated
  <2>4. /\ UNCHANGED <<applied, initialized>>
        /\ mode' \in {"rollback", "fail"} => mode \in {"apply", "rollback", "restore", "fail"}
        /\ mode = "shutdown" => mode' \in {"shutdown", "exited"}
        /\ mode' \notin {"apply", "restore"}
    BY <1>1, <2>1, FailReports, Zenon
  <2> QED BY <1>2, <1>3, <2>3, <2>4, Zenon DEF Installed, Reported
<1> QED BY <1>4, <1>5, Zenon

\* Installing, up to the gate: nothing is reported.
LEMMA InstallingReports ==
    ASSUME ClockInv, Installed, Reported, NEW s, At(s), s \in Installing, s # "open",
           \/ Done /\ resolver' = IF s = "configure" THEN Wanted ELSE resolver
           \/ \E timeUp \in BOOLEAN : Fail(timeUp)
    PROVE  Installed' /\ Reported'
<1>1. Planned /\ Now = s /\ mode \in {"apply", "restore"} /\ mode \in Busy
  BY AtStep, Zenon DEF ClockInv
<1>2. applied = 0 /\ initialized BY <1>1, Zenon DEF Reported
<1>3. CASE Done /\ resolver' = IF s = "configure" THEN Wanted ELSE resolver
  <2>1. Advanced(s) /\ initialized' /\ UNCHANGED <<applied, good, desired>>
    BY <1>1, <1>2, <1>3, DoneMoves, DoneReports
  <2>2. s # EndOf(mode) BY <1>1, Zenon DEF EndOf
  <2>3. mode' = mode BY <2>1, <2>2, Zenon DEF Advanced
  <2>4. Wanted' = Wanted BY <2>1, <2>3, Zenon DEF Wanted
  <2>5. resolver' = Wanted' BY <1>1, <1>3, <2>4, Zenon DEF Installed, Installing
  <2> QED BY <1>2, <2>1, <2>5, Zenon DEF Installed, Reported
<1>4. CASE \E timeUp \in BOOLEAN : Fail(timeUp)
  <2>1. PICK timeUp : Fail(timeUp) BY <1>4, Zenon
  <2>2. Retreated BY <1>1, <2>1, FailMoves, Zenon
  <2>3. Now' \notin {"start", "verify", "resume", "commit", "open"} BY <2>2, Zenon DEF Retreated
  <2>4. UNCHANGED <<applied, initialized>> BY <1>1, <2>1, FailReports
  <2> QED BY <1>2, <2>3, <2>4, Zenon DEF Installed, Reported
<1> QED BY <1>3, <1>4, Zenon

\* The gate opens, and the revision is reported.
LEMMA OpenReports ==
    ASSUME ClockInv, Installed, Reported, Open
    PROVE  Installed' /\ Reported'
<1>1. At("open") /\ UNCHANGED <<stopping, resolver, record, active, sess>>
  BY Zenon DEF Open, StepKeeps, diskVars
<1>2. Planned /\ Now = "open" /\ mode \in {"apply", "restore"} /\ mode \in Busy
  BY <1>1, AtStep DEF ClockInv, Installing
<1>3. applied = 0 /\ initialized BY <1>2, Zenon DEF Reported
<1>4. RevOf(record)' = RevOf(record) BY <1>1, Zenon DEF RevOf
<1>5. CASE Done /\ ~stopping /\ held' = FALSE
  <2>1. Advanced("open") /\ initialized' /\ applied' = Wanted
    BY <1>1, <1>2, <1>3, <1>5, DoneMoves, DoneReports
  <2>2. Now' = "none" /\ mode' = "idle" BY <1>2, <2>1, Zenon DEF Advanced, EndOf
  <2>3. record # 0 /\ active = record /\ resolver = RevOf(record) /\ resolver = Wanted
    BY <1>2, Zenon DEF ClockInv, PlaceOK, OneConfiguration, Installed
  <2> QED BY <1>1, <1>4, <1>5, <2>1, <2>2, <2>3, Zenon DEF Installed, Reported
<1>6. CASE Fail(FALSE)
  <2>1. Retreated BY <1>1, <1>2, <1>6, FailMoves, Zenon
  <2>2. Now' \notin {"start", "verify", "resume", "commit", "open"} BY <2>1 DEF Retreated
  <2>3. UNCHANGED <<applied, initialized>> BY <1>2, <1>6, FailReports, Zenon
  <2> QED BY <1>3, <2>2, <2>3 DEF Installed, Reported
<1> QED BY <1>5, <1>6, Zenon DEF Open

\* The producer, the commands, the worker and Building OS report nothing.
LEMMA NothingReported ==
    ASSUME Installed, Reported,
           UNCHANGED <<mode, todo, desired, applied, good, initialized, resolver, record, active,
                       sess, held, stopping>>
    PROVE  Installed' /\ Reported'
<1>1. Now' = Now /\ Wanted' = Wanted BY Zenon DEF Now, Wanted
<1>2. RevOf(record)' = RevOf(record) BY DEF RevOf
<1> QED BY <1>1, <1>2, Zenon DEF Installed, Reported

LEMMA ControllerReports ==
    ASSUME ClockInv, Installed, Reported, ControllerNext
    PROVE  Installed' /\ Reported'
<1> DEFINE Ends == Done \/ \E timeUp \in BOOLEAN : Fail(timeUp)
<1>1. CASE FirstHold \/ Sync \/ Shutdown
  <2>1. /\ UNCHANGED <<resolver, record, active, sess, stopping, initialized>>
        /\ mode = "idle"
        /\ \/ ~initialized /\ mode' = "first" /\ UNCHANGED applied
           \/ initialized /\ mode' = "apply" /\ applied' = 0
           \/ stopping /\ mode' = "shutdown" /\ UNCHANGED applied
    BY <1>1 DEF FirstHold, Sync, Shutdown, diskVars, coreVars
  <2>2. Head(todo') = "hold" /\ Now' \in {"none", "hold"}
    <3>1. Head(todo') = "hold"
      BY <1>1, Plans, Zenon DEF FirstHold, Sync, Shutdown, ShutdownSteps
    <3> QED BY <3>1 DEF Now
  <2>3. RevOf(record)' = RevOf(record) BY <2>1 DEF RevOf
  <2> QED BY <2>1, <2>2, <2>3, Zenon DEF Installed, Reported
<1>2. TRUE \in BOOLEAN /\ FALSE \in BOOLEAN /\ NoTime \in BOOLEAN
  <2>1. NoTime \in BOOLEAN BY Zenon DEF NoTime
  <2> QED BY <2>1, Zenon
<1>3. ASSUME NEW s \in {"hold", "settle", "discover", "quiesce", "paused", "stop", "drain", "drained"},
             At(s), Ends, UNCHANGED <<stopping, resolver, record, active, sess>>
      PROVE  Installed' /\ Reported'
  BY <1>3, ClearingReports DEF Installing
<1>4. CASE Hold \/ Settle \/ Drain
  BY <1>2, <1>3, <1>4, Zenon DEF Hold, Settle, Drain, StepKeeps, diskVars, coreVars
<1>5. StopOk => Ends BY Zenon DEF StopOk
<1>6. StopFails => Ends BY <1>2, Zenon DEF StopFails
<1>7. CASE Discover \/ Quiesce \/ Paused
  BY <1>2, <1>3, <1>5, <1>6, <1>7, Zenon DEF Discover, Quiesce, Paused, StepKeeps, diskVars, coreVars
<1>8. CASE Stop \/ Drained
  BY <1>2, <1>3, <1>5, <1>6, <1>8, Zenon DEF Stop, Drained, StepKeeps, diskVars, coreVars
<1>9. ASSUME NEW s \in {"configure", "start", "verify", "resume", "commit"}, At(s),
             \/ Done /\ resolver' = IF s = "configure" THEN Wanted ELSE resolver
             \/ \E timeUp \in BOOLEAN : Fail(timeUp)
      PROVE  Installed' /\ Reported'
  BY <1>9, InstallingReports DEF Installing
<1>10. CASE Configure BY <1>2, <1>9, <1>10, Zenon DEF Configure
<1>11. Answers \in BOOLEAN /\ (~Answers) \in BOOLEAN
  <2>1. Answers \in BOOLEAN BY Zenon DEF Answers
  <2>2. (~Answers) \in BOOLEAN BY Zenon
  <2> QED BY <2>1, <2>2, Zenon
<1>12. CASE Start BY <1>2, <1>9, <1>12, Zenon DEF Start
<1>13. CASE Verify BY <1>2, <1>9, <1>11, <1>13, Zenon DEF Verify
<1>14. CASE Resume BY <1>2, <1>9, <1>11, <1>14, Zenon DEF Resume, coreVars
<1>15. CASE Commit BY <1>2, <1>9, <1>15, Zenon DEF Commit, coreVars
<1>16. CASE Open BY <1>16, OpenReports
<1> QED
  BY <1>1, <1>4, <1>7, <1>8, <1>10, <1>12, <1>13, <1>14, <1>15, <1>16, Zenon DEF ControllerNext

\* A stop, the end of the lease and the end of the process.
LEMMA EndReports ==
    ASSUME Installed, Reported, RequestStop \/ LeaseExpires \/ GatewayEnds
    PROVE  Installed' /\ Reported'
<1>1. CASE RequestStop
  <2>1. /\ UNCHANGED <<mode, todo, desired, applied, good, initialized, resolver, record, active, sess>>
        /\ stopping'
    BY <1>1, Zenon DEF RequestStop, diskVars, ctlVars
  <2>2. Now' = Now /\ Wanted' = Wanted BY <2>1, Zenon DEF Now, Wanted
  <2>3. RevOf(record)' = RevOf(record) BY <2>1, Zenon DEF RevOf
  <2> QED BY <2>1, <2>2, <2>3, Zenon DEF Installed, Reported
<1>2. CASE LeaseExpires
  <2>1. /\ UNCHANGED <<applied, initialized, resolver, record, active, sess, stopping>>
        /\ stopping /\ mode' = "exited" /\ todo' = << >>
    BY <1>2 DEF LeaseExpires, diskVars, coreVars
  <2>2. Now' = "none" BY <2>1, Zenon DEF Now
  <2>3. RevOf(record)' = RevOf(record) BY <2>1, Zenon DEF RevOf
  <2> QED BY <2>1, <2>2, <2>3, Zenon DEF Installed, Reported
<1>3. CASE GatewayEnds
  <2>1. applied' = 0 /\ mode' = "idle" /\ todo' = << >> BY <1>3 DEF GatewayEnds
  <2>2. Now' = "none" BY <2>1 DEF Now
  <2> QED BY <2>1, <2>2 DEF Installed, Reported
<1> QED BY <1>1, <1>2, <1>3, Zenon

\* Controller.AppliedRevision names a revision only after the last step of an apply, a
\* rollback or a restore, Open, has succeeded: from then until the next transaction the
\* resolver, the producer's record and active.json have that revision and the gate is
\* open, whatever failed, was rolled back or crashed before.  A transaction that is under
\* way or has failed altogether reports nothing.
THEOREM ReportedRevisionIsInForce == ClockSpec => []AppliedIsInForce
<1> DEFINE I == ClockInv /\ Installed /\ Reported
<1>1. ClockInit => I
  <2>1. ClockInit => Installed /\ Reported BY DEF ClockInit, Installed, Reported, Now
  <2> QED BY <2>1, ClockStart, Zenon
<1>2. I /\ [ClockNext]_clockVars => I'
  <2> SUFFICES ASSUME ClockInv, Installed, Reported, [ClockNext]_clockVars
               PROVE  ClockInv' /\ Installed' /\ Reported'
    OBVIOUS
  <2>1. ClockInv' BY ClockStep, Zenon
  <2>2. CASE ProducerNext \/ WorkerNext \/ Publish \/ UNCHANGED clockVars
    <3>1. UNCHANGED <<mode, todo, desired, applied, good, initialized, resolver, record, active,
                      sess, held, stopping>>
      BY <2>2, Zenon DEF ProducerNext, PollBegins, PollPublishes, BoxExits, WorkerNext, WorkerTakes,
                  WorkerDone, Publish, clockVars, diskVars, ctlVars, coreVars
    <3> QED BY <2>1, <3>1, NothingReported
  <2>3. CASE CommandNext
    <3>1. CmdStep
      BY <2>3, Zenon DEF CommandNext, Enter, Lookup, Send, Deliver, WriteDone, CmdTimeout, CmdEnds
    <3>2. UNCHANGED <<mode, todo, desired, applied, good, initialized, resolver, record, active,
                      sess, held, stopping>>
      BY <3>1 DEF CmdStep, diskVars, ctlVars, coreVars
    <3> QED BY <2>1, <3>2, NothingReported
  <2>4. CASE ControllerNext BY <2>1, <2>4, ControllerReports, Zenon
  <2>5. CASE RequestStop \/ LeaseExpires \/ GatewayEnds BY <2>1, <2>5, EndReports, Zenon
  <2> QED BY <2>2, <2>3, <2>4, <2>5, Zenon DEF ClockNext
<1>3. I => AppliedIsInForce BY DEF Reported, AppliedIsInForce
<1> QED BY <1>1, <1>2, <1>3, PTL DEF ClockSpec
=============================================================================
