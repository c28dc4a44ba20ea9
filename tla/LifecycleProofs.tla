-------------------------- MODULE LifecycleProofs ---------------------------
(***************************************************************************)
(* Images, the registry, rollbacks and downtime, for every catalog, set of *)
(* images and number of failures.                                          *)
(*                                                                         *)
(* The registry and the operation that holds the lock only name images     *)
(* that passed, or one that is still to be verified before it is           *)
(* registered; a container is made from what the registry names            *)
(* (ImagesInv).  What the daemon has is what the registry says, but for    *)
(* the calls the operation has left (BoxInv).                              *)
(***************************************************************************)
EXTENDS Lifecycle, TLAPS

Listed(i) == \E m \in Validated : i \in {m.image, Tag}
Trusted(i) ==
    \/ i \in upgraded
    \/ \E m \in Validated : i \in {m.image, Tag} /\ (m.required => i \in Signed)
NoneOrTrusted(i) == i = None \/ Trusted(i)

Has(t, c) == \E i \in DOMAIN t : t[i] = c

\* The signature is verified before the registry is told.
VerifyFirst(t) == \A i, j \in DOMAIN t : t[i] = "register" /\ t[j] = "verify" => j < i

\* Nothing but the image is prepared before the registry is told.
OnlyPrepares(t) == \A i, j \in DOMAIN t : t[i] = "register" /\ j < i => t[j] \in {"pull", "verify"}

BoxesOK ==
    /\ made \in Nat
    /\ boxes \subseteq [cid : Nat, image : Refs, up : BOOLEAN]
    /\ \A b \in boxes : Trusted(b.image)

EntryOK ==
    /\ entry = [spec |-> entry.spec, cid |-> entry.cid, running |-> entry.running]
    /\ entry.spec \in Specs
    /\ NoneOrTrusted(entry.spec.image) /\ NoneOrTrusted(entry.spec.prev)
    /\ Known => entry.spec.image # None

\* An operation registers an image that passed, or one that it verifies first.
Vetted(j) ==
    Has(j.todo, "register") =>
        /\ j.spec.image # None
        /\ Trusted(j.spec.image) \/ (Has(j.todo, "verify") /\ Listed(j.spec.image))

IsJob(j) ==
    /\ j = [op |-> j.op, todo |-> j.todo, cid |-> j.cid, spec |-> j.spec, old |-> j.old]
    /\ j.todo \in Seq(Calls) /\ j.spec \in Specs
    /\ j # NoJob => j.todo # << >>
    /\ NoneOrTrusted(j.spec.prev) /\ NoneOrTrusted(j.old) /\ j.old \in AnyRef
    /\ j.op = "update" \/ Has(j.todo, "restore") => j.old # None
    /\ Vetted(j) /\ VerifyFirst(j.todo)

\* Only an install runs without an entry, until it registers one.
Installing(j) ==
    j # NoJob /\ ~Known => j.op = "install" /\ Has(j.todo, "register") /\ OnlyPrepares(j.todo)

ImagesInv == BoxesOK /\ EntryOK /\ IsJob(job) /\ Installing(job)

-----------------------------------------------------------------------------
(* Lists of calls.                                                         *)

\* The calls of two lists, one after the other.
LEMMA Concat ==
    ASSUME NEW s \in Seq(Calls), NEW t \in Seq(Calls)
    PROVE  /\ s \o t \in Seq(Calls)
           /\ \A i \in DOMAIN (s \o t) :
                \/ i \in DOMAIN s /\ (s \o t)[i] = s[i]
                \/ i - Len(s) \in DOMAIN t /\ (s \o t)[i] = t[i - Len(s)] /\ i > Len(s)
           /\ \A i \in DOMAIN s : i \in DOMAIN (s \o t) /\ (s \o t)[i] = s[i] /\ i <= Len(s)
           /\ \A i \in DOMAIN t : i + Len(s) \in DOMAIN (s \o t) /\ (s \o t)[i + Len(s)] = t[i]
<1>1. s \o t \in Seq(Calls) OBVIOUS
<1>2. Len(s) \in Nat /\ Len(t) \in Nat /\ Len(s \o t) = Len(s) + Len(t) OBVIOUS
<1>3. DOMAIN (s \o t) = 1..(Len(s) + Len(t)) /\ DOMAIN s = 1..Len(s) /\ DOMAIN t = 1..Len(t)
  BY <1>1, <1>2
<1>4. \A i \in 1..(Len(s) + Len(t)) :
        (s \o t)[i] = IF i <= Len(s) THEN s[i] ELSE t[i - Len(s)]
  OBVIOUS
<1> QED BY <1>1, <1>2, <1>3, <1>4

\* What the two lists have, and have not.
LEMMA ConcatHas ==
    ASSUME NEW s \in Seq(Calls), NEW t \in Seq(Calls)
    PROVE  \A c : Has(s \o t, c) <=> Has(s, c) \/ Has(t, c)
<1> TAKE c
<1>1. Has(s \o t, c) => Has(s, c) \/ Has(t, c) BY Concat DEF Has
<1>2. Has(s, c) => Has(s \o t, c) BY Concat DEF Has
<1>3. Has(t, c) => Has(s \o t, c)
  <2> SUFFICES ASSUME NEW i \in DOMAIN t, t[i] = c PROVE Has(s \o t, c) BY DEF Has
  <2>1. i + Len(s) \in DOMAIN (s \o t) /\ (s \o t)[i + Len(s)] = t[i] BY Concat
  <2> QED BY <2>1 DEF Has
<1> QED BY <1>1, <1>2, <1>3

\* Calls that follow and neither verify nor register leave the order as it is.
LEMMA ConcatOrder ==
    ASSUME NEW s \in Seq(Calls), NEW t \in Seq(Calls), ~Has(t, "verify")
    PROVE  /\ VerifyFirst(s) => VerifyFirst(s \o t)
           /\ OnlyPrepares(s) /\ ~Has(t, "register") => OnlyPrepares(s \o t)
<1>1. ASSUME VerifyFirst(s) PROVE VerifyFirst(s \o t)
  <2> SUFFICES ASSUME NEW i \in DOMAIN (s \o t), NEW j \in DOMAIN (s \o t),
                      (s \o t)[i] = "register", (s \o t)[j] = "verify"
               PROVE  j < i
    BY DEF VerifyFirst
  <2>1. j \in DOMAIN s /\ s[j] = "verify" /\ j <= Len(s) BY Concat DEF Has
  <2>2. CASE i \in DOMAIN s /\ (s \o t)[i] = s[i] BY <1>1, <2>1, <2>2 DEF VerifyFirst
  <2>3. CASE i > Len(s) BY <2>1, <2>3, Concat
  <2> QED BY <2>2, <2>3, Concat
<1>2. ASSUME OnlyPrepares(s), ~Has(t, "register") PROVE OnlyPrepares(s \o t)
  <2> SUFFICES ASSUME NEW i \in DOMAIN (s \o t), NEW j \in DOMAIN (s \o t),
                      (s \o t)[i] = "register", j < i
               PROVE  (s \o t)[j] \in {"pull", "verify"}
    BY DEF OnlyPrepares
  <2>1. i \in DOMAIN s /\ s[i] = "register" /\ i <= Len(s) BY <1>2, Concat DEF Has
  <2>2. j \in DOMAIN s /\ (s \o t)[j] = s[j] BY <2>1, Concat
  <2> QED BY <1>2, <2>1, <2>2 DEF OnlyPrepares
<1> QED BY <1>1, <1>2

\* The first call done, the others keep their order.
LEMMA TailOrder ==
    ASSUME NEW t \in Seq(Calls), t # << >>
    PROVE  /\ Tail(t) \in Seq(Calls) /\ Head(t) \in Calls /\ Has(t, Head(t))
           /\ \A c : Has(t, c) <=> Head(t) = c \/ Has(Tail(t), c)
           /\ VerifyFirst(t) => VerifyFirst(Tail(t))
           /\ OnlyPrepares(t) => OnlyPrepares(Tail(t))
           /\ Len(t) # 1 => Tail(t) # << >>
           /\ Len(t) = 1 => \A c : ~Has(Tail(t), c)
<1>1. /\ Head(t) = t[1] /\ 1 \in DOMAIN t /\ Tail(t) \in Seq(Calls) /\ Head(t) \in Calls
      /\ \A i \in DOMAIN Tail(t) : i + 1 \in DOMAIN t /\ Tail(t)[i] = t[i + 1]
      /\ \A i \in DOMAIN t : i = 1 \/ (i - 1 \in DOMAIN Tail(t) /\ Tail(t)[i - 1] = t[i])
      /\ (Len(t) # 1 => Tail(t) # << >>) /\ (Len(t) = 1 => DOMAIN Tail(t) = {})
  <2>1. /\ Head(t) = t[1] /\ 1 \in DOMAIN t /\ Tail(t) \in Seq(Calls) /\ Head(t) \in Calls
        /\ Len(Tail(t)) = Len(t) - 1 /\ Len(t) \in Nat /\ Len(t) # 0
        /\ \A i \in DOMAIN Tail(t) : i + 1 \in DOMAIN t /\ Tail(t)[i] = t[i + 1]
        /\ \A i \in DOMAIN t : i = 1 \/ (i - 1 \in DOMAIN Tail(t) /\ Tail(t)[i - 1] = t[i])
    OBVIOUS
  <2>2. Len(t) # 1 => Tail(t) # << >> BY <2>1
  <2>3. Len(t) = 1 => DOMAIN Tail(t) = {} BY <2>1
  <2> QED BY <2>1, <2>2, <2>3
<1>2. ASSUME NEW c PROVE Has(t, c) <=> Head(t) = c \/ Has(Tail(t), c)
  <2>1. ASSUME NEW i \in DOMAIN t, t[i] = c PROVE Head(t) = c \/ Has(Tail(t), c)
    <3>1. i = 1 \/ (i - 1 \in DOMAIN Tail(t) /\ Tail(t)[i - 1] = t[i]) BY <1>1
    <3> QED BY <1>1, <2>1, <3>1 DEF Has
  <2>2. ASSUME NEW i \in DOMAIN Tail(t), Tail(t)[i] = c PROVE Has(t, c)
    <3>1. i + 1 \in DOMAIN t /\ Tail(t)[i] = t[i + 1] BY <1>1
    <3> QED BY <2>2, <3>1 DEF Has
  <2> QED BY <1>1, <2>1, <2>2 DEF Has
<1>3. VerifyFirst(t) => VerifyFirst(Tail(t)) BY <1>1 DEF VerifyFirst
<1>4. OnlyPrepares(t) => OnlyPrepares(Tail(t)) BY <1>1 DEF OnlyPrepares
<1>5. Len(t) = 1 => \A c : ~Has(Tail(t), c) BY <1>1 DEF Has
<1> QED BY <1>1, <1>2, <1>3, <1>4, <1>5 DEF Has

-----------------------------------------------------------------------------
(* What the operations set out to do.                                      *)

\* A list of calls that tells the registry nothing of an image.
Harmless(t) ==
    /\ t \in Seq(Calls) /\ t # << >>
    /\ ~Has(t, "register") /\ ~Has(t, "verify") /\ ~Has(t, "restore")

\* A list of calls that registers the image.
Registers(t) ==
    /\ t \in Seq(Calls) /\ t # << >>
    /\ Has(t, "register") /\ ~Has(t, "restore") /\ VerifyFirst(t)

\* doStart, Stop and the parts of the other operations.
LEMMA Parts ==
    /\ Harmless(DoStart) /\ Harmless(<<"stop">>) /\ Harmless(<<"halt", "discard">>)
    /\ Harmless(<<"soak">>) /\ Harmless(<<"pull">>)
    /\ << >> \in Seq(Calls) /\ \A c : ~Has(<< >>, c)
<1>1. Harmless(DoStart) BY DEF Harmless, DoStart, Calls, Has
<1>2. Harmless(<<"stop">>) BY DEF Harmless, Calls, Has
<1>3. Harmless(<<"halt", "discard">>) BY DEF Harmless, Calls, Has
<1>4. Harmless(<<"soak">>) BY DEF Harmless, Calls, Has
<1>5. Harmless(<<"pull">>) BY DEF Harmless, Calls, Has
<1>6. << >> \in Seq(Calls) /\ \A c : ~Has(<< >>, c) BY DEF Has
<1> QED BY <1>1, <1>2, <1>3, <1>4, <1>5, <1>6

\* A list stays what it is when harmless calls follow.
LEMMA HarmlessFollows ==
    ASSUME NEW s \in Seq(Calls), NEW t, Harmless(t)
    PROVE  /\ s \o t \in Seq(Calls) /\ s \o t # << >>
           /\ \A c \in {"register", "verify", "restore"} : Has(s \o t, c) <=> Has(s, c)
           /\ Registers(s) => Registers(s \o t)
           /\ OnlyPrepares(s) => OnlyPrepares(s \o t)
<1>1. t \in Seq(Calls) /\ t # << >> BY DEF Harmless
<1>2. s \o t \in Seq(Calls) /\ s \o t # << >> BY <1>1
<1>3. \A c \in {"register", "verify", "restore"} : Has(s \o t, c) <=> Has(s, c)
  BY <1>1, ConcatHas DEF Harmless
<1>4. VerifyFirst(s) => VerifyFirst(s \o t) BY <1>1, ConcatOrder DEF Harmless
<1>5. OnlyPrepares(s) => OnlyPrepares(s \o t) BY <1>1, ConcatOrder DEF Harmless
<1> QED BY <1>2, <1>3, <1>4, <1>5 DEF Registers

\* Restart's calls.
LEMMA RestartHarmless ==
    ASSUME NEW s \in {<< >>, <<"halt", "discard">>}
    PROVE  Harmless(s \o DoStart)
<1>1. s \in Seq(Calls) /\ ~Has(s, "register") /\ ~Has(s, "verify") /\ ~Has(s, "restore")
  BY Parts, Zenon DEF Harmless
<1> QED BY <1>1, Parts, HarmlessFollows DEF Harmless

\* The calls of an upgrade and of a rollback.
LEMMA PlainRegisters ==
    /\ Registers(UpgradeCalls)
    /\ Registers(<<"stop", "remove", "register">> \o DoStart)
<1>1. Registers(<<"pull", "stop", "remove", "register">>)
  BY DEF Registers, Calls, Has, VerifyFirst
<1>2. Registers(<<"stop", "remove", "register">>) BY DEF Registers, Calls, Has, VerifyFirst
<1> QED BY <1>1, <1>2, Parts, HarmlessFollows, Zenon DEF Registers, UpgradeCalls

\* The pull, if any, and the verification, if the manifest asks for it.
LEMMA PreparesFirst ==
    ASSUME NEW p \in {<< >>, <<"pull">>}, NEW m
    PROVE  /\ p \o Verify(m) \in Seq(Calls)
           /\ \A i \in DOMAIN (p \o Verify(m)) : (p \o Verify(m))[i] \in {"pull", "verify"}
           /\ m.required => Has(p \o Verify(m), "verify")
<1> DEFINE Prep(s) == s \in Seq(Calls) /\ \A i \in DOMAIN s : s[i] \in {"pull", "verify"}
<1>a. Prep(<< >>) OBVIOUS
<1>b. Prep(<<"pull">>) BY DEF Calls
<1>c. Prep(<<"verify">>) BY DEF Calls
<1>1. Prep(p) BY <1>a, <1>b, Zenon
<1>2. Prep(Verify(m)) BY <1>a, <1>c DEF Verify
<1>3. m.required => Has(Verify(m), "verify") BY DEF Verify, Has
<1>4. m.required => Has(p \o Verify(m), "verify") BY <1>1, <1>2, <1>3, ConcatHas
<1> QED BY <1>1, <1>2, <1>4, Concat

\* The calls of an update and of an install.
LEMMA VerifiedRegisters ==
    ASSUME NEW p \in {<< >>, <<"pull">>}, NEW m
    PROVE  /\ Registers(p \o Verify(m) \o <<"register">> \o DoStart)
           /\ OnlyPrepares(p \o Verify(m) \o <<"register">> \o DoStart)
           /\ m.required => Has(p \o Verify(m) \o <<"register">> \o DoStart, "verify")
           /\ Registers(UpdateCalls(m))
           /\ m.required => Has(UpdateCalls(m), "verify")
<1>1. ASSUME NEW q \in {<< >>, <<"pull">>},
             NEW r \in {<<"register">>, <<"stop", "remove", "register">>}
      PROVE  /\ Registers(q \o Verify(m) \o r)
             /\ m.required => Has(q \o Verify(m) \o r, "verify")
             /\ r = <<"register">> => OnlyPrepares(q \o Verify(m) \o r)
  <2> DEFINE s == q \o Verify(m)
  <2>1. /\ s \in Seq(Calls) /\ \A i \in DOMAIN s : s[i] \in {"pull", "verify"}
        /\ m.required => Has(s, "verify")
    BY PreparesFirst, Zenon
  <2>2. /\ r \in Seq(Calls) /\ r # << >> /\ Has(r, "register") /\ ~Has(r, "restore")
        /\ ~Has(r, "verify")
    <3>1. CASE r = <<"register">> BY <3>1 DEF Calls, Has
    <3>2. CASE r = <<"stop", "remove", "register">> BY <3>2 DEF Calls, Has
    <3> QED BY <3>1, <3>2
  <2>3. ~Has(s, "register") /\ ~Has(s, "restore") BY <2>1 DEF Has
  <2>4. VerifyFirst(s) BY <2>1 DEF VerifyFirst
  <2> HIDE DEF s
  <2>5. s \o r \in Seq(Calls) /\ s \o r # << >> BY <2>1, <2>2
  <2>6. VerifyFirst(s \o r) BY <2>1, <2>2, <2>4, ConcatOrder
  <2>7. Has(s \o r, "register") /\ ~Has(s \o r, "restore")
        /\ (m.required => Has(s \o r, "verify"))
    BY <2>1, <2>2, <2>3, ConcatHas
  <2>8. ASSUME r = <<"register">> PROVE OnlyPrepares(s \o r)
    <3> SUFFICES ASSUME NEW i \in DOMAIN (s \o r), NEW j \in DOMAIN (s \o r), j < i
                 PROVE  (s \o r)[j] \in {"pull", "verify"}
      BY DEF OnlyPrepares
    <3>1. Len(r) = 1 /\ Len(s) \in Nat /\ DOMAIN (s \o r) = 1..(Len(s) + 1)
      BY <2>1, <2>2, <2>5, <2>8
    <3>2. j \in DOMAIN s /\ (s \o r)[j] = s[j] BY <2>1, <2>2, <3>1
    <3> QED BY <2>1, <3>2
  <2> QED BY <2>5, <2>6, <2>7, <2>8 DEF Registers, s
<1>2. /\ Registers(p \o Verify(m) \o <<"register">>)
      /\ OnlyPrepares(p \o Verify(m) \o <<"register">>)
      /\ m.required => Has(p \o Verify(m) \o <<"register">>, "verify")
  BY <1>1, Zenon
<1>3. /\ Registers(<<"pull">> \o Verify(m) \o <<"stop", "remove", "register">>)
      /\ m.required => Has(<<"pull">> \o Verify(m) \o <<"stop", "remove", "register">>, "verify")
  BY <1>1
<1>4. /\ Registers(p \o Verify(m) \o <<"register">> \o DoStart)
      /\ OnlyPrepares(p \o Verify(m) \o <<"register">> \o DoStart)
      /\ m.required => Has(p \o Verify(m) \o <<"register">> \o DoStart, "verify")
  BY <1>2, Parts, HarmlessFollows, Zenon DEF Registers
<1>5. /\ Registers(<<"pull">> \o Verify(m) \o <<"stop", "remove", "register">> \o DoStart)
      /\ m.required =>
           Has(<<"pull">> \o Verify(m) \o <<"stop", "remove", "register">> \o DoStart, "verify")
  BY <1>3, Parts, HarmlessFollows, Zenon DEF Registers
<1>6. /\ Registers(UpdateCalls(m)) /\ (m.required => Has(UpdateCalls(m), "verify"))
  BY <1>5, Parts, HarmlessFollows, Zenon DEF Registers, UpdateCalls
<1> QED BY <1>4, <1>6

-----------------------------------------------------------------------------
(* The steps.                                                              *)

\* No operation makes an image less trusted.
LEMMA TrustGrows ==
    ASSUME upgraded \subseteq upgraded'
    PROVE  \A i : (Trusted(i) => Trusted(i)') /\ (NoneOrTrusted(i) => NoneOrTrusted(i)')
BY DEF Trusted, NoneOrTrusted

\* The idle Manager and the empty registry name no image.
LEMMA NothingNamed ==
    /\ IsJob(NoJob) /\ Installing(NoJob)
    /\ NoSpec \in Specs /\ NoneOrTrusted(None) /\ NoJob.old = None
<1>1. NoSpec \in Specs /\ NoSpec.prev = None BY DEF NoSpec, Specs, AnyRef
<1>2. /\ NoJob.op = "none" /\ NoJob.todo = << >> /\ NoJob.spec = NoSpec /\ NoJob.old = None
      /\ NoJob = [op |-> NoJob.op, todo |-> NoJob.todo, cid |-> NoJob.cid,
                  spec |-> NoJob.spec, old |-> NoJob.old]
  BY DEF NoJob
<1>3. VerifyFirst(<< >>) BY DEF VerifyFirst
<1> QED BY <1>1, <1>2, <1>3, Parts
     DEF IsJob, Installing, Vetted, NoneOrTrusted, AnyRef

\* Steps that leave the containers and the registry alone.
LEMMA FrameKept ==
    ASSUME ImagesInv, upgraded \subseteq upgraded', UNCHANGED <<boxes, made, entry>>
    PROVE  /\ BoxesOK' /\ EntryOK'
           /\ UNCHANGED job => IsJob(job)' /\ Installing(job)'
<1>1. \A i : (Trusted(i) => Trusted(i)') /\ (NoneOrTrusted(i) => NoneOrTrusted(i)')
  BY TrustGrows
<1>2. BoxesOK' BY <1>1 DEF ImagesInv, BoxesOK
<1>3. EntryOK' BY <1>1 DEF ImagesInv, EntryOK, Known
<1>4. UNCHANGED job => IsJob(job)' /\ Installing(job)'
  BY <1>1 DEF ImagesInv, IsJob, Vetted, Installing, Known, Listed
<1> QED BY <1>2, <1>3, <1>4

\* An operation that takes the lock with a list of calls and an image that may be
\* registered at the end of it.
LEMMA BeginKeeps ==
    ASSUME ImagesInv, upgraded \subseteq upgraded', UNCHANGED <<boxes, made, entry>>,
           NEW op, NEW todo \in Seq(Calls), NEW spec \in Specs, Begin(op, todo, spec),
           todo # << >>, VerifyFirst(todo), ~Has(todo, "restore"), NoneOrTrusted(spec.prev)',
           Has(todo, "register") =>
               /\ spec.image # None
               /\ Trusted(spec.image)' \/ (Has(todo, "verify") /\ Listed(spec.image)),
           Known \/ (op = "install" /\ Has(todo, "register") /\ OnlyPrepares(todo)),
           op = "update" => Known
    PROVE  ImagesInv'
<1>1. BoxesOK' /\ EntryOK' BY FrameKept
<1>2. /\ job' = [op |-> op, todo |-> todo, cid |-> entry.cid, spec |-> spec,
                 old |-> entry.spec.image]
  BY DEF Begin
<1>3. /\ job'.op = op /\ job'.todo = todo /\ job'.spec = spec /\ job'.old = entry.spec.image
      /\ job' = [op |-> job'.op, todo |-> job'.todo, cid |-> job'.cid, spec |-> job'.spec,
                 old |-> job'.old]
  BY <1>2
<1>4. /\ entry.spec.image \in AnyRef /\ NoneOrTrusted(entry.spec.image)'
      /\ Known => entry.spec.image # None
  <2>1. entry.spec.image \in AnyRef BY DEF ImagesInv, EntryOK, Specs
  <2>2. NoneOrTrusted(entry.spec.image)' BY <1>1 DEF EntryOK
  <2> QED BY <2>1, <2>2 DEF ImagesInv, EntryOK
<1>5. Vetted(job)' BY <1>3 DEF Vetted, Listed
<1>6. IsJob(job)' BY <1>3, <1>4, <1>5 DEF IsJob, NoneOrTrusted
<1>7. Installing(job)' BY <1>3 DEF Installing, Known
<1> QED BY <1>1, <1>6, <1>7 DEF ImagesInv

\* What an operation names is a spec.
LEMMA SpecsOfImages ==
    ASSUME NEW i \in AnyRef, NEW p \in AnyRef
    PROVE  \E s \in Specs : s = [image |-> i, prev |-> p] /\ s.image = i /\ s.prev = p
<1> DEFINE s == [image |-> i, prev |-> p]
<1>1. s \in Specs /\ s.image = i /\ s.prev = p BY DEF Specs
<1> QED BY <1>1

\* A manifest lists an image; its image is trusted once verified, or at once if the
\* manifest asks for no signature.
LEMMA ManifestImages ==
    ASSUME NEW m \in Validated, NEW i \in {m.image, Tag}
    PROVE  i \in Refs /\ i # None /\ Listed(i) /\ (Trusted(i) \/ m.required)
<1>1. m.image \in Images BY ManifestsAssumption DEF Validated
<1>2. i \in Refs BY <1>1 DEF Refs
<1> QED BY <1>2, ImagesAssumption DEF Listed, Trusted

\* Start, Stop and Restart.
LEMMA HarmlessKeeps ==
    ASSUME ImagesInv, AdminOnly, UNCHANGED upgraded, Known, NEW op, op # "update",
           NEW todo, Harmless(todo), Begin(op, todo, NoSpec)
    PROVE  ImagesInv'
<1>1. VerifyFirst(todo) BY DEF Harmless, VerifyFirst, Has
<1>2. NoneOrTrusted(NoSpec.prev)' BY DEF NoSpec, NoneOrTrusted
<1> QED BY <1>1, <1>2, NothingNamed, BeginKeeps DEF Harmless, AdminOnly

\* Update, asked for by an operator or by the Updater.
LEMMA UpdateKeeps ==
    ASSUME ImagesInv, Update, UNCHANGED <<boxes, made, entry, upgraded>>
    PROVE  ImagesInv'
<1>1. PICK m \in Validated : Begin("update", UpdateCalls(m),
                                   [image |-> m.image, prev |-> entry.spec.image])
  BY DEF Update
<1>2. /\ entry.spec.image \in AnyRef /\ NoneOrTrusted(entry.spec.image)
  BY DEF ImagesInv, EntryOK, Specs
<1>3. m.image \in Refs /\ m.image # None /\ Listed(m.image) /\ (Trusted(m.image) \/ m.required)
  BY ManifestImages
<1>4. PICK spec \in Specs : /\ spec = [image |-> m.image, prev |-> entry.spec.image]
                            /\ spec.image = m.image /\ spec.prev = entry.spec.image
  <2>1. m.image \in AnyRef BY <1>3 DEF AnyRef
  <2> QED BY <1>2, <2>1, SpecsOfImages
<1>5. Registers(UpdateCalls(m)) /\ (m.required => Has(UpdateCalls(m), "verify"))
  BY VerifiedRegisters
<1>6. NoneOrTrusted(spec.prev)' /\ (Trusted(m.image) => Trusted(spec.image)')
  BY <1>2, <1>4 DEF NoneOrTrusted, Trusted
<1>7. Known BY DEF Update
<1>8. Begin("update", UpdateCalls(m), spec) BY <1>1, <1>4
<1>9. Trusted(spec.image)' \/ (Has(UpdateCalls(m), "verify") /\ Listed(spec.image))
  BY <1>3, <1>4, <1>5, <1>6
<1> QED BY <1>3, <1>4, <1>5, <1>6, <1>7, <1>8, <1>9, BeginKeeps DEF Registers

\* Upgrade: the operator names the image.
LEMMA UpgradeKeeps ==
    ASSUME ImagesInv, Upgrade
    PROVE  ImagesInv'
<1>1. PICK image \in Images : /\ Begin("upgrade", UpgradeCalls,
                                       [image |-> image, prev |-> entry.spec.image])
                              /\ upgraded' = upgraded \cup {image}
  BY DEF Upgrade
<1>2. entry.spec.image \in AnyRef /\ NoneOrTrusted(entry.spec.image)
  BY DEF ImagesInv, EntryOK, Specs
<1>3. image \in AnyRef /\ image # None BY ImagesAssumption DEF AnyRef, Refs
<1>4. PICK spec \in Specs : /\ spec = [image |-> image, prev |-> entry.spec.image]
                            /\ spec.image = image /\ spec.prev = entry.spec.image
  BY <1>2, <1>3, SpecsOfImages
<1>5. upgraded \subseteq upgraded' /\ Trusted(spec.image)' BY <1>1, <1>4 DEF Trusted
<1>6. NoneOrTrusted(spec.prev)' BY <1>2, <1>4, <1>5 DEF NoneOrTrusted, Trusted
<1>7. Known /\ UNCHANGED <<boxes, made, entry>> BY DEF Upgrade, AdminOnly
<1>8. Begin("upgrade", UpgradeCalls, spec) BY <1>1, <1>4
<1> QED BY <1>3, <1>4, <1>5, <1>6, <1>7, <1>8, PlainRegisters, BeginKeeps DEF Registers

\* Rollback: the image was registered before.
LEMMA RollbackKeeps ==
    ASSUME ImagesInv, Rollback
    PROVE  ImagesInv'
<1>1. Begin("rollback", <<"stop", "remove", "register">> \o DoStart,
            [image |-> entry.spec.prev, prev |-> entry.spec.image])
  BY DEF Rollback
<1>2. /\ entry.spec.image \in AnyRef /\ NoneOrTrusted(entry.spec.image)
      /\ entry.spec.prev \in AnyRef /\ Trusted(entry.spec.prev)
      /\ entry.spec.prev # None
  BY DEF ImagesInv, EntryOK, Specs, Rollback, NoneOrTrusted
<1>3. PICK spec \in Specs : /\ spec = [image |-> entry.spec.prev, prev |-> entry.spec.image]
                            /\ spec.image = entry.spec.prev /\ spec.prev = entry.spec.image
  BY <1>2, SpecsOfImages
<1>4. /\ Known /\ UNCHANGED <<boxes, made, entry>> /\ upgraded \subseteq upgraded'
  BY DEF Rollback, AdminOnly
<1>5. Trusted(spec.image)' /\ NoneOrTrusted(spec.prev)'
  BY <1>2, <1>3, <1>4, TrustGrows
<1>6. Begin("rollback", <<"stop", "remove", "register">> \o DoStart, spec) BY <1>1, <1>3
<1> QED BY <1>2, <1>3, <1>4, <1>5, <1>6, PlainRegisters, BeginKeeps, Zenon DEF Registers

\* Install, with an entry or without one.
LEMMA InstallKeeps ==
    ASSUME ImagesInv, Install
    PROVE  ImagesInv'
<1>1. PICK m \in Validated, ref \in Refs :
        /\ ref \in {m.image, Tag}
        /\ Begin("install", (IF ref = Tag THEN << >> ELSE <<"pull">>) \o Verify(m)
                            \o <<"register">> \o DoStart,
                 [image |-> ref, prev |-> None])
  BY DEF Install
<1>2. PICK p \in {<< >>, <<"pull">>} : p = IF ref = Tag THEN << >> ELSE <<"pull">>
  OBVIOUS
<1> DEFINE todo == p \o Verify(m) \o <<"register">> \o DoStart
<1>3. /\ Registers(todo) /\ OnlyPrepares(todo)
      /\ m.required => Has(todo, "verify")
  BY VerifiedRegisters, Zenon
<1>4. ref # None /\ Listed(ref) /\ (Trusted(ref) \/ m.required) BY <1>1, ManifestImages
<1>5. PICK spec \in Specs : /\ spec = [image |-> ref, prev |-> None]
                            /\ spec.image = ref /\ spec.prev = None
  BY SpecsOfImages DEF AnyRef
<1>6. Begin("install", todo, spec) BY <1>1, <1>2, <1>5
<1>7. UNCHANGED <<boxes, made, entry>> /\ upgraded \subseteq upgraded'
  BY DEF Install, AdminOnly
<1>8. NoneOrTrusted(spec.prev)' BY <1>5 DEF NoneOrTrusted
<1> HIDE DEF todo
<1>9. Trusted(spec.image)' \/ (Has(todo, "verify") /\ Listed(spec.image))
  BY <1>3, <1>4, <1>5, <1>7, TrustGrows
<1> QED BY <1>3, <1>4, <1>5, <1>6, <1>7, <1>8, <1>9, BeginKeeps DEF Registers

\* The operations of the Admin API.
LEMMA AdminKeeps ==
    ASSUME ImagesInv, AdminAction
    PROVE  ImagesInv'
<1>1. CASE Start BY <1>1, Parts, HarmlessKeeps DEF Start
<1>2. CASE Stop BY <1>2, Parts, HarmlessKeeps DEF Stop
<1>3. CASE Restart
  <2>1. PICK s \in {<< >>, <<"halt", "discard">>} : Begin("restart", s \o DoStart, NoSpec)
    BY <1>3, Zenon DEF Restart
  <2> QED BY <1>3, <2>1, RestartHarmless, HarmlessKeeps, Zenon DEF Restart
<1>4. CASE AdminUpdate BY <1>4, UpdateKeeps DEF AdminUpdate, AdminOnly
<1> QED BY <1>1, <1>2, <1>3, <1>4, UpgradeKeeps, RollbackKeeps DEF AdminAction

\* Watch and the Updater.
LEMMA WatchKeeps ==
    ASSUME ImagesInv, Poll \/ PollUpdate \/ WatchList \/ WatchInspect \/ WatchRestart
    PROVE  ImagesInv'
<1>1. ASSUME UNCHANGED <<boxes, made, entry, job, upgraded>> PROVE ImagesInv'
  BY <1>1, FrameKept DEF ImagesInv
<1>2. CASE Poll \/ WatchList \/ WatchInspect BY <1>1, <1>2 DEF Poll, WatchList, WatchInspect
<1>3. CASE PollUpdate BY <1>1, <1>3, UpdateKeeps DEF PollUpdate
<1>4. CASE WatchRestart /\ ~(Idle /\ Known) BY <1>1, <1>4 DEF WatchRestart
<1>5. CASE WatchRestart /\ Idle /\ Known
  <2>1. /\ entry' = [entry EXCEPT !.cid = 0, !.running = FALSE]
        /\ job' = [NoJob EXCEPT !.op = "watch", !.todo = DoStart]
        /\ UNCHANGED <<boxes, made, upgraded>>
    BY <1>5 DEF WatchRestart
  <2>2. BoxesOK' BY <2>1 DEF ImagesInv, BoxesOK, Trusted
  <2>3. /\ entry'.spec = entry.spec
        /\ entry' = [spec |-> entry'.spec, cid |-> entry'.cid, running |-> entry'.running]
    BY <2>1, Zenon DEF ImagesInv, EntryOK
  <2>4. Known' /\ entry.spec.image # None
    BY <1>5, <2>3 DEF ImagesInv, EntryOK, Known, NoEntry, NoSpec
  <2>5. EntryOK' BY <2>1, <2>3, <2>4 DEF ImagesInv, EntryOK, NoneOrTrusted, Trusted
  <2>6. /\ job'.op = "watch" /\ job'.todo = DoStart /\ job'.spec = NoSpec /\ job'.old = None
        /\ job' = [op |-> job'.op, todo |-> job'.todo, cid |-> job'.cid,
                   spec |-> job'.spec, old |-> job'.old]
    BY <2>1, Zenon DEF NoJob
  <2>7. Harmless(DoStart) /\ NoSpec.prev = None /\ NoSpec \in Specs
    BY Parts, NothingNamed DEF NoSpec
  <2>8. IsJob(job)'
    BY <2>6, <2>7 DEF IsJob, Harmless, Vetted, NoneOrTrusted, AnyRef, VerifyFirst, Has
  <2>9. Installing(job)' BY <2>4 DEF Installing
  <2> QED BY <2>2, <2>5, <2>8, <2>9 DEF ImagesInv
<1> QED BY <1>2, <1>3, <1>4, <1>5

-----------------------------------------------------------------------------
(* The calls of the operation that holds the lock.                         *)

\* What the next call of an operation may rely on.
LEMMA CallFacts ==
    ASSUME ImagesInv, ~Idle
    PROVE  /\ Call = Head(job.todo) /\ Call \in Calls /\ Has(job.todo, Call)
           /\ ~Known => Call \in {"pull", "verify", "register"}
           /\ Call = "register" => job.spec.image # None /\ Trusted(job.spec.image)
           /\ Call = "restore" => job.old # None /\ Trusted(job.old)
<1>1. /\ job.todo \in Seq(Calls) /\ job.todo # << >> /\ job # NoJob
  BY DEF ImagesInv, IsJob, Idle
<1>2. Call = Head(job.todo) /\ Call \in Calls /\ Has(job.todo, Call)
  BY <1>1, TailOrder DEF Call
<1>3. 1 \in DOMAIN job.todo /\ Call = job.todo[1]
      /\ \A i \in DOMAIN job.todo : i \in Nat /\ i >= 1
  BY <1>1, <1>2
<1>4. ASSUME ~Known PROVE Call \in {"pull", "verify", "register"}
  <2>1. Has(job.todo, "register") /\ OnlyPrepares(job.todo)
    BY <1>1, <1>4 DEF ImagesInv, Installing
  <2>2. PICK i \in DOMAIN job.todo : job.todo[i] = "register" BY <2>1 DEF Has
  <2>3. CASE i = 1 BY <1>3, <2>2, <2>3
  <2>4. CASE 1 < i BY <1>3, <2>1, <2>2, <2>4 DEF OnlyPrepares
  <2> QED BY <1>3, <2>3, <2>4
<1>5. ASSUME Call = "register" PROVE job.spec.image # None /\ Trusted(job.spec.image)
  <2>1. ~Has(job.todo, "verify")
    <3> SUFFICES ASSUME NEW j \in DOMAIN job.todo, job.todo[j] = "verify" PROVE FALSE
      BY DEF Has
    <3>1. j < 1 BY <1>3, <1>5, Zenon DEF ImagesInv, IsJob, VerifyFirst
    <3> QED BY <1>3, <3>1
  <2> QED BY <1>2, <1>5, <2>1 DEF ImagesInv, IsJob, Vetted
<1>6. ASSUME Call = "restore" PROVE job.old # None /\ Trusted(job.old)
  BY <1>2, <1>6 DEF ImagesInv, IsJob, NoneOrTrusted
<1> QED BY <1>2, <1>4, <1>5, <1>6

\* A connector that is not in the registry.
LEMMA NothingRegistered ==
    /\ entry = NoEntry => EntryOK
    /\ entry' = NoEntry => EntryOK'
<1>1. /\ NoEntry = [spec |-> NoEntry.spec, cid |-> NoEntry.cid, running |-> NoEntry.running]
      /\ NoEntry.spec = NoSpec /\ NoSpec.image = None /\ NoSpec.prev = None
  BY DEF NoEntry, NoSpec
<1> QED BY <1>1, NothingNamed DEF EntryOK, Known, NoneOrTrusted

\* An operation that ends.
LEMMA NothingNext ==
    ASSUME job' = NoJob
    PROVE  IsJob(job)' /\ Installing(job)'
<1>1. /\ job'.op = "none" /\ job'.todo = << >> /\ job'.spec = NoSpec /\ job'.old = None
      /\ job' = [op |-> job'.op, todo |-> job'.todo, cid |-> job'.cid,
                 spec |-> job'.spec, old |-> job'.old]
  BY DEF NoJob
<1>2. NoSpec.prev = None /\ NoSpec \in Specs BY NothingNamed DEF NoSpec
<1>3. NoneOrTrusted(job.spec.prev)' /\ NoneOrTrusted(job.old)' BY <1>1, <1>2 DEF NoneOrTrusted
<1>4. Vetted(job)' BY <1>1, Parts DEF Vetted
<1>5. VerifyFirst(job.todo)' BY <1>1 DEF VerifyFirst
<1>6. ~Has(job.todo, "restore")' BY <1>1, Parts
<1> QED BY <1>1, <1>2, <1>3, <1>4, <1>5, <1>6, Parts DEF IsJob, Installing, AnyRef

\* The call is done and the operation goes on.
LEMMA AdvanceKeeps ==
    ASSUME ImagesInv, ~Idle, Advance, UNCHANGED upgraded,
           Call = "verify" => job.spec.image \in Signed,
           Known' \/ (~Known /\ Call # "register")
    PROVE  IsJob(job)' /\ Installing(job)'
<1>1. /\ job.todo \in Seq(Calls) /\ job.todo # << >> /\ job # NoJob
      /\ job = [op |-> job.op, todo |-> job.todo, cid |-> job.cid, spec |-> job.spec,
                old |-> job.old]
  BY DEF ImagesInv, IsJob, Idle
<1>2. \A i : Trusted(i)' <=> Trusted(i) BY DEF Trusted
<1>3. CASE Len(job.todo) = 1
  <2>1. job' = NoJob BY <1>3 DEF Advance
  <2> QED BY <2>1, NothingNext
<1>4. CASE Len(job.todo) # 1
  <2>1. job' = [job EXCEPT !.todo = Tail(@)] BY <1>4 DEF Advance
  <2>2. /\ job'.op = job.op /\ job'.todo = Tail(job.todo) /\ job'.spec = job.spec
        /\ job'.old = job.old
        /\ job' = [op |-> job'.op, todo |-> job'.todo, cid |-> job'.cid,
                   spec |-> job'.spec, old |-> job'.old]
    BY <1>1, <2>1, Zenon
  <2>3. /\ Tail(job.todo) \in Seq(Calls) /\ Tail(job.todo) # << >>
        /\ \A c : Has(job.todo, c) <=> Call = c \/ Has(Tail(job.todo), c)
        /\ VerifyFirst(Tail(job.todo))
        /\ OnlyPrepares(job.todo) => OnlyPrepares(Tail(job.todo))
    BY <1>1, <1>4, TailOrder, CallFacts DEF ImagesInv, IsJob
  <2>4. Vetted(job)'
    <3> SUFFICES ASSUME Has(Tail(job.todo), "register")
                 PROVE  /\ job.spec.image # None
                        /\ \/ Trusted(job.spec.image)
                           \/ Has(Tail(job.todo), "verify") /\ Listed(job.spec.image)
      BY <1>2, <2>2 DEF Vetted, Listed
    <3>1. /\ job.spec.image # None
          /\ Trusted(job.spec.image) \/ (Has(job.todo, "verify") /\ Listed(job.spec.image))
      BY <2>3 DEF ImagesInv, IsJob, Vetted
    <3>2. CASE Call = "verify" BY <3>1, <3>2 DEF Trusted, Listed
    <3>3. CASE Call # "verify" BY <2>3, <3>1, <3>3
    <3> QED BY <3>2, <3>3
  <2>5. /\ job'.spec \in Specs /\ NoneOrTrusted(job.spec.prev)' /\ NoneOrTrusted(job.old)'
        /\ job.old \in AnyRef
        /\ job.op = "update" \/ Has(job.todo, "restore") => job.old # None
        /\ job'.spec.prev = job.spec.prev
    BY <1>2, <2>2 DEF ImagesInv, IsJob, NoneOrTrusted
  <2>6. IsJob(job)' BY <2>2, <2>3, <2>4, <2>5 DEF IsJob
  <2>7. Installing(job)'
    BY <1>1, <2>2, <2>3 DEF ImagesInv, Installing
  <2> QED BY <2>6, <2>7
<1> QED BY <1>3, <1>4

\* A container is made from the image the registry names.
LEMMA DaemonKeeps ==
    ASSUME ImagesInv, ~Idle, Succeeds, Daemon, UNCHANGED upgraded
    PROVE  BoxesOK'
<1>1. \A i : Trusted(i)' <=> Trusted(i) BY DEF Trusted
<1>2. /\ made \in Nat /\ boxes \subseteq [cid : Nat, image : Refs, up : BOOLEAN]
      /\ \A b \in boxes : Trusted(b.image)
  BY DEF ImagesInv, BoxesOK
<1>3. made' \in Nat BY <1>2 DEF Daemon
<1>4. ASSUME NEW b \in boxes'
      PROVE  b \in [cid : Nat, image : Refs, up : BOOLEAN] /\ Trusted(b.image)
  <2>1. CASE b \in boxes BY <1>2, <2>1
  <2>2. CASE Call = "create" /\ b = Created
    <3>1. Known BY <2>2 DEF Succeeds, Skipped
    <3>2. /\ entry.spec.image \in AnyRef /\ entry.spec.image # None
          /\ Trusted(entry.spec.image)
      BY <3>1 DEF ImagesInv, EntryOK, Specs, NoneOrTrusted
    <3>3. entry.spec.image \in Refs BY <3>2 DEF AnyRef
    <3>4. b = [cid |-> made + 1, image |-> entry.spec.image, up |-> FALSE]
      BY <2>2 DEF Created
    <3> QED BY <1>2, <3>2, <3>3, <3>4
  <2>3. CASE \E a \in boxes : b = [a EXCEPT !.up = (Call = "start")]
    <3>1. PICK a \in boxes : b = [a EXCEPT !.up = (Call = "start")] BY <2>3
    <3>2. a \in [cid : Nat, image : Refs, up : BOOLEAN] /\ Trusted(a.image) BY <1>2
    <3>3. b.image = a.image BY <3>1, <3>2
    <3>4. b \in [cid : Nat, image : Refs, up : BOOLEAN] BY <3>1, <3>2, Zenon
    <3> QED BY <3>2, <3>3, <3>4
  <2> QED BY <2>1, <2>2, <2>3 DEF Daemon
<1>5. boxes' \subseteq [cid : Nat, image : Refs, up : BOOLEAN] BY <1>4
<1>6. \A b \in boxes' : Trusted(b.image)' BY <1>1, <1>4
<1> QED BY <1>3, <1>5, <1>6 DEF BoxesOK

\* What the registry is told after a call that succeeded.
LEMMA RegisteredKeeps ==
    ASSUME ImagesInv, ~Idle, entry' = Registered, UNCHANGED upgraded
    PROVE  /\ EntryOK'
           /\ Known => Known'
           /\ Call = "register" => Known'
           /\ ~Known /\ Call # "register" => entry' = entry
<1>1. /\ entry = [spec |-> entry.spec, cid |-> entry.cid, running |-> entry.running]
      /\ entry.spec \in Specs
      /\ NoneOrTrusted(entry.spec.image) /\ NoneOrTrusted(entry.spec.prev)
      /\ Known => entry.spec.image # None
  BY DEF ImagesInv, EntryOK
<1>2. \A i : NoneOrTrusted(i)' <=> NoneOrTrusted(i) BY DEF NoneOrTrusted, Trusted
<1>3. NoEntry.spec.image = None BY DEF NoEntry, NoSpec
<1>4. CASE Call \notin {"start", "stop", "discard", "register", "restore"}
  <2>1. entry' = entry BY <1>4 DEF Registered
  <2> QED BY <1>1, <1>2, <1>4, <2>1 DEF EntryOK, Known
<1>5. CASE Call \in {"start", "stop", "discard"}
  <2>1. Known BY <1>5, CallFacts
  <2>2. /\ entry'.spec = entry.spec
        /\ entry' = [spec |-> entry'.spec, cid |-> entry'.cid, running |-> entry'.running]
    <3>1. CASE Call = "start" BY <1>1, <3>1, Zenon DEF Registered
    <3>2. CASE Call \in {"stop", "discard"} BY <1>1, <3>2, Zenon DEF Registered
    <3> QED BY <1>5, <3>1, <3>2
  <2>3. Known' BY <1>1, <1>3, <2>1, <2>2 DEF Known
  <2> QED BY <1>1, <1>2, <1>5, <2>1, <2>2, <2>3 DEF EntryOK
<1>6. CASE Call = "register"
  <2>1. entry' = [entry EXCEPT !.spec = job.spec] BY <1>6 DEF Registered
  <2>2. /\ entry'.spec = job.spec
        /\ entry' = [spec |-> entry'.spec, cid |-> entry'.cid, running |-> entry'.running]
    BY <1>1, <2>1
  <2>3. /\ job.spec \in Specs /\ job.spec.image # None /\ NoneOrTrusted(job.spec.image)
        /\ NoneOrTrusted(job.spec.prev)
    BY <1>6, CallFacts DEF ImagesInv, IsJob, NoneOrTrusted
  <2>4. Known' BY <1>3, <2>2, <2>3 DEF Known
  <2> QED BY <1>2, <1>6, <2>2, <2>3, <2>4 DEF EntryOK
<1>7. CASE Call = "restore"
  <2>1. entry' = [entry EXCEPT !.spec.image = job.old] BY <1>7 DEF Registered
  <2>2. /\ job.old # None /\ NoneOrTrusted(job.old) /\ job.old \in AnyRef
    BY <1>7, CallFacts DEF ImagesInv, IsJob
  <2>3. /\ entry'.spec = [entry.spec EXCEPT !.image = job.old]
        /\ entry' = [spec |-> entry'.spec, cid |-> entry'.cid, running |-> entry'.running]
    BY <1>1, <2>1
  <2>4. /\ entry'.spec.image = job.old /\ entry'.spec.prev = entry.spec.prev
        /\ entry'.spec \in Specs
    BY <1>1, <2>2, <2>3 DEF Specs
  <2>5. Known' BY <1>3, <2>2, <2>4 DEF Known
  <2>6. Known BY <1>7, CallFacts
  <2> QED BY <1>1, <1>2, <1>7, <2>2, <2>3, <2>4, <2>5, <2>6 DEF EntryOK
<1> QED BY <1>4, <1>5, <1>6, <1>7

\* rollback, which Update's error path runs, names the previous image only.
LEMMA UndoHarmless ==
    /\ UndoCalls \in Seq(Calls) /\ UndoCalls # << >>
    /\ ~Has(UndoCalls, "register") /\ ~Has(UndoCalls, "verify")
<1>1. /\ <<"stop", "remove", "restore">> \in Seq(Calls)
      /\ ~Has(<<"stop", "remove", "restore">>, "register")
      /\ ~Has(<<"stop", "remove", "restore">>, "verify")
  BY DEF Calls, Has
<1> QED BY <1>1, Parts, HarmlessFollows, Zenon DEF UndoCalls

\* A call that succeeds.
LEMMA SucceedsKeeps ==
    ASSUME ImagesInv, ~Idle, CallSucceeds, UNCHANGED upgraded
    PROVE  ImagesInv'
<1>1. BoxesOK' BY DaemonKeeps DEF CallSucceeds
<1>2. /\ EntryOK' /\ (Known => Known') /\ (Call = "register" => Known')
      /\ (~Known /\ Call # "register" => entry' = entry)
  BY RegisteredKeeps DEF CallSucceeds
<1>3. Call = "verify" => job.spec.image \in Signed BY DEF CallSucceeds, Succeeds, Skipped
<1>4. IsJob(job)' /\ Installing(job)'
  BY <1>2, <1>3, AdvanceKeeps DEF CallSucceeds
<1> QED BY <1>1, <1>2, <1>4 DEF ImagesInv

\* A call that fails: the operation goes on, turns back or ends.
LEMMA ErrorKeeps ==
    ASSUME ImagesInv, ~Idle, Error, UNCHANGED upgraded
    PROVE  EntryOK' /\ IsJob(job)' /\ Installing(job)'
<1>1. EntryOK'
  <2>1. CASE Forget
    <3>1. entry' = NoEntry BY <2>1 DEF Error
    <3> QED BY <3>1, NothingRegistered
  <2>2. CASE ~Forget
    <3>1. entry' = entry BY <2>2 DEF Error
    <3> QED BY <3>1 DEF ImagesInv, EntryOK, Known, NoneOrTrusted, Trusted
  <2> QED BY <2>1, <2>2
<1>2. CASE Tolerated
  <2>1. Call \in {"remove", "stop"} BY <1>2 DEF Tolerated
  <2>2. Known /\ entry' = entry BY <2>1, CallFacts DEF Error, Forget
  <2>3. Advance BY <1>2, <2>1 DEF Error
  <2>4. Known' BY <2>2 DEF Known
  <2> QED BY <1>1, <2>1, <2>3, <2>4, AdvanceKeeps
<1>3. CASE ~Tolerated /\ job.op = "update" /\ Call \in {"create", "start", "soak"}
  <2>1. job' = [job EXCEPT !.op = "undo", !.todo = UndoCalls, !.cid = entry.cid]
    BY <1>3 DEF Error
  <2>2. /\ job.old # None /\ job.spec \in Specs /\ job.old \in AnyRef
        /\ NoneOrTrusted(job.spec.prev) /\ NoneOrTrusted(job.old)
        /\ job = [op |-> job.op, todo |-> job.todo, cid |-> job.cid, spec |-> job.spec,
                  old |-> job.old]
    BY <1>3 DEF ImagesInv, IsJob
  <2>3. /\ job'.op = "undo" /\ job'.todo = UndoCalls /\ job'.spec = job.spec
        /\ job'.old = job.old
        /\ job' = [op |-> job'.op, todo |-> job'.todo, cid |-> job'.cid,
                   spec |-> job'.spec, old |-> job'.old]
    BY <2>1, <2>2, Zenon
  <2>4. NoneOrTrusted(job.spec.prev)' /\ NoneOrTrusted(job.old)'
    BY <2>2, <2>3 DEF NoneOrTrusted, Trusted
  <2>5. Vetted(job)' BY <2>3, UndoHarmless DEF Vetted
  <2>6. VerifyFirst(job.todo)' BY <2>3, UndoHarmless DEF VerifyFirst, Has
  <2>7. IsJob(job)' BY <2>2, <2>3, <2>4, <2>5, <2>6, UndoHarmless DEF IsJob
  <2>8. Known' BY <1>3, CallFacts DEF Error, Forget, Known
  <2> QED BY <1>1, <2>7, <2>8 DEF Installing
<1>4. CASE ~Tolerated /\ ~(job.op = "update" /\ Call \in {"create", "start", "soak"})
  <2>1. job' = NoJob BY <1>4 DEF Error
  <2> QED BY <1>1, <2>1, NothingNext
<1> QED BY <1>2, <1>3, <1>4

-----------------------------------------------------------------------------
(* The theorem.                                                            *)

\* Every step keeps the registry, the operation and the containers to images
\* that passed.
LEMMA ImagesStep ==
    ASSUME ImagesInv, [LifecycleNext]_lifecycleVars
    PROVE  ImagesInv'
<1>1. CASE Step
  <2>1. CASE CallSucceeds BY <1>1, <2>1, SucceedsKeeps DEF Step
  <2>2. CASE CallFails
    <3>1. BoxesOK' BY <1>1, <2>2 DEF Step, CallFails, ImagesInv, BoxesOK, Trusted
    <3> QED BY <1>1, <2>2, <3>1, ErrorKeeps DEF Step, CallFails, ImagesInv
  <2> QED BY <1>1, <2>1, <2>2 DEF Step
<1>2. CASE DaemonFails
  <2>1. CASE UNCHANGED <<boxes, made>>
    <3>1. BoxesOK' BY <1>2, <2>1 DEF DaemonFails, ImagesInv, BoxesOK, Trusted
    <3> QED BY <1>2, <3>1, ErrorKeeps DEF DaemonFails, ImagesInv
  <2>2. CASE Succeeds /\ Daemon
    <3>1. BoxesOK' BY <1>2, <2>2, DaemonKeeps DEF DaemonFails
    <3> QED BY <1>2, <3>1, ErrorKeeps DEF DaemonFails, ImagesInv
  <2> QED BY <1>2, <2>1, <2>2 DEF DaemonFails
<1>3. CASE Exit
  <2>1. /\ boxes' = {[b EXCEPT !.up = FALSE] : b \in boxes}
        /\ UNCHANGED <<made, entry, job, upgraded>>
    BY <1>3 DEF Exit
  <2>2. ASSUME NEW b \in boxes'
        PROVE  b \in [cid : Nat, image : Refs, up : BOOLEAN] /\ Trusted(b.image)
    <3>1. PICK a \in boxes : b = [a EXCEPT !.up = FALSE] BY <2>1
    <3>2. a \in [cid : Nat, image : Refs, up : BOOLEAN] /\ Trusted(a.image)
      BY DEF ImagesInv, BoxesOK
    <3> QED BY <3>1, <3>2, Zenon
  <2>3. BoxesOK' BY <2>1, <2>2 DEF ImagesInv, BoxesOK, Trusted
  <2>4. EntryOK' BY <2>1 DEF ImagesInv, EntryOK, Known, NoneOrTrusted, Trusted
  <2>5. IsJob(job)' /\ Installing(job)'
    BY <2>1 DEF ImagesInv, IsJob, Installing, Vetted, Listed, Known, NoneOrTrusted, Trusted
  <2> QED BY <2>3, <2>4, <2>5 DEF ImagesInv
<1>4. CASE GatewayEnds
  <2>1. entry' = NoEntry /\ job' = NoJob /\ UNCHANGED <<boxes, made, upgraded>>
    BY <1>4 DEF GatewayEnds
  <2>2. BoxesOK' BY <2>1 DEF ImagesInv, BoxesOK, Trusted
  <2>3. EntryOK' BY <2>1, NothingRegistered
  <2> QED BY <2>1, <2>2, <2>3, NothingNext DEF ImagesInv
<1>5. CASE UNCHANGED lifecycleVars BY <1>5, FrameKept DEF ImagesInv, lifecycleVars
<1> QED BY <1>1, <1>2, <1>3, <1>4, <1>5, AdminKeeps, InstallKeeps, WatchKeeps
     DEF LifecycleNext

\* "An unsigned image never runs": for any catalog, set of images and signatures,
\* however often the daemon fails, a container exits or the gateway ends, a
\* container is only made from an image whose manifest passed or which an operator
\* named to Upgrade.
THEOREM UnsignedNeverRuns == LifecycleSpec => []VerifiedImages
<1>1. LifecycleInit => ImagesInv
  <2> SUFFICES ASSUME LifecycleInit PROVE ImagesInv OBVIOUS
  <2>1. BoxesOK BY DEF LifecycleInit, BoxesOK
  <2>2. EntryOK BY NothingRegistered DEF LifecycleInit
  <2> QED BY <2>1, <2>2, NothingNamed DEF LifecycleInit, ImagesInv
<1>2. ImagesInv /\ [LifecycleNext]_lifecycleVars => ImagesInv' BY ImagesStep
<1>3. ImagesInv => VerifiedImages BY DEF ImagesInv, BoxesOK, Trusted, VerifiedImages
<1> QED BY <1>1, <1>2, <1>3, PTL DEF LifecycleSpec

-----------------------------------------------------------------------------
(* The order of the calls.                                                 *)

Preparing == {"pull", "verify"}
PrepareFirst(t) == \A i, j \in DOMAIN t : i < j /\ t[j] \in Preparing => t[i] \in Preparing

\* Which call may come right after which.
Follows(op, p, c) ==
    /\ c = "remove" => p = "stop"
    /\ c = "restore" => p = "remove"
    /\ c = "register" => p = "remove" \/ op = "install"
    /\ c = "create" => p \in {"register", "restore", "discard"}
    /\ c = "start" => p = "create"
    /\ p = "register" => c = "create"
    /\ op = "undo" => c \in {"remove", "restore", "create", "start"}
Linked(op, t) == \A i \in DOMAIN t : i + 1 \in DOMAIN t => Follows(op, t[i], t[i + 1])

Chain(op, t) == t \in Seq(Calls) /\ t # << >> /\ PrepareFirst(t) /\ Linked(op, t)
First(t) == t[1]
Final(t) == t[Len(t)]

\* The first and the last call of an operation.
Opens(op, c) ==
    /\ c \notin {"remove", "restore", "start", "soak"}
    /\ c = "register" => op = "install"
    /\ op = "undo" => c = "stop"
Closes(op, c) == c \in {"start", "soak", "stop"} /\ (op = "undo" => c = "start")
Plan(op, t) == Chain(op, t) /\ Closes(op, Final(t))

\* One list after another, if no image is prepared in the second.
LEMMA ChainConcat ==
    ASSUME NEW op, NEW s, NEW t, Chain(op, s), Chain(op, t),
           Follows(op, Final(s), First(t)), \A i \in DOMAIN t : t[i] \notin Preparing
    PROVE  /\ Chain(op, s \o t)
           /\ First(s \o t) = First(s) /\ Final(s \o t) = Final(t)
<1> DEFINE st == s \o t
<1>1. s \in Seq(Calls) /\ t \in Seq(Calls) /\ s # << >> /\ t # << >> BY DEF Chain
<1>2. /\ st \in Seq(Calls) /\ Len(s) \in Nat /\ Len(t) \in Nat /\ Len(s) > 0 /\ Len(t) > 0
      /\ Len(st) = Len(s) + Len(t) /\ st # << >>
      /\ DOMAIN st = 1..(Len(s) + Len(t)) /\ DOMAIN s = 1..Len(s) /\ DOMAIN t = 1..Len(t)
  BY <1>1
<1>3. \A i \in 1..(Len(s) + Len(t)) : st[i] = IF i <= Len(s) THEN s[i] ELSE t[i - Len(s)]
  BY <1>1
<1> HIDE DEF st
<1>4. First(st) = First(s) /\ Final(st) = Final(t) BY <1>2, <1>3 DEF First, Final
<1>5. PrepareFirst(st)
  <2> SUFFICES ASSUME NEW i \in DOMAIN st, NEW j \in DOMAIN st, i < j, st[j] \in Preparing
               PROVE  st[i] \in Preparing
    BY DEF PrepareFirst
  <2>1. j <= Len(s)
    <3> SUFFICES ASSUME j > Len(s) PROVE FALSE BY <1>2
    <3>1. j - Len(s) \in DOMAIN t /\ st[j] = t[j - Len(s)] BY <1>2, <1>3
    <3> QED BY <3>1
  <2>2. i \in DOMAIN s /\ j \in DOMAIN s /\ st[i] = s[i] /\ st[j] = s[j] BY <1>2, <1>3, <2>1
  <2> QED BY <2>2 DEF Chain, PrepareFirst
<1>6. Linked(op, st)
  <2> SUFFICES ASSUME NEW i \in DOMAIN st, i + 1 \in DOMAIN st
               PROVE  Follows(op, st[i], st[i + 1])
    BY DEF Linked
  <2>1. CASE i + 1 <= Len(s)
    <3>1. i \in DOMAIN s /\ i + 1 \in DOMAIN s /\ st[i] = s[i] /\ st[i + 1] = s[i + 1]
      BY <1>2, <1>3, <2>1
    <3> QED BY <3>1 DEF Chain, Linked
  <2>2. CASE i = Len(s)
    <3>1. st[i] = Final(s) /\ st[i + 1] = First(t) BY <1>2, <1>3, <2>2 DEF First, Final
    <3> QED BY <3>1
  <2>3. CASE i > Len(s)
    <3>1. PICK k \in Nat : k = i - Len(s) /\ k >= 1 BY <1>2, <2>3
    <3>2. k \in DOMAIN t /\ k + 1 \in DOMAIN t /\ st[i] = t[k] /\ st[i + 1] = t[k + 1]
      BY <1>2, <1>3, <3>1
    <3> QED BY <3>2, Zenon DEF Chain, Linked
  <2> QED BY <1>2, <2>1, <2>2, <2>3
<1> QED BY <1>2, <1>4, <1>5, <1>6 DEF Chain, st

\* The image prepared, and then the rest.
LEMMA PreparedThen ==
    ASSUME NEW op \in {"update", "install"}, NEW s \in Seq(Calls), NEW t,
           \A i \in DOMAIN s : s[i] \in Preparing,
           Chain(op, t), \A i \in DOMAIN t : t[i] \notin Preparing,
           \A p \in Preparing : Follows(op, p, First(t))
    PROVE  /\ Chain(op, s \o t)
           /\ First(s \o t) \in Preparing \/ First(s \o t) = First(t)
           /\ Final(s \o t) = Final(t)
<1>1. CASE s = << >>
  <2>1. s \o t = t BY <1>1 DEF Chain
  <2> QED BY <2>1
<1>2. CASE s # << >>
  <2>1. 1 \in DOMAIN s /\ Len(s) \in DOMAIN s BY <1>2
  <2>2. First(s) \in Preparing /\ Final(s) \in Preparing BY <2>1 DEF First, Final
  <2>3. PrepareFirst(s) BY DEF PrepareFirst
  <2>4. Linked(op, s)
    <3>1. \A p, c \in Preparing : Follows(op, p, c) BY DEF Follows, Preparing
    <3> QED BY <3>1 DEF Linked
  <2>5. Chain(op, s) BY <1>2, <2>3, <2>4 DEF Chain
  <2> QED BY <2>2, <2>5, ChainConcat
<1> QED BY <1>1, <1>2

\* The lists the operations are put together from.
LEMMA Pieces ==
    ASSUME NEW op
    PROVE  /\ op # "undo" => Chain(op, <<"stop">>)
           /\ Chain(op, DoStart) /\ \A i \in DOMAIN DoStart : DoStart[i] \notin Preparing
           /\ First(DoStart) = "create" /\ Final(DoStart) = "start"
           /\ op # "undo" => Chain(op, <<"soak">>)
           /\ op # "undo" => Chain(op, <<"halt", "discard">>)
           /\ op # "undo" => Chain(op, <<"pull", "stop", "remove", "register">>)
           /\ op # "undo" => Chain(op, <<"stop", "remove", "register">>)
           /\ op # "undo" => Chain(op, <<"register">>)
           /\ Chain(op, <<"stop", "remove", "restore">>)
<1>1. Chain(op, <<"stop">>) BY DEF Chain, Calls, PrepareFirst, Linked
<1>2. Chain(op, DoStart) BY DEF Chain, Calls, PrepareFirst, Linked, DoStart, Follows, Preparing
<1>3. \A i \in DOMAIN DoStart : DoStart[i] \notin Preparing BY DEF DoStart, Preparing
<1>4. First(DoStart) = "create" /\ Final(DoStart) = "start" BY DEF First, Final, DoStart
<1>5. Chain(op, <<"soak">>) BY DEF Chain, Calls, PrepareFirst, Linked
<1>6. op # "undo" => Chain(op, <<"halt", "discard">>)
  BY DEF Chain, Calls, PrepareFirst, Linked, Follows, Preparing
<1>7. op # "undo" => Chain(op, <<"pull", "stop", "remove", "register">>)
  BY DEF Chain, Calls, PrepareFirst, Linked, Follows, Preparing
<1>8. op # "undo" => Chain(op, <<"stop", "remove", "register">>)
  BY DEF Chain, Calls, PrepareFirst, Linked, Follows, Preparing
<1>9. Chain(op, <<"register">>) BY DEF Chain, Calls, PrepareFirst, Linked
<1>10. Chain(op, <<"stop", "remove", "restore">>)
  BY DEF Chain, Calls, PrepareFirst, Linked, Follows, Preparing
<1> QED BY <1>1, <1>2, <1>3, <1>4, <1>5, <1>6, <1>7, <1>8, <1>9, <1>10

\* The calls of every operation.
LEMMA Plans ==
    /\ \A op : Plan(op, DoStart) /\ First(DoStart) = "create"
    /\ Plan("stop", <<"stop">>) /\ First(<<"stop">>) = "stop"
    /\ Plan("restart", <<"halt", "discard">> \o DoStart)
    /\ First(<<"halt", "discard">> \o DoStart) = "halt"
    /\ Plan("upgrade", UpgradeCalls) /\ First(UpgradeCalls) = "pull"
    /\ Plan("rollback", <<"stop", "remove", "register">> \o DoStart)
    /\ First(<<"stop", "remove", "register">> \o DoStart) = "stop"
    /\ Plan("undo", UndoCalls) /\ First(UndoCalls) = "stop"
<1>1. \A op : Plan(op, DoStart) /\ First(DoStart) = "create" BY Pieces DEF Plan, Closes
<1>2. Plan("stop", <<"stop">>) /\ First(<<"stop">>) = "stop"
  BY Pieces DEF Plan, Closes, First, Final
<1>3. ASSUME NEW op, NEW s, Chain(op, s),
             Final(s) \in {"discard", "register", "restore"}
      PROVE  Plan(op, s \o DoStart) /\ First(s \o DoStart) = First(s)
  <2>1. Follows(op, Final(s), "create") BY <1>3 DEF Follows
  <2> QED BY <1>3, <2>1, Pieces, ChainConcat DEF Plan, Closes
<1>4. /\ Plan("restart", <<"halt", "discard">> \o DoStart)
      /\ First(<<"halt", "discard">> \o DoStart) = "halt"
  BY <1>3, Pieces, Zenon DEF First, Final
<1>5. Plan("upgrade", UpgradeCalls) /\ First(UpgradeCalls) = "pull"
  BY <1>3, Pieces, Zenon DEF First, Final, UpgradeCalls
<1>6. /\ Plan("rollback", <<"stop", "remove", "register">> \o DoStart)
      /\ First(<<"stop", "remove", "register">> \o DoStart) = "stop"
  BY <1>3, Pieces, Zenon DEF First, Final
<1>7. Plan("undo", UndoCalls) /\ First(UndoCalls) = "stop"
  BY <1>3, Pieces, Zenon DEF First, Final, UndoCalls
<1> QED BY <1>1, <1>2, <1>4, <1>5, <1>6, <1>7

\* The calls of an update and of an install.
LEMMA VerifiedPlans ==
    ASSUME NEW p \in {<< >>, <<"pull">>}, NEW m
    PROVE  /\ Plan("install", p \o Verify(m) \o <<"register">> \o DoStart)
           /\ First(p \o Verify(m) \o <<"register">> \o DoStart) \in Preparing \cup {"register"}
           /\ Plan("update", UpdateCalls(m))
           /\ First(UpdateCalls(m)) \in Preparing \cup {"stop"}
<1>1. ASSUME NEW q \in {<< >>, <<"pull">>}, NEW op \in {"update", "install"}, NEW r,
             Chain(op, r), \A i \in DOMAIN r : r[i] \notin Preparing,
             \A c \in Preparing : Follows(op, c, First(r)), Final(r) = "register"
      PROVE  /\ Chain(op, q \o Verify(m) \o r \o DoStart)
             /\ First(q \o Verify(m) \o r \o DoStart) \in Preparing \cup {First(r)}
             /\ Final(q \o Verify(m) \o r \o DoStart) = "start"
  <2> DEFINE s == q \o Verify(m)
  <2>1. s \in Seq(Calls) /\ \A i \in DOMAIN s : s[i] \in Preparing
    BY PreparesFirst, Zenon DEF Preparing
  <2> HIDE DEF s
  <2>2. /\ Chain(op, s \o r) /\ First(s \o r) \in Preparing \cup {First(r)}
        /\ Final(s \o r) = "register"
    BY <1>1, <2>1, PreparedThen
  <2>3. Follows(op, "register", "create") BY DEF Follows
  <2>4. /\ Chain(op, s \o r \o DoStart) /\ First(s \o r \o DoStart) = First(s \o r)
        /\ Final(s \o r \o DoStart) = "start"
    BY <2>2, <2>3, Pieces, ChainConcat
  <2> QED BY <2>2, <2>4 DEF s
<1>2. /\ Chain("install", <<"register">>) /\ First(<<"register">>) = "register"
      /\ Final(<<"register">>) = "register"
      /\ \A i \in DOMAIN <<"register">> : <<"register">>[i] \notin Preparing
      /\ \A c \in Preparing : Follows("install", c, "register")
  BY Pieces DEF First, Final, Preparing, Follows
<1>3. /\ Plan("install", p \o Verify(m) \o <<"register">> \o DoStart)
      /\ First(p \o Verify(m) \o <<"register">> \o DoStart) \in Preparing \cup {"register"}
  BY <1>1, <1>2, Zenon DEF Plan, Closes
<1> DEFINE r == <<"stop", "remove", "register">>
<1>4. /\ Chain("update", r) /\ First(r) = "stop" /\ Final(r) = "register"
      /\ \A i \in DOMAIN r : r[i] \notin Preparing
      /\ \A c \in Preparing : Follows("update", c, "stop")
  BY Pieces DEF First, Final, Preparing, Follows
<1> DEFINE u == <<"pull">> \o Verify(m) \o r \o DoStart
<1>5. Chain("update", u) /\ First(u) \in Preparing \cup {"stop"} /\ Final(u) = "start"
  BY <1>1, <1>4
<1>6. /\ Chain("update", <<"soak">>) /\ First(<<"soak">>) = "soak" /\ Final(<<"soak">>) = "soak"
      /\ \A i \in DOMAIN <<"soak">> : <<"soak">>[i] \notin Preparing
      /\ Follows("update", "start", "soak")
  BY Pieces DEF First, Final, Preparing, Follows
<1>7. UpdateCalls(m) = u \o <<"soak">> BY DEF UpdateCalls
<1> HIDE DEF u
<1>8. Plan("update", u \o <<"soak">>) /\ First(u \o <<"soak">>) = First(u)
  BY <1>5, <1>6, ChainConcat DEF Plan, Closes
<1> QED BY <1>3, <1>5, <1>7, <1>8

-----------------------------------------------------------------------------
(* The registry and the container.                                         *)

Operations == {"start", "stop", "restart", "upgrade", "update", "undo", "rollback",
               "install", "watch"}

Shapes ==
    /\ \A b \in boxes : b.cid \in 1..MaxBoxes
    /\ \A x, y \in boxes : x = y
    /\ made \in 0..MaxBoxes
    /\ entry.cid \in 0..MaxBoxes /\ entry.running \in BOOLEAN
    /\ job # NoJob => job.op \in Operations
    /\ watch \in [cid : 0..MaxBoxes, down : BOOLEAN]
    /\ polled \in BOOLEAN /\ upgraded \subseteq Images
    /\ faults \in 0..MaxFaults /\ ends \in 0..MaxEnds

Planned == job # NoJob => Plan(job.op, job.todo)

Named == \E b \in boxes : b.cid = entry.cid
NamedRight == \E b \in boxes : b.cid = entry.cid /\ b.image = entry.spec.image
Fresh == \E b \in boxes : b.cid = made /\ b.image = entry.spec.image

\* What the next call finds, whatever has failed.
Staged ==
    /\ entry.running => entry.cid # 0
    /\ Call = "start" => Fresh

\* While the daemon does what it is asked: the registry's container is there, and is
\* named rightly but in an install over a running connector, whose create will fail;
\* a container is only removed, and a spec only changed, once the registry has let it go.
Coherent ==
    /\ entry.cid # 0 => Named
    /\ entry.running => NamedRight \/ (job.op = "install" /\ Call = "create")
    /\ Call \in {"remove", "restore", "start"} => entry.cid = 0
    /\ Call = "register" => job.op = "install" \/ entry.cid = 0

\* The stages of a rollback after a failed soak.
Undoing ==
    job.op = "undo" /\ job.cid # 0 =>
        /\ Call \in {"stop", "remove", "restore", "create", "start"}
        /\ Call = "stop" => entry.cid = job.cid
        /\ Call = "remove" => \E b \in boxes : b.cid = job.cid /\ ~b.up
        /\ Call \in {"restore", "create"} => boxes = {}
        /\ Call \in {"create", "start"} => entry.spec.image = job.old

BoxInv == ImagesInv /\ Shapes /\ Planned /\ Staged /\ (faults = 0 => Coherent /\ Undoing)

\* An operation that takes the lock sets out with a plan.
Takes ==
    /\ job' # NoJob /\ job'.op \in Operations \ {"undo"}
    /\ Plan(job'.op, job'.todo) /\ Opens(job'.op, First(job'.todo))

LEMMA BeginTakes ==
    ASSUME NEW op \in Operations \ {"undo"}, NEW todo, NEW spec, Begin(op, todo, spec),
           Plan(op, todo), Opens(op, First(todo))
    PROVE  Takes
<1>1. job'.op = op /\ job'.todo = todo BY DEF Begin
<1>2. op # "none" /\ NoJob.op = "none" BY Zenon DEF Operations, NoJob
<1> QED BY <1>1, <1>2 DEF Takes

\* Update takes the lock.
LEMMA UpdateTakes ==
    ASSUME Update
    PROVE  Idle /\ Takes
<1>1. PICK m \in Validated : Begin("update", UpdateCalls(m),
                                   [image |-> m.image, prev |-> entry.spec.image])
  BY DEF Update
<1>2. Plan("update", UpdateCalls(m)) /\ First(UpdateCalls(m)) \in Preparing \cup {"stop"}
  BY VerifiedPlans
<1>3. Opens("update", First(UpdateCalls(m))) BY <1>2 DEF Opens, Preparing
<1> QED BY <1>1, <1>2, <1>3, BeginTakes, Zenon DEF Operations, Update

\* So do the operations of the Admin API and Install.
LEMMA AdminTakes ==
    ASSUME AdminAction \/ Install
    PROVE  Idle /\ Takes
<1>1. CASE Start
  <2>1. Opens("start", "create") BY DEF Opens
  <2> QED BY <1>1, <2>1, Plans, BeginTakes DEF Start, Operations
<1>2. CASE Stop
  <2>1. Opens("stop", "stop") BY DEF Opens
  <2> QED BY <1>2, <2>1, Plans, BeginTakes DEF Stop, Operations
<1>3. CASE Restart
  <2>1. Opens("restart", "create") /\ Opens("restart", "halt") BY DEF Opens
  <2>2. << >> \o DoStart = DoStart BY Parts DEF Harmless
  <2>3. PICK t : /\ Begin("restart", t, NoSpec)
                 /\ t \in {<<"halt", "discard">> \o DoStart, DoStart}
    BY <1>3, <2>2, Zenon DEF Restart
  <2>4. Plan("restart", t) /\ Opens("restart", First(t)) BY <2>1, <2>3, Plans, Zenon
  <2> QED BY <1>3, <2>3, <2>4, BeginTakes DEF Restart, Operations
<1>4. CASE Upgrade
  <2>1. Opens("upgrade", "pull") BY DEF Opens
  <2> QED BY <1>4, <2>1, Plans, BeginTakes DEF Upgrade, Operations
<1>5. CASE Rollback
  <2>1. Opens("rollback", "stop") BY DEF Opens
  <2> QED BY <1>5, <2>1, Plans, BeginTakes DEF Rollback, Operations
<1>6. CASE AdminUpdate BY <1>6, UpdateTakes DEF AdminUpdate
<1>7. CASE Install
  <2>1. PICK m \in Validated, ref \in Refs :
          Begin("install", (IF ref = Tag THEN << >> ELSE <<"pull">>) \o Verify(m)
                           \o <<"register">> \o DoStart,
                [image |-> ref, prev |-> None])
    BY <1>7 DEF Install
  <2>2. PICK p \in {<< >>, <<"pull">>} : p = IF ref = Tag THEN << >> ELSE <<"pull">>
    OBVIOUS
  <2> DEFINE t == p \o Verify(m) \o <<"register">> \o DoStart
  <2>3. Plan("install", t) /\ First(t) \in Preparing \cup {"register"} BY VerifiedPlans, Zenon
  <2>4. Begin("install", t, [image |-> ref, prev |-> None]) BY <2>1, <2>2
  <2> HIDE DEF t
  <2>5. Opens("install", First(t)) BY <2>3 DEF Opens, Preparing
  <2> QED BY <1>7, <2>3, <2>4, <2>5, BeginTakes DEF Operations, Install
<1> QED BY <1>1, <1>2, <1>3, <1>4, <1>5, <1>6, <1>7 DEF AdminAction

\* The next call, before and after the operation goes on.
LEMMA CallIs ==
    /\ job = NoJob => Call = "none"
    /\ job # NoJob /\ job.todo \in Seq(Calls) /\ job.todo # << >> => Call = First(job.todo)
    /\ job' = NoJob => Call' = "none"
    /\ job' # NoJob /\ job'.todo \in Seq(Calls) /\ job'.todo # << >> => Call' = First(job'.todo)
BY DEF Call, Idle, First

\* An operation that takes the lock leaves the registry as it is.
LEMMA TakesKeeps ==
    ASSUME BoxInv, ImagesInv', Idle, Takes, UNCHANGED <<boxes, made, entry, faults, ends>>,
           upgraded' \subseteq Images, polled' \in BOOLEAN,
           watch' \in [cid : 0..MaxBoxes, down : BOOLEAN]
    PROVE  BoxInv'
<1>1. Shapes' BY DEF BoxInv, Shapes, Takes
<1>2. Planned' BY Zenon DEF Takes, Planned
<1>3. Call' = First(job'.todo) BY CallIs DEF Takes, Plan, Chain
<1>4. Opens(job'.op, Call') /\ job'.op # "undo" BY <1>3 DEF Takes
<1>5. Call = "none" /\ job.op # "install" BY DEF Call, Idle, NoJob
<1>6. Staged' BY <1>4, Zenon DEF BoxInv, Staged, Opens
<1>7. ASSUME faults' = 0 PROVE Coherent' /\ Undoing'
  <2>1. (entry.cid # 0 => Named) /\ (entry.running => NamedRight)
    BY <1>5, <1>7 DEF BoxInv, Coherent
  <2>2. (entry'.cid # 0 => Named') /\ (entry'.running => NamedRight')
    BY <2>1 DEF Named, NamedRight
  <2> QED BY <1>4, <2>2 DEF Coherent, Undoing, Opens
<1> QED BY <1>1, <1>2, <1>6, <1>7 DEF BoxInv

\* Steps that leave the containers, the registry and the operation alone.
LEMMA IdleKeeps ==
    ASSUME BoxInv, ImagesInv', UNCHANGED <<boxes, made, entry, job, faults, ends>>,
           upgraded' \subseteq Images, polled' \in BOOLEAN,
           watch' \in [cid : 0..MaxBoxes, down : BOOLEAN]
    PROVE  BoxInv'
<1>1. Shapes' BY DEF BoxInv, Shapes
<1>2. Planned' BY DEF BoxInv, Planned
<1>3. Call' = Call BY DEF Call, Idle
<1>4. Staged' BY <1>3 DEF BoxInv, Staged, Fresh
<1>5. faults' = 0 => Coherent' BY <1>3 DEF BoxInv, Coherent, Named, NamedRight
<1>6. faults' = 0 => Undoing' BY <1>3 DEF BoxInv, Undoing
<1> QED BY <1>1, <1>2, <1>4, <1>5, <1>6 DEF BoxInv

\* Watch restarts the connector.
LEMMA WatchTakes ==
    ASSUME BoxInv, ImagesInv', WatchRestart, Idle, Known
    PROVE  BoxInv'
<1>1. /\ entry' = [entry EXCEPT !.cid = 0, !.running = FALSE]
      /\ job' = [NoJob EXCEPT !.op = "watch", !.todo = DoStart]
      /\ watch' = NoWatch /\ UNCHANGED <<boxes, made, polled, upgraded, faults, ends>>
  BY DEF WatchRestart
<1>2. entry = [spec |-> entry.spec, cid |-> entry.cid, running |-> entry.running]
  BY DEF BoxInv, ImagesInv, EntryOK
<1>3. entry'.cid = 0 /\ entry'.running = FALSE BY <1>1, <1>2
<1>4. job'.op = "watch" /\ job'.todo = DoStart /\ job' # NoJob BY <1>1, Zenon DEF NoJob
<1>5. Call' = "create" BY <1>4, CallIs, Plans, Zenon DEF Plan, Chain
<1>6. watch' \in [cid : 0..MaxBoxes, down : BOOLEAN]
  <2>1. 0 \in 0..MaxBoxes BY LifecycleBoundsAssumption
  <2>2. FALSE \in BOOLEAN OBVIOUS
  <2> QED BY <1>1, <2>1, <2>2 DEF NoWatch
<1>7. entry'.cid \in 0..MaxBoxes /\ entry'.running \in BOOLEAN
  <2>1. 0 \in 0..MaxBoxes BY LifecycleBoundsAssumption
  <2> QED BY <1>3, <2>1, Zenon
<1>8. Shapes' BY <1>1, <1>4, <1>6, <1>7 DEF BoxInv, Shapes, Operations
<1>9. Planned' BY <1>4, Plans DEF Planned
<1>10. Staged' BY <1>3, <1>5 DEF Staged
<1>11. Coherent' /\ Undoing' BY <1>3, <1>4, <1>5 DEF Coherent, Undoing
<1> QED BY <1>8, <1>9, <1>10, <1>11 DEF BoxInv

-----------------------------------------------------------------------------
(* The calls, the registry and the container.                              *)

\* What is left of a plan is a plan.
LEMMA PlanTail ==
    ASSUME NEW op, NEW t, Plan(op, t)
    PROVE  /\ Len(t) = 1 => Closes(op, First(t))
           /\ Len(t) # 1 => Plan(op, Tail(t)) /\ Follows(op, First(t), First(Tail(t)))
<1>1. t \in Seq(Calls) /\ t # << >> BY DEF Plan, Chain
<1>2. CASE Len(t) = 1 BY <1>2 DEF Plan, First, Final
<1>3. CASE Len(t) # 1
  <2> DEFINE r == Tail(t)
  <2>1. /\ r \in Seq(Calls) /\ r # << >> /\ Len(t) \in Nat /\ Len(t) > 1 /\ Len(r) = Len(t) - 1
        /\ DOMAIN t = 1..Len(t) /\ DOMAIN r = 1..(Len(t) - 1)
    <3>1. Len(t) \in Nat /\ Len(t) # 0 /\ DOMAIN t = 1..Len(t) BY <1>1
    <3>2. r \in Seq(Calls) /\ Len(r) = Len(t) - 1 BY <1>1, <3>1
    <3>3. DOMAIN r = 1..Len(r) BY <3>2
    <3>4. Len(t) > 1 /\ 1..Len(r) = 1..(Len(t) - 1) BY <1>3, <3>1, <3>2
    <3>5. r # << >> BY <1>1, <1>3, TailOrder
    <3> HIDE DEF r
    <3> QED BY <3>1, <3>2, <3>3, <3>4, <3>5
  <2>2. \A i \in 1..(Len(t) - 1) : r[i] = t[i + 1] BY <1>1, <2>1
  <2> HIDE DEF r
  <2>3. PrepareFirst(r)
    <3> SUFFICES ASSUME NEW i \in DOMAIN r, NEW j \in DOMAIN r, i < j, r[j] \in Preparing
                 PROVE  r[i] \in Preparing
      BY DEF PrepareFirst
    <3>1. /\ i + 1 \in DOMAIN t /\ j + 1 \in DOMAIN t /\ i + 1 < j + 1
          /\ r[i] = t[i + 1] /\ r[j] = t[j + 1]
      BY <2>1, <2>2
    <3> QED BY <3>1 DEF Plan, Chain, PrepareFirst
  <2>4. Linked(op, r)
    <3> SUFFICES ASSUME NEW i \in DOMAIN r, i + 1 \in DOMAIN r
                 PROVE  Follows(op, r[i], r[i + 1])
      BY DEF Linked
    <3>1. PICK k \in Nat : k = i + 1 BY <2>1
    <3>2. k \in DOMAIN t /\ k + 1 \in DOMAIN t /\ r[i] = t[k] /\ r[i + 1] = t[k + 1]
      BY <2>1, <2>2, <3>1
    <3> QED BY <3>2, Zenon DEF Plan, Chain, Linked
  <2>5. Final(r) = Final(t) BY <2>1, <2>2 DEF Final
  <2>6. Follows(op, First(t), First(r))
    <3>1. 1 \in DOMAIN t /\ 1 + 1 \in DOMAIN t /\ r[1] = t[1 + 1] BY <2>1, <2>2
    <3> QED BY <3>1, Zenon DEF First, Plan, Chain, Linked
  <2> QED BY <1>3, <2>1, <2>3, <2>4, <2>5, <2>6 DEF Plan, Chain, r
<1> QED BY <1>2, <1>3

\* The operation goes on to its next call, or ends.
Ended == job' = NoJob /\ Call' = "none"
Goes ==
    /\ job' # NoJob /\ job'.op = job.op /\ job'.cid = job.cid /\ job'.old = job.old
    /\ Plan(job'.op, job'.todo) /\ Follows(job.op, Call, Call')

LEMMA AdvanceGoes ==
    ASSUME BoxInv, ~Idle, Advance
    PROVE  (Ended /\ Closes(job.op, Call)) \/ Goes
<1>1. /\ job # NoJob /\ Plan(job.op, job.todo)
      /\ job = [op |-> job.op, todo |-> job.todo, cid |-> job.cid, spec |-> job.spec,
                old |-> job.old]
  BY DEF BoxInv, Planned, Idle, ImagesInv, IsJob
<1>2. Call = First(job.todo) BY <1>1, CallIs DEF Plan, Chain
<1>3. CASE Len(job.todo) = 1
  <2>1. job' = NoJob BY <1>3, Zenon DEF Advance
  <2> QED BY <1>1, <1>2, <1>3, <2>1, PlanTail, CallIs DEF Ended
<1>4. CASE Len(job.todo) # 1
  <2>1. job' = [job EXCEPT !.todo = Tail(@)] BY <1>4 DEF Advance
  <2>2. /\ job'.op = job.op /\ job'.todo = Tail(job.todo) /\ job'.cid = job.cid
        /\ job'.old = job.old
    BY <1>1, <2>1
  <2>3. Plan(job.op, Tail(job.todo)) /\ Follows(job.op, Call, First(Tail(job.todo)))
    BY <1>1, <1>2, <1>4, PlanTail
  <2>4. job' # NoJob
    <3>1. NoJob.todo = << >> BY DEF NoJob
    <3> QED BY <2>2, <2>3, <3>1, Zenon DEF Plan, Chain
  <2>5. Call' = First(Tail(job.todo)) BY <2>2, <2>3, <2>4, CallIs, Zenon DEF Plan, Chain
  <2> QED BY <2>2, <2>3, <2>4, <2>5 DEF Goes
<1> QED BY <1>3, <1>4

\* A call that fails lets the operation go on, turn back or end.
TurnsBack ==
    /\ job' # NoJob /\ job.op = "update" /\ job'.op = "undo" /\ job'.cid = entry.cid
    /\ job'.old = job.old /\ Plan(job'.op, job'.todo) /\ Call' = "stop"

LEMMA ErrorGoes ==
    ASSUME BoxInv, ~Idle, Error
    PROVE  /\ \/ Tolerated /\ (Goes \/ (Ended /\ Closes(job.op, Call)))
              \/ ~Tolerated /\ TurnsBack
              \/ ~Tolerated /\ Ended
           /\ \/ Forget /\ entry' = NoEntry /\ ~Tolerated /\ job' = NoJob
              \/ ~Forget /\ entry' = entry
<1>1. /\ job # NoJob
      /\ job = [op |-> job.op, todo |-> job.todo, cid |-> job.cid, spec |-> job.spec,
                old |-> job.old]
  BY DEF BoxInv, Idle, ImagesInv, IsJob
<1>2. Forget => ~Tolerated /\ job.op # "update" BY DEF Forget, Tolerated
<1>3. CASE Tolerated
  <2>1. Advance BY <1>3 DEF Error, Tolerated
  <2>2. entry' = entry /\ ~Forget BY <1>2, <1>3, Zenon DEF Error
  <2> QED BY <1>3, <2>1, <2>2, AdvanceGoes
<1>4. CASE ~Tolerated /\ job.op = "update" /\ Call \in {"create", "start", "soak"}
  <2>1. job' = [job EXCEPT !.op = "undo", !.todo = UndoCalls, !.cid = entry.cid]
    BY <1>4 DEF Error
  <2>2. /\ job'.op = "undo" /\ job'.todo = UndoCalls /\ job'.cid = entry.cid
        /\ job'.old = job.old
    BY <1>1, <2>1
  <2>3. job' # NoJob BY <2>2, SMTT(20), Zenon DEF NoJob
  <2>4. Call' = "stop" BY <2>2, <2>3, CallIs, Plans DEF Plan, Chain
  <2>5. entry' = entry /\ ~Forget BY <1>2, <1>4 DEF Error
  <2> QED BY <1>4, <2>2, <2>3, <2>4, <2>5, Plans DEF TurnsBack
<1>5. CASE ~Tolerated /\ ~(job.op = "update" /\ Call \in {"create", "start", "soak"})
  <2>1. job' = NoJob BY <1>5 DEF Error
  <2> QED BY <1>5, <2>1, CallIs DEF Ended, Error
<1> QED BY <1>3, <1>4, <1>5

\* The containers, when their process is started or ends.
LEMMA UpOrDown ==
    ASSUME boxes \subseteq [cid : Nat, image : Refs, up : BOOLEAN], NEW v \in BOOLEAN,
           boxes' = {[b EXCEPT !.up = v] : b \in boxes}
    PROVE  /\ \A b \in boxes : \E c \in boxes' : c.cid = b.cid /\ c.image = b.image /\ c.up = v
           /\ \A c \in boxes' : \E b \in boxes : c.cid = b.cid /\ c.image = b.image /\ c.up = v
           /\ boxes = {} => boxes' = {}
           /\ (\A x, y \in boxes : x = y) => (\A x, y \in boxes' : x = y)
<1>1. \A b \in boxes : LET c == [b EXCEPT !.up = v]
                       IN  c \in boxes' /\ c.cid = b.cid /\ c.image = b.image /\ c.up = v
  OBVIOUS
<1>2. \A c \in boxes' : \E b \in boxes : c = [b EXCEPT !.up = v] OBVIOUS
<1>3. \A c \in boxes' : \E b \in boxes : c.cid = b.cid /\ c.image = b.image /\ c.up = v
  BY <1>1, <1>2
<1>4. boxes = {} => boxes' = {} BY <1>2
<1>5. (\A x, y \in boxes : x = y) => (\A x, y \in boxes' : x = y) BY <1>2
<1> QED BY <1>1, <1>3, <1>4, <1>5, Zenon

\* The registry and the operation after a call that failed.
LEMMA ErrorShapes ==
    ASSUME BoxInv, ~Idle, Error
    PROVE  /\ Planned' /\ Staged' /\ (job' # NoJob => job'.op \in Operations)
           /\ entry'.cid \in 0..MaxBoxes /\ entry'.running \in BOOLEAN
<1>1. /\ entry.cid \in 0..MaxBoxes /\ entry.running \in BOOLEAN
      /\ job.op \in Operations /\ (entry.running => entry.cid # 0)
  BY DEF BoxInv, Shapes, Staged, Idle
<1>2. Planned' BY ErrorGoes, Zenon DEF Goes, Ended, TurnsBack, Planned
<1>3. job' # NoJob => job'.op \in Operations
  BY <1>1, ErrorGoes DEF Goes, Ended, TurnsBack, Operations
<1>4. Call' # "start"
  <2>1. Tolerated => Call # "create" BY DEF Tolerated
  <2> QED BY <2>1, ErrorGoes DEF Goes, Ended, TurnsBack, Follows
<1>5. entry' = entry \/ entry' = NoEntry BY ErrorGoes
<1>6. 0 \in 0..MaxBoxes BY LifecycleBoundsAssumption
<1>7. /\ entry'.cid \in 0..MaxBoxes /\ entry'.running \in BOOLEAN
      /\ entry'.running => entry'.cid # 0
  <2>1. CASE entry' = entry BY <1>1, <2>1
  <2>2. CASE entry' = NoEntry
    <3>1. entry'.cid = 0 /\ entry'.running = FALSE BY <2>2 DEF NoEntry
    <3> QED BY <1>6, <3>1, Zenon
  <2> QED BY <1>5, <2>1, <2>2
<1>8. Staged' BY <1>4, <1>7 DEF Staged
<1> QED BY <1>2, <1>3, <1>7, <1>8, Zenon

\* The containers after a call that succeeded: one at most.
LEMMA DaemonShapes ==
    ASSUME BoxInv, ~Idle, Succeeds, Daemon, Call = "create" => made < MaxBoxes
    PROVE  /\ \A b \in boxes' : b.cid \in 1..MaxBoxes
           /\ \A x, y \in boxes' : x = y
           /\ made' \in 0..MaxBoxes
<1>1. /\ boxes \subseteq [cid : Nat, image : Refs, up : BOOLEAN]
      /\ \A b \in boxes : b.cid \in 1..MaxBoxes
      /\ \A x, y \in boxes : x = y
      /\ made \in 0..MaxBoxes /\ MaxBoxes \in Nat
  BY LifecycleBoundsAssumption DEF BoxInv, ImagesInv, BoxesOK, Shapes
<1>2. made' \in 0..MaxBoxes BY <1>1 DEF Daemon
<1>3. CASE boxes' = boxes \/ boxes' = {} BY <1>1, <1>2, <1>3
<1>4. CASE Call = "create" /\ boxes' = {Created}
  <2>1. Created.cid = made + 1 BY DEF Created
  <2>2. made + 1 \in 1..MaxBoxes BY <1>1, <1>4
  <2> QED BY <1>2, <1>4, <2>1, <2>2
<1>5. CASE boxes' = {[b EXCEPT !.up = (Call = "start")] : b \in boxes}
  <2>1. PICK v \in BOOLEAN : v = (Call = "start") BY Zenon
  <2>2. boxes' = {[b EXCEPT !.up = v] : b \in boxes} BY <1>5, <2>1
  <2>3. /\ \A c \in boxes' : \E b \in boxes : c.cid = b.cid
        /\ \A x, y \in boxes' : x = y
    BY <1>1, <2>2, UpOrDown
  <2> QED BY <1>1, <1>2, <2>3
<1>6. \/ boxes' = boxes \/ boxes' = {} \/ (Call = "create" /\ boxes' = {Created})
      \/ boxes' = {[b EXCEPT !.up = (Call = "start")] : b \in boxes}
  BY DEF Daemon
<1> QED BY <1>3, <1>4, <1>5, <1>6

\* A rollback that the daemon lets through does not fail.
LEMMA UndoSucceeds ==
    ASSUME BoxInv, ~Idle, faults = 0, job.op = "undo", job.cid # 0
    PROVE  Succeeds /\ Call # "soak" /\ ~Skipped
<1>1. Coherent /\ Undoing /\ Staged BY DEF BoxInv
<1>2. Call \in {"stop", "remove", "restore", "create", "start"} BY <1>1 DEF Undoing
<1>3. CASE Call = "stop"
  <2>1. Target = entry.cid /\ entry.cid # 0 BY <1>1, <1>3 DEF Undoing, Target
  <2>2. \E b \in boxes : b.cid = Target BY <1>1, <2>1 DEF Coherent, Named
  <2> QED BY <1>3, <2>1, <2>2 DEF Succeeds, Skipped
<1>4. CASE Call = "remove"
  <2>1. Target = job.cid BY <1>4 DEF Target
  <2>2. \E b \in boxes : b.cid = Target /\ ~b.up BY <1>1, <1>4, <2>1 DEF Undoing
  <2> QED BY <1>4, <2>1, <2>2 DEF Succeeds, Skipped
<1>5. CASE Call = "restore" BY <1>5 DEF Succeeds, Skipped
<1>6. CASE Call = "create"
  <2>1. Known BY DEF BoxInv, ImagesInv, Installing, Idle
  <2>2. boxes = {} BY <1>1, <1>6 DEF Undoing
  <2> QED BY <1>6, <2>1, <2>2 DEF Succeeds, Skipped
<1>7. CASE Call = "start"
  <2>1. Target = made BY <1>7 DEF Target
  <2>2. \E b \in boxes : b.cid = Target BY <1>1, <1>7, <2>1 DEF Staged, Fresh
  <2> QED BY <1>7, <2>2 DEF Succeeds, Skipped
<1> QED BY <1>2, <1>3, <1>4, <1>5, <1>6, <1>7

\* A call that the daemon refuses.
LEMMA FailsKeeps ==
    ASSUME BoxInv, ~Idle, CallFails, faults = 0
    PROVE  Coherent' /\ Undoing'
<1>1. Coherent /\ Staged /\ Error /\ UNCHANGED <<boxes, made>> BY DEF BoxInv, CallFails
<1>3. CASE Forget
  <2>1. entry' = NoEntry /\ job' = NoJob BY <1>1, <1>3, ErrorGoes, Zenon
  <2>2. entry'.cid = 0 /\ entry'.running = FALSE /\ Call' = "none" /\ job'.op = "none"
    BY <2>1, CallIs DEF NoEntry, NoJob
  <2> QED BY <2>2 DEF Coherent, Undoing
<1>4. CASE ~Forget
  <2>1. entry' = entry BY <1>1, <1>4, ErrorGoes, Zenon
  <2>2. (entry.cid # 0 => Named') /\ (NamedRight => NamedRight')
    BY <1>1, <2>1, Zenon DEF Coherent, Named, NamedRight
  <2>3. CASE Ended
    <3>1. entry.running => NamedRight'
      <4>1. ~(job.op = "install" /\ Call = "create") BY <1>4 DEF Forget
      <4> QED BY <1>1, <2>2, <4>1 DEF Coherent
    <3>2. Call' = "none" /\ job'.op = "none" BY <2>3, Zenon DEF Ended, NoJob
    <3> QED BY <2>1, <2>2, <3>1, <3>2 DEF Coherent, Undoing
  <2>4. CASE TurnsBack
    <3>1. entry.running => NamedRight' BY <1>1, <2>2, <2>4, Zenon DEF Coherent, TurnsBack
    <3> QED BY <2>1, <2>2, <2>4, <3>1, Zenon DEF Coherent, Undoing, TurnsBack
  <2>5. CASE Tolerated /\ Goes
    <3>1. entry.cid = 0
      <4>1. CASE Call = "remove" BY <1>1, <4>1 DEF Coherent
      <4>2. CASE Call = "stop" /\ entry.cid # 0
        <5>1. Target = entry.cid BY <4>2 DEF Target
        <5>2. \E b \in boxes : b.cid = Target BY <1>1, <4>2, <5>1 DEF Coherent, Named
        <5>3. Succeeds BY <4>2, <5>2 DEF Succeeds
        <5> QED BY <4>2, <5>3 DEF CallFails
      <4> QED BY <2>5, <4>1, <4>2 DEF Tolerated
    <3>2. ~entry.running BY <1>1, <3>1 DEF Staged
    <3>3. ~(job.op = "undo" /\ job.cid # 0) BY UndoSucceeds DEF CallFails
    <3>4. job'.op = job.op /\ job'.cid = job.cid BY <2>5, Zenon DEF Goes
    <3> QED BY <2>1, <3>1, <3>2, <3>3, <3>4 DEF Coherent, Undoing
  <2> QED BY <1>1, <2>3, <2>4, <2>5, ErrorGoes
<1> QED BY <1>3, <1>4

\* What the registry says after a call that succeeded.
LEMMA RegistryAfter ==
    ASSUME ImagesInv, entry' = Registered
    PROVE  /\ Call = "start" =>
                entry'.cid = made /\ entry'.running = TRUE /\ entry'.spec = entry.spec
           /\ Call \in {"stop", "discard"} =>
                entry'.cid = 0 /\ entry'.running = FALSE /\ entry'.spec = entry.spec
           /\ Call \in {"register", "restore"} =>
                entry'.cid = entry.cid /\ entry'.running = entry.running
           /\ Call = "restore" => entry'.spec.image = job.old
           /\ Call \notin {"start", "stop", "discard", "register", "restore"} => entry' = entry
<1>1. /\ entry = [spec |-> entry.spec, cid |-> entry.cid, running |-> entry.running]
      /\ entry.spec \in [image : AnyRef, prev : AnyRef]
  BY DEF ImagesInv, EntryOK, Specs
<1>2. Call = "start" =>
        entry'.cid = made /\ entry'.running = TRUE /\ entry'.spec = entry.spec
  BY <1>1, Zenon DEF Registered
<1>3. Call \in {"stop", "discard"} =>
        entry'.cid = 0 /\ entry'.running = FALSE /\ entry'.spec = entry.spec
  BY <1>1 DEF Registered
<1>4. Call = "register" => entry'.cid = entry.cid /\ entry'.running = entry.running
  BY <1>1 DEF Registered
<1>5. Call = "restore" =>
        /\ entry'.cid = entry.cid /\ entry'.running = entry.running
        /\ entry'.spec.image = job.old
  BY <1>1 DEF Registered
<1>6. Call \notin {"start", "stop", "discard", "register", "restore"} => entry' = entry
  BY DEF Registered
<1> QED BY <1>2, <1>3, <1>4, <1>5, <1>6, Zenon

\* The containers after a call that succeeded.
LEMMA BoxesAfter ==
    ASSUME BoxInv, ~Idle, Succeeds, Daemon
    PROVE  /\ Call \notin {"create", "remove", "discard"} =>
                /\ made' = made
                /\ \A b \in boxes : \E c \in boxes' : c.cid = b.cid /\ c.image = b.image
           /\ Call \in {"start", "stop"} /\ ~Skipped =>
                \A b \in boxes :
                    \E c \in boxes' : c.cid = b.cid /\ c.image = b.image /\ c.up = (Call = "start")
           /\ Call \in {"remove", "discard"} /\ ~Skipped => boxes' = {}
           /\ Call \in {"register", "restore"} => boxes' = boxes
           /\ Call = "create" =>
                /\ boxes = {} /\ made' = made + 1
                /\ boxes' = {[cid |-> made', image |-> entry.spec.image, up |-> FALSE]}
<1>1. boxes \subseteq [cid : Nat, image : Refs, up : BOOLEAN] BY DEF BoxInv, ImagesInv, BoxesOK
<1>2. CASE Skipped
  <2>1. Call \in {"stop", "remove"} BY <1>2 DEF Skipped
  <2>2. boxes' = boxes /\ made' = made BY <1>2, <2>1 DEF Daemon
  <2> QED BY <1>2, <2>1, <2>2
<1>3. CASE ~Skipped /\ Call \in {"start", "stop", "halt"}
  <2>1. boxes' = {[b EXCEPT !.up = (Call = "start")] : b \in boxes} /\ made' = made
    BY <1>3 DEF Daemon
  <2>2. PICK v \in BOOLEAN : v = (Call = "start") BY Zenon
  <2>3. boxes' = {[b EXCEPT !.up = v] : b \in boxes} BY <2>1, <2>2
  <2>4. \A b \in boxes : \E c \in boxes' : c.cid = b.cid /\ c.image = b.image /\ c.up = v
    BY <1>1, <2>3, UpOrDown, Zenon
  <2> QED BY <1>3, <2>1, <2>2, <2>4, Zenon
<1>4. CASE ~Skipped /\ Call \in {"remove", "discard"} BY <1>4 DEF Daemon
<1>5. CASE Call = "create"
  <2>1. boxes = {} BY <1>5 DEF Succeeds, Skipped
  <2> QED BY <1>5, <2>1 DEF Daemon, Created, Skipped
<1>6. CASE ~Skipped /\ Call \notin {"create", "start", "stop", "halt", "remove", "discard"}
  BY <1>6, Zenon DEF Daemon
<1> QED BY <1>2, <1>3, <1>4, <1>5, <1>6, Zenon

\* The call that comes next, whether the operation goes on or ends.
LEMMA NextCall ==
    ASSUME BoxInv, ~Idle, Advance
    PROVE  /\ Call' = "remove" => Call = "stop"
           /\ Call' = "restore" => Call = "remove"
           /\ Call' = "register" => Call = "remove" \/ job'.op = "install"
           /\ Call' = "start" => Call = "create"
           /\ Call' = "create" => Call \in {"register", "restore", "discard"}
           /\ Call = "register" => Call' = "create" /\ job'.op = job.op
           /\ Planned' /\ (job' # NoJob => job'.op \in Operations)
           /\ job'.op = "undo" => /\ job.op = "undo" /\ job'.cid = job.cid /\ job'.old = job.old
                                  /\ Call' \in {"remove", "restore", "create", "start"}
<1>1. job.op \in Operations BY Zenon DEF BoxInv, Shapes, Idle
<1>2. CASE Ended /\ Closes(job.op, Call)
  <2>1. job'.op = "none" BY <1>2, Zenon DEF Ended, NoJob
  <2> QED BY <1>2, <2>1, Zenon DEF Ended, Closes, Planned
<1>3. CASE Goes BY <1>1, <1>3 DEF Goes, Follows, Planned
<1> QED BY <1>2, <1>3, AdvanceGoes

\* A call that succeeds keeps the registry and the container together.
LEMMA SucceedsCoherent ==
    ASSUME BoxInv, ~Idle, CallSucceeds
    PROVE  Staged' /\ (faults = 0 => Coherent')
<1>1. Succeeds /\ Daemon /\ entry' = Registered /\ Advance BY DEF CallSucceeds
<1>2. /\ made \in 0..MaxBoxes /\ \A b \in boxes : b.cid \in 1..MaxBoxes /\ b.cid # 0
  BY LifecycleBoundsAssumption DEF BoxInv, Shapes
<1>3. (entry.running => entry.cid # 0) /\ (Call = "start" => Fresh) /\ (faults = 0 => Coherent)
  BY DEF BoxInv, Staged
<1>4. ImagesInv BY DEF BoxInv
<1>5. CASE Call \notin {"start", "stop", "discard", "register", "restore", "create", "remove"}
  <2>1. entry' = entry BY <1>1, <1>4, <1>5, RegistryAfter
  <2>2. \A b \in boxes : \E c \in boxes' : c.cid = b.cid /\ c.image = b.image
    BY <1>1, <1>5, BoxesAfter, Zenon
  <2>3. (Named => Named') /\ (NamedRight => NamedRight') BY <2>1, <2>2 DEF Named, NamedRight
  <2>4. Call' \notin {"remove", "restore", "start"} /\ (Call' = "register" => job'.op = "install")
    BY <1>1, <1>5, NextCall
  <2> QED BY <1>3, <1>5, <2>1, <2>3, <2>4, Zenon DEF Staged, Coherent
<1>6. CASE Call \in {"stop", "discard"}
  <2>1. entry'.cid = 0 /\ entry'.running = FALSE BY <1>1, <1>4, <1>6, RegistryAfter, Zenon
  <2>2. Call' # "start" BY <1>1, <1>6, NextCall
  <2> QED BY <2>1, <2>2 DEF Staged, Coherent
<1>7. CASE Call = "remove"
  <2>1. entry' = entry BY <1>1, <1>4, <1>7, RegistryAfter, Zenon
  <2>2. Call' # "start" BY <1>1, <1>7, NextCall
  <2>3. faults = 0 => entry.cid = 0 BY <1>3, <1>7 DEF Coherent
  <2> QED BY <1>3, <2>1, <2>2, <2>3 DEF Staged, Coherent
<1>8. CASE Call \in {"register", "restore"}
  <2>1. entry'.cid = entry.cid /\ entry'.running = entry.running
    BY <1>1, <1>4, <1>8, RegistryAfter, Zenon
  <2>2. Call' \notin {"start", "remove", "restore"} BY <1>1, <1>8, NextCall
  <2>3. boxes' = boxes BY <1>1, <1>8, BoxesAfter, Zenon
  <2>4. Named => Named' BY <2>1, <2>3, Zenon DEF Named
  <2>5. Call' = "register" => job'.op = "install" BY <1>1, <1>8, NextCall, Zenon
  <2>6. CASE Call = "register" /\ job.op = "install"
    <3>1. Call' = "create" /\ job'.op = "install" BY <1>1, <2>6, NextCall, Zenon
    <3> QED BY <1>3, <2>1, <2>4, <3>1, Zenon DEF Staged, Coherent
  <2>7. CASE ~(Call = "register" /\ job.op = "install")
    <3>1. faults = 0 => entry.cid = 0 BY <1>3, <1>8, <2>7, Zenon DEF Coherent
    <3> QED BY <1>3, <2>1, <2>2, <2>5, <3>1, SMTT(20), Zenon DEF Staged, Coherent
  <2> QED BY <2>6, <2>7, Zenon
<1>9. CASE Call = "create"
  <2>1. entry' = entry BY <1>1, <1>4, <1>9, RegistryAfter, Zenon
  <2>2. /\ boxes = {} /\ made' = made + 1
        /\ boxes' = {[cid |-> made', image |-> entry.spec.image, up |-> FALSE]}
    BY <1>1, <1>9, BoxesAfter
  <2>3. Fresh' BY <2>1, <2>2, Zenon DEF Fresh
  <2>4. faults = 0 => entry.cid = 0 BY <1>3, <2>2 DEF Coherent, Named
  <2>5. Call' \notin {"remove", "restore"} BY <1>1, <1>9, NextCall
  <2> QED BY <1>3, <2>1, <2>3, <2>4, <2>5, SMTT(20), Zenon DEF Staged, Coherent
<1>10. CASE Call = "start"
  <2>1. entry'.cid = made /\ entry'.running = TRUE /\ entry'.spec = entry.spec
    BY <1>1, <1>4, <1>10, RegistryAfter, Zenon
  <2>2. PICK b \in boxes : b.cid = made /\ b.image = entry.spec.image
    BY <1>3, <1>10 DEF Fresh
  <2>3. \E c \in boxes' : c.cid = b.cid /\ c.image = b.image BY <1>1, <1>10, BoxesAfter, Zenon
  <2>4. NamedRight' /\ Named' BY <2>1, <2>2, <2>3 DEF NamedRight, Named
  <2>5. entry'.cid # 0 BY <1>2, <2>1, <2>2, Zenon
  <2>6. Call' \notin {"remove", "restore", "start"} /\ (Call' = "register" => job'.op = "install")
    BY <1>1, <1>10, NextCall, Zenon
  <2> QED BY <2>4, <2>5, <2>6 DEF Staged, Coherent
<1> QED BY <1>5, <1>6, <1>7, <1>8, <1>9, <1>10

\* A rollback goes through its stages.
LEMMA SucceedsUndoing ==
    ASSUME BoxInv, ~Idle, CallSucceeds, faults = 0
    PROVE  Undoing'
<1> SUFFICES ASSUME job'.op = "undo", job'.cid # 0 PROVE Undoing' BY DEF Undoing
<1>1. Succeeds /\ Daemon /\ entry' = Registered /\ Advance BY DEF CallSucceeds
<1>2. /\ job.op = "undo" /\ job'.cid = job.cid /\ job'.old = job.old
      /\ Call' \in {"remove", "restore", "create", "start"}
  BY <1>1, NextCall
<1>3. Undoing /\ Coherent /\ ImagesInv BY DEF BoxInv
<1>4. ~Skipped BY <1>2, UndoSucceeds, Zenon
<1>5. CASE Call' = "remove"
  <2>1. Call = "stop" BY <1>1, <1>5, NextCall, Zenon
  <2>2. entry.cid = job.cid BY <1>2, <1>3, <2>1, Zenon DEF Undoing
  <2>3. PICK b \in boxes : b.cid = job.cid BY <1>2, <1>3, <2>2, Zenon DEF Coherent, Named
  <2>4. \E c \in boxes' : c.cid = b.cid /\ c.up = (Call = "start")
    BY <1>1, <1>4, <2>1, BoxesAfter
  <2>5. \E c \in boxes' : c.cid = job.cid /\ ~c.up BY <2>1, <2>3, <2>4, Zenon
  <2> QED BY <1>2, <1>5, <2>5, Zenon DEF Undoing
<1>6. CASE Call' = "restore"
  <2>1. Call = "remove" BY <1>1, <1>6, NextCall
  <2>2. boxes' = {} BY <1>1, <1>4, <2>1, BoxesAfter, Zenon
  <2> QED BY <1>6, <2>2 DEF Undoing
<1>7. CASE Call' = "create"
  <2>1. Call = "restore" BY <1>1, <1>2, <1>3, <1>7, NextCall, Zenon DEF Undoing
  <2>2. boxes = {} BY <1>2, <1>3, <2>1 DEF Undoing
  <2>3. boxes' = {} BY <1>1, <2>1, <2>2, BoxesAfter, Zenon
  <2>4. entry'.spec.image = job.old BY <1>1, <1>3, <2>1, RegistryAfter, Zenon
  <2> QED BY <1>2, <1>7, <2>3, <2>4, Zenon DEF Undoing
<1>8. CASE Call' = "start"
  <2>1. Call = "create" BY <1>1, <1>8, NextCall, Zenon
  <2>2. entry.spec.image = job.old BY <1>2, <1>3, <2>1, Zenon DEF Undoing
  <2>3. entry' = entry BY <1>1, <1>3, <2>1, RegistryAfter
  <2> QED BY <1>2, <1>8, <2>2, <2>3, Zenon DEF Undoing
<1> QED BY <1>2, <1>5, <1>6, <1>7, <1>8, Zenon

\* A process that exits.
LEMMA ExitKeeps ==
    ASSUME BoxInv, ImagesInv', Exit
    PROVE  BoxInv'
<1>1. /\ boxes' = {[b EXCEPT !.up = FALSE] : b \in boxes}
      /\ UNCHANGED <<made, entry, job, polled, watch, upgraded, faults, ends>>
  BY DEF Exit
<1>2. boxes \subseteq [cid : Nat, image : Refs, up : BOOLEAN] BY DEF BoxInv, ImagesInv, BoxesOK
<1>3. FALSE \in BOOLEAN OBVIOUS
<1>4. /\ \A b \in boxes : \E c \in boxes' : c.cid = b.cid /\ c.image = b.image /\ c.up = FALSE
      /\ \A c \in boxes' : \E b \in boxes : c.cid = b.cid
      /\ boxes = {} => boxes' = {}
      /\ (\A x, y \in boxes : x = y) => (\A x, y \in boxes' : x = y)
  BY <1>1, <1>2, <1>3, UpOrDown, Zenon
<1>5. Shapes' BY <1>1, <1>4 DEF BoxInv, Shapes
<1>6. Planned' BY <1>1 DEF BoxInv, Planned
<1>7. Call' = Call BY <1>1 DEF Call, Idle
<1>8. (Named => Named') /\ (NamedRight => NamedRight') /\ (Fresh => Fresh')
  <2>1. UNCHANGED <<made, entry>> BY <1>1
  <2>2. Named => Named' BY <1>4, <2>1 DEF Named
  <2>3. NamedRight => NamedRight' BY <1>4, <2>1 DEF NamedRight
  <2>4. Fresh => Fresh' BY <1>4, <2>1 DEF Fresh
  <2> QED BY <2>2, <2>3, <2>4
<1>9. Staged' BY <1>1, <1>7, <1>8 DEF BoxInv, Staged
<1>10. faults' = 0 => Coherent' BY <1>1, <1>7, <1>8 DEF BoxInv, Coherent
<1>11. faults' = 0 => Undoing' BY <1>1, <1>4, <1>7, ZenonT(40) DEF BoxInv, Undoing
<1> QED BY <1>5, <1>6, <1>9, <1>10, <1>11 DEF BoxInv

\* The gateway starts with an empty registry.
LEMMA EmptyRegistry ==
    ASSUME ImagesInv', entry' = NoEntry, job' = NoJob, Shapes'
    PROVE  BoxInv'
<1>1. entry'.cid = 0 /\ entry'.running = FALSE BY DEF NoEntry
<1>2. Call' = "none" /\ job'.op = "none" BY CallIs DEF NoJob
<1> QED BY <1>1, <1>2 DEF BoxInv, Planned, Staged, Coherent, Undoing

\* Every step keeps the registry and the container together.
LEMMA BoxStep ==
    ASSUME BoxInv, [LifecycleNext]_lifecycleVars
    PROVE  BoxInv'
<1>1. ImagesInv' BY ImagesStep, SMTT(20), Zenon DEF BoxInv
<1>2. /\ Shapes /\ upgraded \subseteq Images /\ polled \in BOOLEAN
      /\ watch \in [cid : 0..MaxBoxes, down : BOOLEAN]
      /\ faults \in 0..MaxFaults /\ ends \in 0..MaxEnds
      /\ MaxFaults \in Nat /\ MaxEnds \in Nat /\ MaxBoxes \in Nat
  BY LifecycleBoundsAssumption DEF BoxInv, Shapes
<1>3. NoWatch \in [cid : 0..MaxBoxes, down : BOOLEAN]
  <2>1. 0 \in 0..MaxBoxes BY <1>2
  <2>2. FALSE \in BOOLEAN OBVIOUS
  <2> QED BY <2>1, <2>2 DEF NoWatch
<1>4. CASE AdminAction \/ Install
  <2>1. /\ UNCHANGED <<boxes, made, entry, polled, watch, faults, ends>>
        /\ upgraded' \subseteq Images
    BY <1>2, <1>4, Zenon DEF AdminAction, Install, AdminOnly, Start, Stop, Restart, Upgrade, Rollback,
                      AdminUpdate
  <2> QED BY <1>1, <1>2, <1>4, <2>1, AdminTakes, TakesKeeps, SMTT(20), Zenon
<1>5. CASE Poll
  <2>1. polled' \in BOOLEAN BY <1>5, Zenon DEF Poll
  <2> QED BY <1>1, <1>2, <1>5, <2>1, IdleKeeps DEF Poll
<1>6. CASE PollUpdate
  <2>1. polled' \in BOOLEAN BY <1>6, Zenon DEF PollUpdate
  <2> QED BY <1>1, <1>2, <1>6, <2>1, UpdateTakes, TakesKeeps, IdleKeeps DEF PollUpdate
<1>7. CASE WatchList
  <2>1. watch' \in [cid : 0..MaxBoxes, down : BOOLEAN]
    <3>1. watch' = [cid |-> entry.cid, down |-> FALSE] /\ entry.cid \in 0..MaxBoxes
      BY <1>2, <1>7 DEF WatchList, Shapes
    <3>2. FALSE \in BOOLEAN OBVIOUS
    <3> QED BY <3>1, <3>2, Zenon
  <2> QED BY <1>1, <1>2, <1>7, <2>1, IdleKeeps, Zenon DEF WatchList
<1>8. CASE WatchInspect
  <2>1. watch' \in [cid : 0..MaxBoxes, down : BOOLEAN]
    <3>1. TRUE \in BOOLEAN OBVIOUS
    <3>2. [watch EXCEPT !.down = TRUE] \in [cid : 0..MaxBoxes, down : BOOLEAN] BY <1>2, <3>1, Zenon
    <3> QED BY <1>3, <1>8, <3>2 DEF WatchInspect
  <2> QED BY <1>1, <1>2, <1>8, <2>1, IdleKeeps, SMTT(20), Zenon DEF WatchInspect
<1>9. CASE WatchRestart
  <2>1. CASE Idle /\ Known BY <1>1, <1>9, <2>1, WatchTakes
  <2>2. CASE ~(Idle /\ Known) BY <1>1, <1>2, <1>3, <1>9, <2>2, IdleKeeps, Zenon DEF WatchRestart
  <2> QED BY <2>1, <2>2
<1>10. CASE Step
  <2>1. ~Idle /\ UNCHANGED <<polled, watch, upgraded, faults, ends>> BY <1>10 DEF Step
  <2>2. CASE CallSucceeds
    <3>1. Staged' /\ (faults = 0 => Coherent' /\ Undoing')
      BY <2>1, <2>2, SucceedsCoherent, SucceedsUndoing, Zenon
    <3>2. Planned' /\ (job' # NoJob => job'.op \in Operations)
      BY <2>1, <2>2, NextCall, Zenon DEF CallSucceeds
    <3>3. /\ \A b \in boxes' : b.cid \in 1..MaxBoxes
          /\ \A x, y \in boxes' : x = y
          /\ made' \in 0..MaxBoxes
      BY <2>1, <2>2, DaemonShapes DEF CallSucceeds
    <3>4. entry'.cid \in 0..MaxBoxes /\ entry'.running \in BOOLEAN
      <4>1. /\ entry.cid \in 0..MaxBoxes /\ made \in 0..MaxBoxes /\ 0 \in 0..MaxBoxes
            /\ entry' = Registered /\ ImagesInv
        BY <1>2, <2>2 DEF Shapes, CallSucceeds, BoxInv
      <4>2. entry.running \in BOOLEAN BY <1>2 DEF Shapes
      <4>3. entry'.cid \in {entry.cid, made, 0} BY <4>1, RegistryAfter, Zenon
      <4>4. entry'.running = entry.running \/ entry'.running = TRUE \/ entry'.running = FALSE
        BY <4>1, RegistryAfter
      <4>5. entry'.running \in BOOLEAN BY <4>2, <4>4, Zenon
      <4> QED BY <4>1, <4>3, <4>5, Zenon
    <3>5. Shapes' BY <1>2, <2>1, <3>2, <3>3, <3>4, Zenon DEF Shapes
    <3> QED BY <1>1, <2>1, <3>1, <3>2, <3>5, Zenon DEF BoxInv
  <2>3. CASE CallFails
    <3>1. /\ Planned' /\ Staged' /\ (job' # NoJob => job'.op \in Operations)
          /\ entry'.cid \in 0..MaxBoxes /\ entry'.running \in BOOLEAN
      BY <2>1, <2>3, ErrorShapes DEF CallFails
    <3>2. faults = 0 => Coherent' /\ Undoing' BY <2>1, <2>3, FailsKeeps, Zenon
    <3>3. Shapes' BY <1>2, <2>1, <2>3, <3>1, Zenon DEF Shapes, CallFails
    <3> QED BY <1>1, <2>1, <3>1, <3>2, <3>3, Zenon DEF BoxInv
  <2> QED BY <1>10, <2>2, <2>3 DEF Step
<1>11. CASE DaemonFails
  <2>1. /\ ~Idle /\ Error /\ UNCHANGED <<polled, watch, upgraded, ends>>
        /\ faults' \in 0..MaxFaults /\ faults' # 0
    BY <1>2, <1>11 DEF DaemonFails
  <2>2. /\ Planned' /\ Staged' /\ (job' # NoJob => job'.op \in Operations)
        /\ entry'.cid \in 0..MaxBoxes /\ entry'.running \in BOOLEAN
    BY <2>1, ErrorShapes, Zenon
  <2>3. /\ \A b \in boxes' : b.cid \in 1..MaxBoxes
        /\ \A x, y \in boxes' : x = y
        /\ made' \in 0..MaxBoxes
    <3>1. CASE UNCHANGED <<boxes, made>> BY <1>2, <3>1 DEF Shapes
    <3>2. CASE Succeeds /\ (Call = "create" => made < MaxBoxes) /\ Daemon
      BY <2>1, <3>2, DaemonShapes, Zenon
    <3> QED BY <1>11, <3>1, <3>2, Zenon DEF DaemonFails
  <2>4. Shapes' BY <1>2, <2>1, <2>2, <2>3 DEF Shapes
  <2> QED BY <1>1, <2>1, <2>2, <2>4, Zenon DEF BoxInv
<1>12. CASE Exit BY <1>1, <1>12, ExitKeeps, Zenon
<1>13. CASE GatewayEnds
  <2>1. /\ entry' = NoEntry /\ job' = NoJob /\ polled' = FALSE /\ watch' = NoWatch
        /\ ends' \in 0..MaxEnds /\ UNCHANGED <<boxes, made, upgraded, faults>>
    BY <1>2, <1>13 DEF GatewayEnds
  <2>2. entry'.cid = 0 /\ entry'.running = FALSE BY <2>1 DEF NoEntry
  <2>3. entry'.cid \in 0..MaxBoxes BY <1>2, <2>2
  <2>4. entry'.running \in BOOLEAN /\ polled' \in BOOLEAN BY <2>1, <2>2, Zenon
  <2>5. Shapes' BY <1>2, <1>3, <2>1, <2>3, <2>4, Zenon DEF Shapes
  <2> QED BY <1>1, <2>1, <2>5, EmptyRegistry, Zenon
<1>14. CASE UNCHANGED lifecycleVars
  BY <1>1, <1>2, <1>14, IdleKeeps, Zenon DEF lifecycleVars
<1> QED BY <1>4, <1>5, <1>6, <1>7, <1>8, <1>9, <1>10, <1>11, <1>12, <1>13, <1>14
     DEF LifecycleNext

\* The gateway starts with no container of its own and an empty registry.
LEMMA BoxInit ==
    ASSUME LifecycleInit
    PROVE  BoxInv
<1>1. ImagesInv
  <2>1. BoxesOK BY DEF LifecycleInit, BoxesOK
  <2>2. EntryOK BY NothingRegistered DEF LifecycleInit
  <2> QED BY <2>1, <2>2, NothingNamed DEF LifecycleInit, ImagesInv
<1>2. entry.cid = 0 /\ entry.running = FALSE BY Zenon DEF LifecycleInit, NoEntry
<1>3. Call = "none" /\ job.op = "none" BY CallIs DEF LifecycleInit, NoJob
<1>4. Shapes
  <2>1. 0 \in 0..MaxBoxes /\ 0 \in 0..MaxFaults /\ 0 \in 0..MaxEnds
    BY LifecycleBoundsAssumption
  <2>2. entry.running \in BOOLEAN /\ polled \in BOOLEAN BY <1>2, Zenon DEF LifecycleInit
  <2>3. watch \in [cid : 0..MaxBoxes, down : BOOLEAN]
    <3>1. FALSE \in BOOLEAN OBVIOUS
    <3> QED BY <2>1, <3>1 DEF LifecycleInit, NoWatch
  <2> QED BY <1>2, <2>1, <2>2, <2>3 DEF LifecycleInit, Shapes
<1> QED BY <1>1, <1>2, <1>3, <1>4, Zenon
     DEF LifecycleInit, BoxInv, Planned, Staged, Coherent, Undoing

LEMMA BoxTypes ==
    ASSUME BoxInv
    PROVE  LifecycleTypeOK
<1>1. boxes \subseteq [cid : 1..MaxBoxes, image : Refs, up : BOOLEAN]
  <2> SUFFICES ASSUME NEW b \in boxes PROVE b \in [cid : 1..MaxBoxes, image : Refs, up : BOOLEAN]
    OBVIOUS
  <2>1. b \in [cid : Nat, image : Refs, up : BOOLEAN] /\ b.cid \in 1..MaxBoxes
    BY DEF BoxInv, ImagesInv, BoxesOK, Shapes
  <2> QED BY <2>1
<1>2. \A b, c \in boxes : b = c BY DEF BoxInv, Shapes
<1>3. entry \in [spec : Specs, cid : 0..MaxBoxes, running : BOOLEAN]
  <2>1. /\ entry = [spec |-> entry.spec, cid |-> entry.cid, running |-> entry.running]
        /\ entry.spec \in Specs /\ entry.cid \in 0..MaxBoxes
    BY DEF BoxInv, ImagesInv, EntryOK, Shapes
  <2>2. entry.running \in BOOLEAN BY Zenon DEF BoxInv, Shapes
  <2> QED BY <2>1, <2>2, Zenon
<1>4. job.todo \in Seq(Calls) /\ job.spec \in Specs BY DEF BoxInv, ImagesInv, IsJob
<1>5. /\ job.op \in {"none"} \cup Operations
      /\ (job.op = "none") <=> (job.todo = << >>)
  <2>1. CASE job = NoJob BY <2>1 DEF NoJob
  <2>2. CASE job # NoJob
    <3>1. job.op \in Operations /\ job.todo # << >>
      BY <2>2, Zenon DEF BoxInv, Shapes, ImagesInv, IsJob
    <3> QED BY <3>1, Zenon DEF Operations
  <2> QED BY <2>1, <2>2, Zenon
<1> QED BY <1>1, <1>2, <1>3, <1>4, <1>5 DEF BoxInv, Shapes, LifecycleTypeOK, Operations

\* What the gateway says of a connector is so: for every catalog and however many
\* containers, failures, exits and restarts, /health never calls a connector running
\* whose container is not; and as long as the daemon does what it is asked, a
\* connector the registry calls running has the container and the image it names.
THEOREM RegistryAlwaysNamesBox == LifecycleSpec => []RegistryNamesBox
<1>1. LifecycleInit => BoxInv BY BoxInit
<1>2. BoxInv /\ [LifecycleNext]_lifecycleVars => BoxInv' BY BoxStep
<1>3. BoxInv => RegistryNamesBox
  <2> SUFFICES ASSUME BoxInv PROVE RegistryNamesBox OBVIOUS
  <2>1. Idle /\ entry.running /\ faults = 0 =>
          \E b \in boxes : b.cid = entry.cid /\ b.image = entry.spec.image
    <3>1. Idle => Call = "none" BY DEF Call
    <3> QED BY <3>1 DEF BoxInv, Coherent, NamedRight
  <2>2. Probe => \E b \in boxes : b.up
    <3>1. entry.running => entry.cid # 0 BY DEF BoxInv, Staged
    <3> QED BY <3>1 DEF Probe
  <2> QED BY <2>1, <2>2, BoxTypes DEF RegistryNamesBox
<1> QED BY <1>1, <1>2, <1>3, PTL DEF LifecycleSpec

\* A rollback that ends without a failure of the daemon has brought the previous
\* image back.
LEMMA UndoEnds ==
    ASSUME BoxInv, LifecycleNext, job.op = "undo", job' = NoJob, ends' = ends, faults' = 0,
           job.cid # 0
    PROVE  /\ entry'.running /\ entry'.spec.image = job.old
           /\ \E b \in boxes' : b.cid = entry'.cid /\ b.up /\ b.image = job.old
<1>1. job # NoJob /\ ~Idle BY DEF NoJob, Idle
<1>2. faults \in 0..MaxFaults /\ ends \in 0..MaxEnds /\ MaxFaults \in Nat /\ MaxEnds \in Nat
  BY LifecycleBoundsAssumption DEF BoxInv, Shapes
<1>3. ~(AdminAction \/ Install) BY <1>1, AdminTakes
<1>4. ~DaemonFails BY <1>2 DEF DaemonFails
<1>5. ~GatewayEnds BY <1>2 DEF GatewayEnds
<1>6. ~(Poll \/ WatchList \/ WatchInspect \/ Exit)
  BY <1>1 DEF Poll, WatchList, WatchInspect, Exit
<1>7. ~PollUpdate BY <1>1, UpdateTakes DEF PollUpdate
<1>8. ~WatchRestart BY <1>1 DEF WatchRestart
<1>9. Step /\ faults = 0 /\ UNCHANGED faults
  BY <1>3, <1>4, <1>5, <1>6, <1>7, <1>8, Zenon DEF LifecycleNext, Step
<1>10. Succeeds /\ Call # "soak" /\ ~Skipped BY <1>1, <1>9, UndoSucceeds
<1>11. CallSucceeds BY <1>9, <1>10 DEF Step, CallFails
<1>12. Succeeds /\ Daemon /\ entry' = Registered /\ Advance BY <1>11 DEF CallSucceeds
<1>13. Call = "start"
  <2>1. Closes(job.op, Call) BY <1>1, <1>12, AdvanceGoes, Zenon DEF Goes
  <2> QED BY <2>1 DEF Closes
<1>14. ImagesInv /\ Fresh /\ entry.spec.image = job.old
  BY <1>9, <1>13 DEF BoxInv, Staged, Undoing
<1>15. entry'.cid = made /\ entry'.running = TRUE /\ entry'.spec = entry.spec
  BY <1>12, <1>13, <1>14, RegistryAfter, Zenon
<1>16. PICK b \in boxes : b.cid = made /\ b.image = job.old BY <1>14, Zenon DEF Fresh
<1>17. \E c \in boxes' : c.cid = b.cid /\ c.image = b.image /\ c.up = (Call = "start")
  BY <1>1, <1>10, <1>12, <1>13, BoxesAfter
<1> QED BY <1>13, <1>14, <1>15, <1>16, <1>17, Zenon

\* "If container exits -> rollback": as long as the daemon does what it is asked, an
\* update that fails its soak ends with the previous image running, whatever Watch,
\* the Updater and the process in the container do meanwhile.
THEOREM RollbackAlwaysRestores == LifecycleSpec => RollbackRestores
<1> DEFINE Restores ==
        job.op = "undo" /\ job' = NoJob /\ ends' = ends /\ faults' = 0 /\ job.cid # 0 =>
            /\ entry'.running /\ entry'.spec.image = job.old
            /\ \E b \in boxes' : b.cid = entry'.cid /\ b.up /\ b.image = job.old
<1>1. LifecycleInit => BoxInv BY BoxInit
<1>2. BoxInv /\ [LifecycleNext]_lifecycleVars => BoxInv' BY BoxStep
<1>3. BoxInv /\ [LifecycleNext]_lifecycleVars => [Restores]_lifecycleVars BY UndoEnds
<1> QED BY <1>1, <1>2, <1>3, PTL DEF LifecycleSpec, RollbackRestores

\* A call that takes the running container down comes after the image is prepared.
LEMMA DownPrepared ==
    ASSUME BoxInv, LifecycleNext, NEW b \in boxes, b.up, \A c \in boxes' : ~c.up, job' # job
    PROVE  \A i \in DOMAIN job.todo : job.todo[i] \notin {"pull", "verify"}
<1>1. boxes' # boxes OBVIOUS
<1>2. Step \/ DaemonFails
  BY <1>1 DEF LifecycleNext, AdminAction, Install, AdminOnly, Start, Stop, Restart, Upgrade,
              Rollback, AdminUpdate, Poll, PollUpdate, WatchList, WatchInspect, WatchRestart,
              Exit, GatewayEnds
<1>3. ~Idle /\ Succeeds /\ Daemon
  BY <1>1, <1>2 DEF Step, DaemonFails, CallSucceeds, CallFails
<1>4. Call \in {"create", "start", "stop", "halt", "remove", "discard"}
  BY <1>1, <1>3 DEF Daemon
<1>5. Call \notin Preparing BY <1>4 DEF Preparing
<1>6. job # NoJob /\ Plan(job.op, job.todo) BY <1>3, Zenon DEF BoxInv, Planned, Idle
<1>7. job.todo \in Seq(Calls) /\ job.todo # << >> /\ PrepareFirst(job.todo)
  BY <1>6, Zenon DEF Plan, Chain
<1>8. Call = job.todo[1] BY <1>6, <1>7, CallIs, Zenon DEF First
<1>9. 1 \in DOMAIN job.todo /\ \A i \in DOMAIN job.todo : i = 1 \/ 1 < i BY <1>7
<1>10. \A i \in DOMAIN job.todo : job.todo[i] \notin Preparing
  BY <1>5, <1>7, <1>8, <1>9 DEF PrepareFirst
<1> QED BY <1>10 DEF Preparing

\* "Cosign verify before touching the running container", and the pull: no operation
\* takes a running container down while a pull or a verification is still to come.
THEOREM DownOnlyOnceReady == LifecycleSpec => DownOnlyWhenReady
<1> DEFINE Ready ==
        (\E b \in boxes : b.up) /\ (\A b \in boxes' : ~b.up) /\ job' # job =>
            \A i \in DOMAIN job.todo : job.todo[i] \notin {"pull", "verify"}
<1>1. LifecycleInit => BoxInv BY BoxInit
<1>2. BoxInv /\ [LifecycleNext]_lifecycleVars => BoxInv' BY BoxStep
<1>3. BoxInv /\ [LifecycleNext]_lifecycleVars => [Ready]_lifecycleVars BY DownPrepared
<1> QED BY <1>1, <1>2, <1>3, PTL DEF LifecycleSpec, DownOnlyWhenReady
=============================================================================
