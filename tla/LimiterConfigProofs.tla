------------------------- MODULE LimiterConfigProofs -------------------------
(***************************************************************************)
(* Proofs about the configuration of a family: its registry knows one      *)
(* signature; on an event loop an acquire is served by the family's        *)
(* backend in the scope of its reservation, and reservations keep their    *)
(* backend; and every bucket works with the limit the limiter remembers.   *)
(***************************************************************************)
EXTENDS LimiterConfig, FiniteSetTheorems, TLAPS

-----------------------------------------------------------------------------
(* The inductive invariant *)

Kinds == {None, "acquire", "refund", "set_max"}

(* Places within the lock *)
Locked == {"building", "rebuilding", "applying", "writing"}

Places == Locked \cup {"idle", "resolved", "begun", "probing", "locking",
                       "serving", "held", "crediting"}

CallRecord ==
  [pc : Places, kind : Kinds, model : Models \cup {None},
   cfg : Configs \cup {None}, gen : Nat, epoch : Nat, base : Nat,
   old : Configs \cup {None}, todo : SUBSET Buckets,
   bucket : Adjusted \cup {None}, value : Values \cup {0}]

WorldTypes ==
  /\ limiter \in {"async", "sync"}
  /\ models \subseteq Models
  /\ source \in [Models -> Configs]
  /\ left \in [rollouts : Nat, builds : Nat, sets : Nat, faults : Nat,
               sweeps : Nat]
  /\ sweep \in {None, "scanned"}

(* What a call knows at each place *)
CallShape(c) ==
  /\ c.pc = "idle" <=> c.kind = None
  /\ c.pc \in {"resolved", "begun", "serving"} => c.kind = "acquire"
  /\ c.pc \in {"held", "crediting"} => c.kind = "refund"
  /\ c.pc = "writing" => c.kind = "set_max"
  /\ c.pc \in {"probing", "building"} => c.kind \in {"acquire", "refund"}
  /\ c.kind # None => c.model \in Models
  /\ c.pc \notin {"idle", "held", "crediting"} => c.cfg \in Configs
  /\ c.pc \in {"rebuilding", "applying"} => c.old \in Configs
  /\ c.pc = "applying" => /\ DOMAIN c.cfg = DOMAIN c.old
                          /\ c.todo \subseteq {b \in DOMAIN c.old :
                                                 c.cfg[b] # c.old[b]}

CallTypes ==
  /\ call \in [Callers -> CallRecord]
  /\ \A t \in Callers : CallShape(call[t])
  /\ lock \in Callers \cup {None}
  /\ \A t \in Callers : call[t].pc \in Locked <=> lock = t

(* The registry *)
Taken == {m \in Models : validated[m] # None}

RegistryInv ==
  /\ validated \in [Models -> Configs \cup {None}]
  /\ counts \in [Configs -> Nat]
  /\ aliases \in Nat
  /\ aliases = 0 => \A c \in Configs : counts[c] = 0
  /\ OneSignature

(* The backend and the snapshot, as a call within the lock left them *)
Same(t) == call[t].gen = backend.gen /\ call[t].base = backend.epoch

BackendCall(t) ==
  /\ call[t].pc = "building" => backend = NoBackend
  /\ call[t].pc = "rebuilding" => quotas = None
  /\ call[t].pc = "rebuilding" /\ backend # NoBackend =>
       Same(t) /\ DOMAIN backend.limit = DOMAIN call[t].old
  /\ call[t].pc = "applying" /\ backend # NoBackend =>
       Same(t) /\ quotas = call[t].old
  /\ call[t].pc = "writing" /\ backend # NoBackend =>
       call[t].gen = backend.gen /\ quotas = call[t].cfg

BackendShape ==
  /\ backend = [gen |-> backend.gen, epoch |-> backend.epoch,
                limit |-> backend.limit]
  /\ backend.gen \in Nat /\ backend.epoch \in Nat
  /\ backend.gen = 0 => backend = NoBackend
  /\ quotas \in Configs \cup {None}
  /\ backend # NoBackend /\ quotas # None =>
       DOMAIN backend.limit = DOMAIN quotas
  /\ backend # NoBackend /\ quotas = None =>
       \E t \in Callers : call[t].pc = "rebuilding"

BackendInv == BackendShape /\ \A t \in Callers : BackendCall(t)

(* On an event loop *)
LoopCall(t) ==
  /\ call[t].pc = "probing" =>
       /\ call[t].gen = backend.gen
       /\ call[t].kind = "acquire" => call[t].epoch = backend.epoch
  /\ call[t].pc = "serving" =>
       backend # NoBackend /\ call[t].epoch = backend.epoch /\ Served(t)
  /\ call[t].kind = "refund" =>
       backend # NoBackend /\ call[t].epoch = backend.epoch
  /\ call[t].pc \in {"applying", "rebuilding"} /\ call[t].kind # "set_max" =>
       backend # NoBackend

LoopInv ==
  limiter = "async" =>
    /\ sweep = "scanned" => InFlight = {}
    /\ \A t \in Callers : LoopCall(t)
    /\ (\E t \in Callers : call[t].pc = "rebuilding") =>
         \A s \in Callers : call[s].pc # "serving"

(* The buckets bs work with the limits of q, runtime overrides excepted *)
Agrees(q, bs) ==
  \A b \in bs \ torn :
    backend.limit[b] = IF b \in DOMAIN overrides THEN overrides[b] ELSE q[b]

(* Those whose new limit is written already *)
Written(t) == Changed(t, call[t].old) \ call[t].todo

ForceCall(t) ==
  /\ call[t].pc \in {"rebuilding", "applying", "writing"} =>
       backend # NoBackend
  /\ call[t].pc = "rebuilding" => Agrees(call[t].old, DOMAIN call[t].old)
  /\ call[t].pc = "applying" =>
       /\ Agrees(call[t].old, DOMAIN call[t].old \ Written(t))
       /\ \A b \in Written(t) : backend.limit[b] = call[t].cfg[b]

ForceInv ==
  overtaken = {} =>
    /\ backend = NoBackend => DOMAIN overrides = {}
    /\ \A t \in Callers : ForceCall(t)
    /\ backend # NoBackend
         /\ (\A t \in Callers : call[t].pc \notin {"rebuilding", "applying"})
         => Agrees(quotas, DOMAIN quotas)

ConfigInv ==
  WorldTypes /\ CallTypes /\ RegistryInv /\ BackendInv /\ LoopInv /\ ForceInv

-----------------------------------------------------------------------------
(* The records that steps write *)

(* Only the record of one call changes. *)
Moves(t) ==
  /\ call' \in [Callers -> CallRecord]
  /\ \A s \in Callers : s # t => call'[s] = call[s]

(* The call before its first step and after its last *)
LEMMA NoCallFields ==
  /\ NoCall \in CallRecord
  /\ NoCall.pc = "idle" /\ NoCall.kind = None
  /\ CallShape(NoCall)
<1>1. NoCall \in CallRecord /\ NoCall.pc = "idle" /\ NoCall.kind = None
  BY DEF NoCall, CallRecord, Places, Kinds
<1> QED BY <1>1, ConfigAssumption DEF CallShape, NoCall

(* The record of a call with a reservation to refund *)
LEMMA HoldingFields ==
  ASSUME CallTypes, NEW t \in Callers, call[t].kind # None,
         NEW pc \in {"held", "crediting"}
  PROVE  /\ Holding(t, pc) \in CallRecord
         /\ Holding(t, pc).pc = pc /\ Holding(t, pc).kind = "refund"
         /\ Holding(t, pc).model = call[t].model
         /\ Holding(t, pc).epoch = call[t].epoch
         /\ CallShape(Holding(t, pc))
<1> DEFINE h == Holding(t, pc)
<1>1. call[t] \in CallRecord /\ CallShape(call[t])
  BY DEF CallTypes
<1>2. /\ h \in CallRecord
      /\ h.pc = pc /\ h.kind = "refund"
      /\ h.model = call[t].model /\ h.epoch = call[t].epoch
  <2>1. /\ call[t].model \in Models \cup {None} /\ call[t].epoch \in Nat
        /\ pc \in Places /\ "refund" \in Kinds
    BY <1>1 DEF CallRecord, Places, Kinds
  <2>2. h = [NoCall EXCEPT !.pc = pc, !.kind = "refund",
                           !.model = call[t].model, !.epoch = call[t].epoch]
    BY DEF Holding
  <2> HIDE DEF h
  <2> QED BY <2>1, <2>2, NoCallFields DEF CallRecord
<1>3. call[t].model \in Models
  BY <1>1 DEF CallShape
<1> HIDE DEF h
<1>4. CallShape(h)
  BY <1>2, <1>3, ConfigAssumption DEF CallShape
<1> QED BY <1>2, <1>4 DEF h

(* The record of a call that has got its backend *)
LEMMA WithFields ==
  ASSUME CallTypes, NEW t \in Callers, NEW b, b.gen \in Nat, b.epoch \in Nat,
         call[t].pc \in Locked \cup {"probing", "locking"},
         call[t].pc # "writing",
         call[t].pc # "probing" \/ call[t].kind # "set_max"
  PROVE  /\ With(t, b) \in CallRecord /\ CallShape(With(t, b))
         /\ With(t, b).kind = call[t].kind /\ With(t, b).kind # None
         /\ With(t, b).model = call[t].model
         /\ call[t].kind = "refund" => /\ With(t, b).pc = "crediting"
                                       /\ With(t, b).epoch = call[t].epoch
         /\ call[t].kind # "refund" =>
              /\ With(t, b).pc = Onward(t)
              /\ With(t, b).gen = b.gen /\ With(t, b).epoch = b.epoch
              /\ With(t, b).cfg = call[t].cfg
<1> DEFINE w == With(t, b)
<1>1. call[t] \in CallRecord /\ CallShape(call[t])
  BY DEF CallTypes
<1>2. call[t].kind # None /\ call[t].cfg \in Configs
  BY <1>1 DEF CallShape, Locked
<1>3. CASE call[t].kind = "refund"
  BY <1>2, <1>3, HoldingFields DEF With
<1>4. CASE call[t].kind # "refund"
  <2>1. w = [call[t] EXCEPT !.pc = Onward(t), !.gen = b.gen, !.epoch = b.epoch,
                            !.base = 0, !.old = None, !.todo = {}]
    BY <1>4 DEF With
  <2>2. /\ w \in CallRecord
        /\ w.pc = Onward(t) /\ w.gen = b.gen /\ w.epoch = b.epoch
        /\ w.cfg = call[t].cfg /\ w.kind = call[t].kind
        /\ w.model = call[t].model
    <3>1. Onward(t) \in Places
      BY DEF Onward, Places, Locked
    <3> HIDE DEF w
    <3> QED BY <1>1, <2>1, <3>1 DEF CallRecord
  <2> HIDE DEF w
  <2>3. CallShape(w)
    BY <1>1, <1>2, <1>4, <2>2, ConfigAssumption
    DEF CallShape, Onward, CallRecord, Kinds
  <2> QED BY <1>2, <1>4, <2>2, <2>3 DEF w
<1> QED BY <1>3, <1>4

(* A step that writes one record *)
LEMMA OneWritten ==
  ASSUME CallTypes, NEW t \in Callers, NEW rec \in CallRecord,
         call' = [call EXCEPT ![t] = rec]
  PROVE  Moves(t) /\ call'[t] = rec
BY DEF CallTypes, Moves

(* What keeps the shape of calls and the lock in step *)
LEMMA MovesTyped ==
  ASSUME CallTypes, NEW t \in Callers, Moves(t), CallShape(call'[t]),
         lock' \in Callers \cup {None},
         call'[t].pc \in Locked <=> lock' = t,
         \A s \in Callers : s # t => (lock' = s <=> lock = s)
  PROVE  CallTypes'
BY DEF CallTypes, Moves

(* A call that only goes on *)
LEMMA GotoFields ==
  ASSUME CallTypes, NEW t \in Callers, NEW pc \in Places, Goto(t, pc)
  PROVE  Moves(t) /\ call'[t] = [call[t] EXCEPT !.pc = pc]
<1>1. call[t] \in CallRecord
  BY DEF CallTypes
<1>2. [call[t] EXCEPT !.pc = pc] \in CallRecord
  BY <1>1 DEF CallRecord
<1>3. call' = [call EXCEPT ![t] = [call[t] EXCEPT !.pc = pc]]
  BY DEF Goto
<1> QED BY <1>2, <1>3, OneWritten

(* A call that keeps the lock over a call of the backend *)
LEMMA EnterFields ==
  ASSUME CallTypes, BackendInv, NEW t \in Callers, NEW pc \in Places,
         NEW todo \in SUBSET Buckets, Enter(t, pc, todo)
  PROVE  /\ Moves(t)
         /\ call'[t].pc = pc /\ call'[t].gen = backend.gen
         /\ call'[t].base = backend.epoch /\ call'[t].old = quotas
         /\ call'[t].todo = todo
         /\ call'[t].kind = call[t].kind /\ call'[t].model = call[t].model
         /\ call'[t].cfg = call[t].cfg /\ call'[t].epoch = call[t].epoch
<1> DEFINE rec == [call[t] EXCEPT !.pc = pc, !.gen = backend.gen,
                     !.base = backend.epoch, !.old = quotas, !.todo = todo]
<1>1. call[t] \in CallRecord
  BY DEF CallTypes
<1>2. /\ rec \in CallRecord
      /\ rec.pc = pc /\ rec.gen = backend.gen /\ rec.base = backend.epoch
      /\ rec.old = quotas /\ rec.todo = todo
      /\ rec.kind = call[t].kind /\ rec.model = call[t].model
      /\ rec.cfg = call[t].cfg /\ rec.epoch = call[t].epoch
  BY <1>1 DEF CallRecord, BackendInv, BackendShape, BackendCall
<1>3. call' = [call EXCEPT ![t] = rec]
  BY DEF Enter
<1> HIDE DEF rec
<1>4. Moves(t) /\ call'[t] = rec
  BY <1>2, <1>3, OneWritten
<1> QED BY <1>2, <1>4

(* A call whose way to its backend raised *)
LEMMA RaisedFields ==
  ASSUME CallTypes, NEW t \in Callers, call[t].kind # None, Raised(t)
  PROVE  /\ Moves(t) /\ CallShape(call'[t]) /\ lock' = None
         /\ call'[t].pc \in {"idle", "crediting"}
         /\ call[t].kind = "refund" => /\ call'[t].kind = "refund"
                                       /\ call'[t].epoch = call[t].epoch
         /\ call[t].kind # "refund" => call'[t].kind = None
<1> DEFINE rec == IF call[t].kind = "refund" THEN Holding(t, "crediting")
                                             ELSE NoCall
<1>1. /\ rec \in CallRecord /\ CallShape(rec)
      /\ rec.pc \in {"idle", "crediting"}
      /\ call[t].kind = "refund" => /\ rec.kind = "refund"
                                    /\ rec.epoch = call[t].epoch
      /\ call[t].kind # "refund" => rec.kind = None
  BY NoCallFields, HoldingFields
<1>2. call' = [call EXCEPT ![t] = rec] /\ lock' = None
  BY DEF Raised
<1> HIDE DEF rec
<1> QED BY <1>1, <1>2, OneWritten

(* A call whose way to its backend has ended *)
LEMMA ObtainedFields ==
  ASSUME CallTypes, NEW t \in Callers, NEW b, b.gen \in Nat, b.epoch \in Nat,
         call[t].pc \in {"building", "rebuilding", "applying", "locking"},
         Obtained(t, b)
  PROVE  /\ Moves(t) /\ CallShape(call'[t]) /\ call'[t].kind = call[t].kind
         /\ call[t].kind = "refund" => /\ call'[t].pc = "crediting"
                                       /\ call'[t].epoch = call[t].epoch
                                       /\ lock' = None
         /\ call[t].kind = "set_max" => call'[t].pc = "writing" /\ lock' = t
         /\ call[t].kind = "acquire" => call'[t].pc = "serving" /\ lock' = None
         /\ call[t].kind # "refund" => /\ call'[t].gen = b.gen
                                       /\ call'[t].epoch = b.epoch
                                       /\ call'[t].cfg = call[t].cfg
         /\ call[t].kind \in {"refund", "set_max", "acquire"}
<1> DEFINE rec == With(t, b)
<1>1. /\ rec \in CallRecord /\ CallShape(rec)
      /\ rec.kind = call[t].kind /\ rec.kind # None
      /\ call[t].kind = "refund" => /\ rec.pc = "crediting"
                                    /\ rec.epoch = call[t].epoch
      /\ call[t].kind # "refund" =>
           /\ rec.pc = Onward(t)
           /\ rec.gen = b.gen /\ rec.epoch = b.epoch
           /\ rec.cfg = call[t].cfg
  BY WithFields DEF Locked
<1>2. /\ call' = [call EXCEPT ![t] = rec]
      /\ lock' = IF call[t].kind = "set_max" THEN t ELSE None
  BY DEF Obtained
<1>3. call[t].kind \in Kinds
  BY DEF CallTypes, CallRecord
<1> HIDE DEF rec
<1>4. Moves(t) /\ call'[t] = rec
  BY <1>1, <1>2, OneWritten
<1> QED BY <1>1, <1>2, <1>3, <1>4 DEF Onward, Kinds

-----------------------------------------------------------------------------
(* Steps that neither hold the lock nor touch the backend *)

Quiet(t) ==
  /\ Moves(t) /\ CallShape(call'[t])
  /\ call[t].pc \notin Locked /\ call'[t].pc \notin Locked
  /\ UNCHANGED <<backendVars, lock, sweepVars, limiter>>
  /\ limiter = "async" => sweep = None /\ LoopCall(t)'
  /\ call'[t].pc = "serving" => quotas # None

QuietAction(t) ==
  \/ \E m \in models : Resolve(t, m)
  \/ BeginPending(t) \/ Validate(t) \/ Conflict(t) \/ Reuse(t) \/ Miss(t)
  \/ \E m \in models, b \in Adjusted, value \in Values : SetMax(t, m, b, value)
  \/ Deliver(t) \/ GiveUp(t) \/ Refresh(t) \/ Credit(t)

(* The invariants a step of a call relies on *)
Before == WorldTypes /\ CallTypes /\ BackendInv /\ LoopInv

(* The steps of calls that neither hold nor touch the lock *)
LEMMA QuietSteps ==
  ASSUME Before, NEW t \in Callers, QuietAction(t)
  PROVE  Quiet(t)
<1> USE DEF Before
<1>0. /\ call[t] \in CallRecord /\ CallShape(call[t])
      /\ \A m \in Models : source[m] \in Configs
      /\ \A m \in models : m \in Models
      /\ limiter = "async" => LoopCall(t)
  BY DEF CallTypes, WorldTypes, LoopInv
<1>a. \A pc \in Places : At(t, pc) =>
        call[t].pc = pc /\ (limiter = "async" => sweep = None)
  BY DEF At, MayRun
<1>b. ConfigAssumption
  BY ConfigAssumption
<1>1. ASSUME NEW m \in models, Resolve(t, m) PROVE Quiet(t)
  <2> DEFINE rec == [NoCall EXCEPT !.pc = "resolved", !.kind = "acquire",
                                   !.model = m, !.cfg = source[m]]
  <2>1. /\ rec \in CallRecord /\ rec.pc = "resolved" /\ rec.kind = "acquire"
        /\ rec.model \in Models /\ rec.cfg \in Configs
    BY <1>0, NoCallFields DEF CallRecord, Places, Kinds
  <2>2. call' = [call EXCEPT ![t] = rec] /\ At(t, "idle")
        /\ UNCHANGED <<worldVars, backendVars, lock, sweepVars>>
    BY <1>1 DEF Resolve
  <2> HIDE DEF rec
  <2>3. Moves(t) /\ call'[t] = rec
    BY <2>1, <2>2, OneWritten
  <2>4. CallShape(rec)
    BY <2>1, <1>b DEF CallShape
  <2>5. LoopCall(t)'
    BY <2>1, <2>3 DEF LoopCall
  <2> QED BY <1>a, <2>1, <2>2, <2>3, <2>4, <2>5
          DEF Quiet, Locked, Places, worldVars
<1>2. CASE BeginPending(t)
  <2>1. /\ At(t, "resolved") /\ Goto(t, "begun")
        /\ UNCHANGED <<worldVars, backendVars, lock, sweepVars>>
    BY <1>2 DEF BeginPending
  <2>2. Moves(t) /\ call'[t] = [call[t] EXCEPT !.pc = "begun"]
    BY <2>1, GotoFields DEF Places
  <2>3. /\ call'[t].pc = "begun" /\ call'[t].kind = call[t].kind
        /\ call'[t].model = call[t].model /\ call'[t].cfg = call[t].cfg
    BY <1>0, <2>2 DEF CallRecord
  <2>4. call[t].kind = "acquire" /\ call[t].pc = "resolved"
    BY <1>0, <1>a, <2>1 DEF CallShape, Places
  <2>5. CallShape(call'[t])
    BY <1>0, <1>b, <2>3, <2>4 DEF CallShape
  <2>6. LoopCall(t)'
    BY <2>3, <2>4 DEF LoopCall
  <2> QED BY <1>a, <2>1, <2>2, <2>3, <2>4, <2>5, <2>6
          DEF Quiet, Locked, Places, worldVars
<1>3. CASE Validate(t)
  <2> DEFINE rec == [call[t] EXCEPT !.pc = "probing", !.gen = backend.gen,
                                    !.epoch = backend.epoch]
  <2>1. /\ At(t, "begun") /\ call' = [call EXCEPT ![t] = rec]
        /\ UNCHANGED <<worldVars, backendVars, lock>>
    BY <1>3 DEF Validate
  <2>2. UNCHANGED sweepVars
    BY <1>3 DEF Validate
  <2>3. /\ rec \in CallRecord /\ rec.pc = "probing"
        /\ rec.kind = call[t].kind /\ rec.model = call[t].model
        /\ rec.cfg = call[t].cfg
        /\ rec.gen = backend.gen /\ rec.epoch = backend.epoch
    BY <1>0
    DEF CallRecord, Places, BackendInv, BackendShape, BackendCall
  <2> HIDE DEF rec
  <2>4. Moves(t) /\ call'[t] = rec
    BY <2>1, <2>3, OneWritten
  <2>5. call[t].pc = "begun" /\ call[t].kind = "acquire"
    BY <1>0, <1>a, <2>1 DEF CallShape, Places
  <2>6. CallShape(rec)
    BY <1>0, <1>b, <2>3, <2>5 DEF CallShape
  <2>7. LoopCall(t)'
    BY <2>1, <2>3, <2>4, <2>5 DEF LoopCall, backendVars
  <2> QED BY <1>a, <2>1, <2>2, <2>3, <2>4, <2>5, <2>6, <2>7
          DEF Quiet, Locked, Places, worldVars
<1>4. CASE Conflict(t) \/ GiveUp(t) \/ Credit(t)
  <2>1. /\ At(t, "begun") \/ At(t, "serving") \/ At(t, "crediting")
        /\ call' = [call EXCEPT ![t] = NoCall]
        /\ UNCHANGED <<worldVars, backendVars, lock, sweepVars>>
    BY <1>4 DEF Conflict, GiveUp, Credit
  <2>2. Moves(t) /\ call'[t] = NoCall
    BY <2>1, NoCallFields, OneWritten
  <2>3. LoopCall(t)'
    BY <2>2, NoCallFields, <1>b DEF LoopCall
  <2> QED BY <1>a, <2>1, <2>2, <2>3, NoCallFields
          DEF Quiet, Locked, Places, worldVars
<1>5. CASE Reuse(t)
  <2> DEFINE b == [gen |-> call[t].gen, epoch |-> call[t].epoch]
             rec == With(t, b)
  <2>1. /\ At(t, "probing") /\ Warm(t) /\ call' = [call EXCEPT ![t] = rec]
        /\ UNCHANGED <<worldVars, backendVars, lock, sweepVars>>
    BY <1>5 DEF Reuse
  <2>2. call[t].pc = "probing" /\ call[t].kind \in {"acquire", "refund"}
        /\ call[t].cfg \in Configs
    BY <1>0, <1>a, <2>1 DEF CallShape, Places
  <2>3. /\ b.gen \in Nat /\ b.epoch \in Nat
        /\ b.gen = call[t].gen /\ b.epoch = call[t].epoch
    BY <1>0 DEF CallRecord
  <2> HIDE DEF b
  <2>4. /\ rec \in CallRecord /\ CallShape(rec)
        /\ rec.kind = call[t].kind
        /\ call[t].kind = "refund" => /\ rec.pc = "crediting"
                                      /\ rec.epoch = call[t].epoch
        /\ call[t].kind # "refund" =>
             /\ rec.pc = Onward(t)
             /\ rec.gen = call[t].gen /\ rec.epoch = call[t].epoch
             /\ rec.cfg = call[t].cfg
    BY <2>2, <2>3, WithFields
  <2> HIDE DEF rec
  <2>5. Moves(t) /\ call'[t] = rec
    BY <2>1, <2>4, OneWritten
  <2>6. rec.pc = IF call[t].kind = "refund" THEN "crediting" ELSE "serving"
    BY <2>2, <2>4 DEF Onward
  <2>7. ASSUME limiter = "async" PROVE LoopCall(t)'
    <3>1. backend' = backend /\ call[t].gen = backend.gen /\ backend.gen # 0
          /\ quotas = call[t].cfg
      BY <1>0, <2>1, <2>2, <2>7 DEF LoopCall, Warm, backendVars
    <3>2. backend # NoBackend
      BY <3>1 DEF NoBackend
    <3>3. DOMAIN backend.limit = DOMAIN call[t].cfg
      BY <1>b, <2>2, <3>1, <3>2 DEF BackendInv, BackendShape, BackendCall
    <3> QED BY <1>0, <2>2, <2>4, <2>5, <2>6, <2>7, <3>1, <3>2, <3>3
            DEF LoopCall, Served
  <2>8. quotas # None
    BY <1>b, <2>1, <2>2 DEF Warm
  <2> QED BY <1>a, <2>1, <2>2, <2>4, <2>5, <2>6, <2>7, <2>8
          DEF Quiet, Locked, Places, worldVars
<1>6. CASE Miss(t)
  <2>1. /\ At(t, "probing") /\ Goto(t, "locking")
        /\ UNCHANGED <<worldVars, backendVars, lock, sweepVars>>
    BY <1>6 DEF Miss
  <2>2. Moves(t) /\ call'[t] = [call[t] EXCEPT !.pc = "locking"]
    BY <2>1, GotoFields DEF Places
  <2>3. /\ call'[t].pc = "locking" /\ call'[t].kind = call[t].kind
        /\ call'[t].model = call[t].model /\ call'[t].cfg = call[t].cfg
        /\ call'[t].epoch = call[t].epoch
    BY <1>0, <2>2 DEF CallRecord
  <2>4. call[t].kind \in {"acquire", "refund"} /\ call[t].pc = "probing"
    BY <1>0, <1>a, <2>1 DEF CallShape, Places
  <2>5. CallShape(call'[t])
    BY <1>0, <1>b, <2>3, <2>4 DEF CallShape
  <2>6. limiter = "async" => LoopCall(t)'
    BY <1>0, <2>1, <2>3, <2>4 DEF LoopCall, backendVars
  <2> QED BY <1>a, <2>1, <2>2, <2>3, <2>4, <2>5, <2>6
          DEF Quiet, Locked, Places, worldVars
<1>7. ASSUME NEW m \in models, NEW b \in Adjusted, NEW value \in Values,
             SetMax(t, m, b, value)
      PROVE  Quiet(t)
  <2> DEFINE rec == [NoCall EXCEPT !.pc = "locking", !.kind = "set_max",
                       !.model = m, !.cfg = source[m], !.bucket = b,
                       !.value = value]
  <2>1. /\ rec \in CallRecord /\ rec.pc = "locking" /\ rec.kind = "set_max"
        /\ rec.model \in Models /\ rec.cfg \in Configs
    <3>1. /\ m \in Models \cup {None} /\ source[m] \in Configs \cup {None}
          /\ b \in Adjusted \cup {None} /\ value \in Values \cup {0}
          /\ "locking" \in Places /\ "set_max" \in Kinds
          /\ m \in Models /\ source[m] \in Configs
      BY <1>0 DEF Places, Kinds
    <3> DEFINE c == source[m]
    <3>2. c \in Configs \cup {None} /\ c \in Configs
      BY <3>1
    <3> HIDE DEF c
    <3>3. rec = [NoCall EXCEPT !.pc = "locking", !.kind = "set_max",
                               !.model = m, !.cfg = c, !.bucket = b,
                               !.value = value]
      BY DEF c
    <3> HIDE DEF rec
    <3> QED BY <3>1, <3>2, <3>3, NoCallFields DEF CallRecord
  <2>2. call' = [call EXCEPT ![t] = rec] /\ At(t, "idle")
        /\ UNCHANGED <<worldVars, backendVars, lock, sweepVars>>
    BY <1>7 DEF SetMax
  <2> HIDE DEF rec
  <2>3. Moves(t) /\ call'[t] = rec
    BY <2>1, <2>2, OneWritten
  <2>4. CallShape(rec)
    BY <2>1, <1>b DEF CallShape
  <2>5. LoopCall(t)'
    BY <2>1, <2>3 DEF LoopCall
  <2> QED BY <1>a, <2>1, <2>2, <2>3, <2>4, <2>5
          DEF Quiet, Locked, Places, worldVars
<1>8. CASE Deliver(t)
  <2>1. /\ At(t, "serving") /\ call' = [call EXCEPT ![t] = Holding(t, "held")]
        /\ UNCHANGED <<worldVars, backendVars, lock, sweepVars>>
    BY <1>8 DEF Deliver
  <2>2. call[t].pc = "serving" /\ call[t].kind # None
    BY <1>0, <1>a, <2>1 DEF CallShape, Places
  <2>3. Moves(t) /\ call'[t] = Holding(t, "held")
    BY <2>1, <2>2, HoldingFields, OneWritten
  <2>4. /\ CallShape(call'[t]) /\ call'[t].pc = "held"
        /\ call'[t].epoch = call[t].epoch
    BY <2>2, <2>3, HoldingFields
  <2>5. limiter = "async" => LoopCall(t)'
    BY <1>0, <2>1, <2>2, <2>4 DEF LoopCall, backendVars
  <2> QED BY <1>a, <2>1, <2>2, <2>3, <2>4, <2>5
          DEF Quiet, Locked, Places, worldVars
<1>9. CASE Refresh(t)
  <2> DEFINE rec == [call[t] EXCEPT !.pc = "probing",
                       !.cfg = source[call[t].model], !.gen = backend.gen]
  <2>1. /\ At(t, "held") /\ call' = [call EXCEPT ![t] = rec]
        /\ UNCHANGED <<worldVars, backendVars, lock, sweepVars>>
    BY <1>9 DEF Refresh
  <2>2. /\ call[t].pc = "held" /\ call[t].kind = "refund"
        /\ call[t].model \in Models
    BY <1>0, <1>a, <1>b, <2>1 DEF CallShape, Places
  <2>3. /\ rec \in CallRecord /\ rec.pc = "probing" /\ rec.kind = "refund"
        /\ rec.model = call[t].model /\ rec.cfg \in Configs
        /\ rec.gen = backend.gen /\ rec.epoch = call[t].epoch
    <3>1. source[call[t].model] \in Configs
      BY <1>0, <2>2
    <3> QED BY <1>0, <2>2, <3>1
           DEF CallRecord, Places, BackendInv, BackendShape, BackendCall
  <2> HIDE DEF rec
  <2>4. Moves(t) /\ call'[t] = rec
    BY <2>1, <2>3, OneWritten
  <2>5. CallShape(rec)
    BY <1>b, <2>2, <2>3 DEF CallShape
  <2>6. limiter = "async" => LoopCall(t)'
    BY <1>0, <2>1, <2>2, <2>3, <2>4 DEF LoopCall, backendVars
  <2> QED BY <1>a, <2>1, <2>2, <2>3, <2>4, <2>5, <2>6
          DEF Quiet, Locked, Places, worldVars
<1> QED BY <1>1, <1>2, <1>3, <1>4, <1>5, <1>6, <1>7, <1>8, <1>9
        DEF QuietAction

-----------------------------------------------------------------------------
(* What is kept *)

Kept == CallTypes' /\ BackendInv' /\ LoopInv' /\ ForceInv'

(* On an event loop no other task is about to read the backend. *)
LEMMA Alone ==
  ASSUME CallTypes, NEW t \in Callers, NEW pc, At(t, pc), limiter = "async"
  PROVE  sweep = None /\ \A s \in Callers : s # t => call[s].pc # "probing"
BY DEF At, MayRun, Running

(* What a step may change of a backend that others use *)
SameBackend ==
  /\ backend'.gen = backend.gen /\ backend'.epoch = backend.epoch
  /\ DOMAIN backend'.limit = DOMAIN backend.limit
  /\ backend # NoBackend => backend' # NoBackend

(* The other tasks of an event loop, when a step writes at most limits or  *)
(* when the backend it exchanges serves nobody                             *)
LEMMA LoopKept ==
  ASSUME Before, NEW t \in Callers, NEW pc, At(t, pc), Moves(t),
         limiter' = limiter, sweep' = sweep,
         limiter = "async" =>
           /\ LoopCall(t)'
           /\ \/ SameBackend
              \/ \A s \in Callers : s # t => /\ call[s].pc # "serving"
                                             /\ call[s].kind # "refund"
                                             /\ call[s].pc \notin Locked
              \/ /\ backend'.epoch = backend.epoch /\ backend' # NoBackend
                 /\ \A s \in Callers : s # t => /\ call[s].pc # "serving"
                                                /\ call[s].pc \notin Locked
           /\ (\E s \in Callers : call'[s].pc = "rebuilding") =>
                \A s \in Callers : call'[s].pc # "serving"
  PROVE  LoopInv'
<1> SUFFICES ASSUME limiter = "async" PROVE LoopInv'
  BY DEF LoopInv
<1>1. sweep = None /\ \A s \in Callers : s # t => call[s].pc # "probing"
  BY Alone DEF Before
<1>2. sweep' # "scanned"
  BY <1>1, ConfigAssumption
<1>3. ASSUME NEW s \in Callers, s # t PROVE LoopCall(s)'
  <2>1. call'[s] = call[s] /\ LoopCall(s) /\ call[s].pc # "probing"
    BY <1>1, <1>3 DEF Moves, LoopInv, Before
  <2> QED BY <1>3, <2>1 DEF LoopCall, Served, SameBackend, Locked
<1> QED BY <1>2, <1>3 DEF LoopInv

(* Such a step keeps the invariant. *)
LEMMA QuietKeeps ==
  ASSUME Before, ForceInv, NEW t \in Callers, Quiet(t)
  PROVE  Kept
<1>1. /\ Moves(t) /\ CallShape(call'[t])
      /\ call[t].pc \notin Locked /\ call'[t].pc \notin Locked
      /\ backend' = backend /\ quotas' = quotas /\ overrides' = overrides
      /\ torn' = torn /\ lock' = lock /\ limiter' = limiter
      /\ sweep' = sweep /\ overtaken' = overtaken
      /\ \A s \in Callers : s # t => call'[s] = call[s]
  BY DEF Quiet, backendVars, sweepVars, Moves
<1>2. CallTypes'
  <2>1. lock # t /\ lock \in Callers \cup {None}
    BY <1>1 DEF Before, CallTypes
  <2> QED BY <1>1, <2>1, MovesTyped DEF Before
<1>3. \A s \in Callers : call[s].pc \in Locked \/ call'[s].pc \in Locked =>
                           call'[s] = call[s]
  BY <1>1
<1>4. BackendInv'
  BY <1>1, <1>3 DEF BackendInv, BackendShape, BackendCall, Before, Locked, Same
<1>5. LoopInv'
  <2> SUFFICES ASSUME limiter = "async" PROVE LoopInv'
    BY <1>1 DEF LoopInv
  <2>1. sweep = None /\ LoopCall(t)'
    BY DEF Quiet
  <2>2. \A s \in Callers : s # t => LoopCall(s)'
    BY <1>1 DEF LoopInv, LoopCall, Served, Before
  <2>3. ASSUME \E s \in Callers : call'[s].pc = "rebuilding"
        PROVE  \A s \in Callers : call'[s].pc # "serving"
    <3>1. PICK u \in Callers : call[u].pc = "rebuilding"
      BY <1>3, <2>3 DEF Locked
    <3>2. quotas = None
      BY <3>1 DEF Before, BackendInv, BackendShape, BackendCall
    <3>3. call'[t].pc # "serving"
      BY <3>2 DEF Quiet
    <3> QED BY <1>1, <3>1, <3>3 DEF LoopInv, Before
  <2> QED BY <1>1, <2>1, <2>2, <2>3, ConfigAssumption DEF LoopInv
<1>6. ForceInv'
  <2>1. \A s \in Callers : call[s].pc \in Locked =>
          Written(s)' = Written(s)
    BY <1>1, <1>3 DEF Written, Changed
  <2> QED BY <1>1, <1>3, <2>1 DEF ForceInv, ForceCall, Agrees, Locked
<1> QED BY <1>2, <1>4, <1>5, <1>6 DEF Kept

-----------------------------------------------------------------------------
(* Steps into the lock *)

(* Nobody else is within the lock. *)
Sole(t) ==
  \A s \in Callers : s # t => call'[s] = call[s] /\ call[s].pc \notin Locked

(* With one call in the lock, the others are elsewhere. *)
LEMMA SoleHolder ==
  ASSUME CallTypes, NEW t \in Callers, Moves(t), lock \in {None, t}
  PROVE  Sole(t)
BY ConfigAssumption DEF CallTypes, Moves, Sole

(* Others neither rely on the backend nor answer for its limits. *)
LEMMA SoleKept ==
  ASSUME NEW t \in Callers, Sole(t)
  PROVE  /\ BackendShape' /\ BackendCall(t)' => BackendInv'
         /\ ForceCall(t)' => \A s \in Callers : ForceCall(s)'
         /\ (\A s \in Callers : call'[s].pc \notin {"rebuilding", "applying"})
              <=> call'[t].pc \notin {"rebuilding", "applying"}
         /\ (\E s \in Callers : call'[s].pc = "rebuilding")
              => call'[t].pc = "rebuilding"
<1>1. \A s \in Callers : s # t => call'[s].pc \notin Locked
  BY DEF Sole
<1>2. \A s \in Callers : s # t => BackendCall(s)' /\ ForceCall(s)'
  BY <1>1 DEF BackendCall, ForceCall, Locked
<1> QED BY <1>1, <1>2 DEF BackendInv, BackendShape, BackendCall, Locked

(* A call that takes the lock *)
LEMMA Entered ==
  ASSUME CallTypes, BackendInv, NEW t \in Callers, lock = None,
         NEW pc \in Locked, NEW todo \in SUBSET Buckets, Enter(t, pc, todo)
  PROVE  /\ Moves(t) /\ Sole(t) /\ lock' = t
         /\ call'[t].pc = pc /\ call'[t].gen = backend.gen
         /\ call'[t].base = backend.epoch /\ call'[t].old = quotas
         /\ call'[t].todo = todo
         /\ call'[t].kind = call[t].kind /\ call'[t].model = call[t].model
         /\ call'[t].cfg = call[t].cfg /\ call'[t].epoch = call[t].epoch
<1>1. pc \in Places
  BY DEF Places
<1>2. lock' = t
  BY DEF Enter
<1>3. Moves(t)
  BY <1>1, EnterFields
<1>4. Sole(t)
  BY <1>3, SoleHolder
<1> QED BY <1>1, <1>2, <1>3, <1>4, EnterFields

(* A call that finds the lock free *)
LEMMA FreeLock ==
  ASSUME Before, NEW t \in Callers, Locking(t)
  PROVE  /\ call[t].pc = "locking" /\ call[t].cfg \in Configs
         /\ call[t].kind \in {"acquire", "refund", "set_max"}
         /\ call[t].model \in Models
         /\ lock = None /\ \A s \in Callers : call[s].pc \notin Locked
         /\ backend # NoBackend => quotas \in Configs
<1>1. call[t].pc = "locking" /\ lock = None
  BY DEF Locking, At
<1>2. call[t] \in CallRecord /\ CallShape(call[t])
  BY DEF Before, CallTypes
<1>3. /\ call[t].cfg \in Configs /\ call[t].kind # None
      /\ call[t].model \in Models
  BY <1>1, <1>2 DEF CallShape
<1>4. \A s \in Callers : call[s].pc \notin Locked
  BY <1>1, ConfigAssumption DEF Before, CallTypes
<1>5. backend # NoBackend => quotas \in Configs
  BY <1>4 DEF Before, BackendInv, BackendShape, BackendCall, Locked
<1> QED BY <1>1, <1>2, <1>3, <1>4, <1>5 DEF CallRecord, Kinds

(* With the lock free and a backend built, its buckets are in order. *)
LEMMA FreeForce ==
  ASSUME ForceInv, \A s \in Callers : call[s].pc \notin Locked,
         backend # NoBackend, overtaken = {}
  PROVE  Agrees(quotas, DOMAIN quotas)
BY DEF ForceInv, Locked

(* The lock is taken and there is no backend: one is built. *)
LEMMA StartBuildKeeps ==
  ASSUME Before, ForceInv, NEW t \in Callers, StartBuild(t)
  PROVE  Kept
<1>0. "building" \in Locked /\ {} \in SUBSET Buckets
  BY DEF Locked
<1>1. /\ Locking(t) /\ backend = NoBackend /\ call[t].kind # "set_max"
      /\ Enter(t, "building", {})
      /\ UNCHANGED <<worldVars, backendVars, sweepVars>>
  BY DEF StartBuild
<1>2. /\ call[t].pc = "locking" /\ call[t].cfg \in Configs
      /\ call[t].kind \in {"acquire", "refund"} /\ call[t].model \in Models
      /\ lock = None
  BY <1>1, FreeLock
<1>3. Moves(t) /\ Sole(t) /\ lock' = t
  BY <1>0, <1>1, <1>2, Entered DEF Before
<1>4. /\ call'[t].pc = "building" /\ call'[t].kind = call[t].kind
      /\ call'[t].model = call[t].model /\ call'[t].cfg = call[t].cfg
      /\ call'[t].epoch = call[t].epoch
  BY <1>0, <1>1, <1>2, Entered DEF Before
<1>5. CallShape(call'[t])
  BY <1>2, <1>4, ConfigAssumption DEF CallShape
<1>6. CallTypes'
  BY <1>2, <1>3, <1>4, <1>5, MovesTyped, ConfigAssumption DEF Before, Locked
<1>7. /\ backend' = backend /\ quotas' = quotas /\ overrides' = overrides
      /\ torn' = torn /\ sweep' = sweep /\ overtaken' = overtaken
      /\ limiter' = limiter
  BY <1>1 DEF worldVars, backendVars, sweepVars
<1>8. BackendInv'
  <2>1. BackendShape'
    BY <1>1, <1>7 DEF Before, BackendInv, BackendShape
  <2>2. BackendCall(t)'
    BY <1>1, <1>4, <1>7 DEF BackendCall
  <2> QED BY <1>3, <2>1, <2>2, SoleKept
<1>9. LoopInv'
  <2>1. limiter = "async" => LoopCall(t)'
    BY <1>1, <1>4, <1>7 DEF Before, LoopInv, LoopCall
  <2>2. ~ \E s \in Callers : call'[s].pc = "rebuilding"
    BY <1>3, <1>4 DEF Sole, Locked
  <2> QED BY <1>1, <1>3, <1>7, <2>1, <2>2, LoopKept DEF SameBackend, Locking
<1>10. ForceInv'
  BY <1>1, <1>3, <1>4, <1>7, SoleKept DEF ForceInv, ForceCall
<1> QED BY <1>6, <1>8, <1>9, <1>10 DEF Kept

(* The buckets differ and nobody else is in flight: a backend for the new   *)
(* ones is built.                                                           *)
LEMMA StartRebuildKeeps ==
  ASSUME Before, ForceInv, NEW t \in Callers, StartRebuild(t)
  PROVE  Kept
<1>0. "rebuilding" \in Locked /\ {} \in SUBSET Buckets
  BY DEF Locked
<1>1. /\ Locking(t) /\ backend # NoBackend /\ OthersPending(t) = {}
      /\ Enter(t, "rebuilding", {})
      /\ quotas' = None
      /\ UNCHANGED <<worldVars, backend, overrides, torn, sweepVars>>
  BY DEF StartRebuild, SetChanges
<1>2. /\ call[t].pc = "locking" /\ call[t].cfg \in Configs
      /\ call[t].kind \in {"acquire", "refund", "set_max"}
      /\ call[t].model \in Models
      /\ lock = None /\ quotas \in Configs
      /\ \A s \in Callers : call[s].pc \notin Locked
  BY <1>1, FreeLock
<1>3. Moves(t) /\ Sole(t) /\ lock' = t
  BY <1>0, <1>1, <1>2, Entered DEF Before
<1>4. /\ call'[t].pc = "rebuilding" /\ call'[t].kind = call[t].kind
      /\ call'[t].model = call[t].model /\ call'[t].cfg = call[t].cfg
      /\ call'[t].epoch = call[t].epoch /\ call'[t].gen = backend.gen
      /\ call'[t].base = backend.epoch /\ call'[t].old = quotas
  BY <1>0, <1>1, <1>2, Entered DEF Before
<1>5. CallShape(call'[t])
  BY <1>2, <1>4, ConfigAssumption DEF CallShape
<1>6. CallTypes'
  BY <1>2, <1>3, <1>4, <1>5, MovesTyped, ConfigAssumption DEF Before, Locked
<1>7. /\ backend' = backend /\ overrides' = overrides
      /\ torn' = torn /\ sweep' = sweep /\ overtaken' = overtaken
      /\ limiter' = limiter
  BY <1>1 DEF worldVars, sweepVars
<1>8. BackendInv'
  <2>1. DOMAIN backend.limit = DOMAIN quotas
    BY <1>1, <1>2, ConfigAssumption
    DEF Before, BackendInv, BackendShape, BackendCall
  <2>2. Same(t)'
    BY <1>4, <1>7 DEF Same
  <2>3. BackendShape'
    BY <1>1, <1>4, <1>7 DEF Before, BackendInv, BackendShape
  <2>4. BackendCall(t)'
    BY <1>1, <1>4, <1>7, <2>1, <2>2 DEF BackendCall
  <2> QED BY <1>3, <2>3, <2>4, SoleKept
<1>9. LoopInv'
  <2>1. limiter = "async" => LoopCall(t)'
    BY <1>1, <1>4, <1>7 DEF Before, LoopInv, LoopCall
  <2>2. \A s \in Callers : call'[s].pc # "serving"
    <3>1. ASSUME NEW s \in Callers, s # t PROVE call[s].pc # "serving"
      <4>1. CallShape(call[s])
        BY DEF Before, CallTypes
      <4> QED BY <1>1, <3>1, <4>1 DEF OthersPending, Pending, CallShape
    <3> QED BY <1>3, <1>4, <3>1 DEF Sole
  <2> QED BY <1>1, <1>3, <1>7, <2>1, <2>2, LoopKept DEF SameBackend, Locking
<1>10. ForceInv'
  <2> SUFFICES ASSUME overtaken = {} PROVE ForceInv'
    BY <1>7 DEF ForceInv
  <2>1. Agrees(quotas, DOMAIN quotas)
    BY <1>1, <1>2, FreeForce
  <2>2. ForceCall(t)'
    BY <1>1, <1>4, <1>7, <2>1 DEF ForceCall, Agrees
  <2> QED BY <1>1, <1>3, <1>4, <1>7, <2>2, SoleKept DEF ForceInv
<1> QED BY <1>6, <1>8, <1>9, <1>10 DEF Kept

(* The limits differ, not the buckets: they are written one by one. *)
LEMMA StartApplyingKeeps ==
  ASSUME Before, ForceInv, NEW t \in Callers, StartApplying(t)
  PROVE  Kept
<1>1. /\ Locking(t) /\ backend # NoBackend
      /\ DOMAIN call[t].cfg = DOMAIN quotas
      /\ Enter(t, "applying", Changed(t, quotas))
      /\ UNCHANGED <<worldVars, backendVars, sweepVars>>
  BY DEF StartApplying
<1>2. /\ call[t].pc = "locking" /\ call[t].cfg \in Configs
      /\ call[t].kind \in {"acquire", "refund", "set_max"}
      /\ call[t].model \in Models
      /\ lock = None /\ quotas \in Configs
      /\ \A s \in Callers : call[s].pc \notin Locked
  BY <1>1, FreeLock
<1>0. "applying" \in Locked /\ Changed(t, quotas) \in SUBSET Buckets
  BY <1>2 DEF Changed, Buckets, Locked
<1>3. Moves(t) /\ Sole(t) /\ lock' = t
  BY <1>0, <1>1, <1>2, Entered DEF Before
<1>4. /\ call'[t].pc = "applying" /\ call'[t].kind = call[t].kind
      /\ call'[t].model = call[t].model /\ call'[t].cfg = call[t].cfg
      /\ call'[t].epoch = call[t].epoch /\ call'[t].gen = backend.gen
      /\ call'[t].base = backend.epoch /\ call'[t].old = quotas
      /\ call'[t].todo = Changed(t, quotas)
  BY <1>0, <1>1, <1>2, Entered DEF Before
<1>5. CallShape(call'[t])
  BY <1>1, <1>2, <1>4, ConfigAssumption DEF CallShape, Changed
<1>6. CallTypes'
  BY <1>2, <1>3, <1>4, <1>5, MovesTyped, ConfigAssumption DEF Before, Locked
<1>7. /\ backend' = backend /\ overrides' = overrides /\ quotas' = quotas
      /\ torn' = torn /\ sweep' = sweep /\ overtaken' = overtaken
      /\ limiter' = limiter
  BY <1>1 DEF worldVars, sweepVars, backendVars
<1>8. BackendInv'
  <2>1. Same(t)'
    BY <1>4, <1>7 DEF Same
  <2>2. BackendShape'
    BY <1>1, <1>2, <1>7, ConfigAssumption DEF Before, BackendInv, BackendShape
  <2>3. BackendCall(t)'
    BY <1>4, <1>7, <2>1 DEF BackendCall
  <2> QED BY <1>3, <2>2, <2>3, SoleKept
<1>9. LoopInv'
  <2>1. limiter = "async" => LoopCall(t)'
    BY <1>1, <1>4, <1>7 DEF Before, LoopInv, LoopCall
  <2>2. ~ \E s \in Callers : call'[s].pc = "rebuilding"
    BY <1>3, <1>4 DEF Sole, Locked
  <2> QED BY <1>1, <1>3, <1>7, <2>1, <2>2, LoopKept DEF SameBackend, Locking
<1>10. ForceInv'
  <2> SUFFICES ASSUME overtaken = {} PROVE ForceInv'
    BY <1>7 DEF ForceInv
  <2>1. Agrees(quotas, DOMAIN quotas)
    BY <1>1, <1>2, FreeForce
  <2>2. Written(t)' = {}
    BY <1>4 DEF Written, Changed
  <2>3. ForceCall(t)'
    BY <1>1, <1>4, <1>7, <2>1, <2>2 DEF ForceCall, Agrees
  <2> QED BY <1>1, <1>3, <1>4, <1>7, <2>3, SoleKept DEF ForceInv
<1> QED BY <1>6, <1>8, <1>9, <1>10 DEF Kept

-----------------------------------------------------------------------------
(* Steps out of the lock *)

(* A call in the lock, or one that just finds it free *)
LEMMA HasLock ==
  ASSUME CallTypes, NEW t \in Callers, Locking(t) \/ call[t].pc \in Locked
  PROVE  /\ lock \in {None, t}
         /\ call[t].kind # None /\ call[t].cfg \in Configs
         /\ call[t].model \in Models
         /\ call[t].kind \in {"acquire", "refund", "set_max"}
         /\ \A s \in Callers : s # t => call[s].pc \notin Locked
<1>1. call[t] \in CallRecord /\ CallShape(call[t])
  BY DEF CallTypes
<1>2. call[t].pc \in Locked \cup {"locking"} /\ lock \in {None, t}
  BY DEF Locking, At, CallTypes
<1>3. /\ call[t].kind # None /\ call[t].cfg \in Configs
      /\ call[t].model \in Models
  BY <1>1, <1>2 DEF CallShape, Locked
<1>4. \A s \in Callers : s # t => call[s].pc \notin Locked
  BY <1>2, ConfigAssumption DEF CallTypes
<1> QED BY <1>1, <1>2, <1>3, <1>4 DEF CallRecord, Kinds

(* What a call that leaves the lock by an error leaves behind *)
LEMMA RaisedCalls ==
  ASSUME Before, NEW t \in Callers, NEW pc, At(t, pc),
         Locking(t) \/ call[t].pc \in Locked, Raised(t),
         backend' = backend, limiter' = limiter, sweep' = sweep
  PROVE  /\ CallTypes' /\ Sole(t) /\ LoopInv'
         /\ BackendCall(t)' /\ ForceCall(t)'
         /\ \A s \in Callers : call'[s].pc \notin Locked
<1> USE DEF Before
<1>1. /\ Moves(t) /\ CallShape(call'[t]) /\ lock' = None
      /\ call'[t].pc \in {"idle", "crediting"}
      /\ call[t].kind = "refund" => /\ call'[t].kind = "refund"
                                    /\ call'[t].epoch = call[t].epoch
      /\ call[t].kind # "refund" => call'[t].kind = None
  BY HasLock, RaisedFields
<1>2. Sole(t)
  BY <1>1, HasLock, SoleHolder
<1>3. CallTypes'
  BY <1>1, HasLock, MovesTyped, ConfigAssumption DEF Locked
<1>4. BackendCall(t)' /\ ForceCall(t)'
  BY <1>1 DEF BackendCall, ForceCall
<1>5. LoopInv'
  <2>1. limiter = "async" => LoopCall(t)'
    BY <1>1, ConfigAssumption DEF LoopCall, LoopInv
  <2>2. ~ \E s \in Callers : call'[s].pc = "rebuilding"
    BY <1>1, <1>2, SoleKept
  <2> QED BY <1>1, <2>1, <2>2, LoopKept DEF SameBackend
<1>6. \A s \in Callers : call'[s].pc \notin Locked
  BY <1>1, <1>2 DEF Sole, Locked
<1> QED BY <1>2, <1>3, <1>4, <1>5, <1>6

(* What a call that leaves the lock with its backend leaves behind.        *)
(* set_max_capacity stays within.                                          *)
LEMMA ObtainedCalls ==
  ASSUME Before, NEW t \in Callers, NEW pc, At(t, pc),
         Locking(t) \/ call[t].pc \in {"building", "rebuilding", "applying"},
         NEW b, b.gen \in Nat, b.epoch \in Nat, Obtained(t, b),
         limiter' = limiter, sweep' = sweep,
         quotas' = call[t].cfg,
         backend' # NoBackend => b.gen = backend'.gen,
         overtaken' = {} => backend' # NoBackend,
         limiter = "async" /\ call[t].kind # "set_max" =>
           /\ backend' # NoBackend
           /\ b.gen = backend'.gen /\ b.epoch = backend'.epoch
           /\ call[t].kind = "refund" => backend'.epoch = backend.epoch
           /\ DOMAIN backend'.limit = DOMAIN call[t].cfg,
         limiter = "async" =>
           \/ SameBackend
           \/ \A s \in Callers : s # t => /\ call[s].pc # "serving"
                                          /\ call[s].kind # "refund"
           \/ /\ backend'.epoch = backend.epoch /\ backend' # NoBackend
              /\ \A s \in Callers : s # t => call[s].pc # "serving"
  PROVE  /\ CallTypes' /\ Sole(t) /\ LoopInv' /\ BackendCall(t)'
         /\ overtaken' = {} => ForceCall(t)'
         /\ \A s \in Callers : call'[s].pc \notin {"rebuilding", "applying"}
<1> USE DEF Before
<1>1. /\ Moves(t) /\ CallShape(call'[t]) /\ call'[t].kind = call[t].kind
      /\ call[t].kind = "refund" => /\ call'[t].pc = "crediting"
                                    /\ call'[t].epoch = call[t].epoch
                                    /\ lock' = None
      /\ call[t].kind = "set_max" => call'[t].pc = "writing" /\ lock' = t
      /\ call[t].kind = "acquire" => call'[t].pc = "serving" /\ lock' = None
      /\ call[t].kind # "refund" => /\ call'[t].gen = b.gen
                                    /\ call'[t].epoch = b.epoch
                                    /\ call'[t].cfg = call[t].cfg
      /\ call[t].kind \in {"refund", "set_max", "acquire"}
  BY ObtainedFields DEF Locking, At
<1>2. /\ lock \in {None, t} /\ call[t].cfg \in Configs
      /\ \A s \in Callers : s # t => call[s].pc \notin Locked
  BY HasLock DEF Locked
<1>3. Sole(t)
  BY <1>1, <1>2, SoleHolder
<1>4. CallTypes'
  BY <1>1, <1>2, MovesTyped, ConfigAssumption DEF Locked
<1>5. BackendCall(t)' /\ (overtaken' = {} => ForceCall(t)')
  BY <1>1 DEF BackendCall, ForceCall
<1>6. \A s \in Callers : call'[s].pc \notin {"rebuilding", "applying"}
  BY <1>1, <1>3, SoleKept
<1>7. LoopInv'
  <2>1. limiter = "async" => LoopCall(t)'
    BY <1>1 DEF LoopCall, LoopInv, Served
  <2> QED BY <1>1, <1>2, <1>6, <2>1, LoopKept
<1> QED BY <1>3, <1>4, <1>5, <1>6, <1>7

(* set_max_capacity returns or raises *)
LEMMA SetMaxEnds ==
  ASSUME Before, NEW t \in Callers, At(t, "writing"),
         call' = [call EXCEPT ![t] = NoCall], lock' = None,
         limiter' = limiter, sweep' = sweep, SameBackend
  PROVE  /\ CallTypes' /\ Sole(t) /\ LoopInv'
         /\ BackendCall(t)' /\ ForceCall(t)'
         /\ \A s \in Callers : call'[s].pc \notin Locked
<1> USE DEF Before
<1>1. call[t].pc = "writing" /\ lock = t
  BY DEF At, CallTypes, Locked
<1>2. Moves(t) /\ call'[t] = NoCall
  BY NoCallFields, OneWritten
<1>3. Sole(t)
  BY <1>1, <1>2, SoleHolder
<1>4. CallTypes'
  BY <1>1, <1>2, NoCallFields, MovesTyped, ConfigAssumption DEF Locked
<1>5. BackendCall(t)' /\ ForceCall(t)' /\ LoopCall(t)'
  BY <1>2, NoCallFields, ConfigAssumption DEF BackendCall, ForceCall, LoopCall
<1>6. \A s \in Callers : call'[s].pc \notin Locked
  BY <1>2, <1>3, NoCallFields DEF Sole, Locked
<1>7. LoopInv'
  BY <1>2, <1>5, <1>6, LoopKept DEF Locked
<1> QED BY <1>3, <1>4, <1>5, <1>6, <1>7

(* The parts of the invariant, put together *)
LEMMA Assembled ==
  ASSUME NEW t \in Callers, CallTypes', Sole(t), LoopInv',
         BackendShape', BackendCall(t)',
         overtaken' = {} =>
           /\ ForceCall(t)'
           /\ backend' = NoBackend => DOMAIN overrides' = {}
           /\ backend' # NoBackend
                /\ call'[t].pc \notin {"rebuilding", "applying"} =>
                Agrees(quotas, DOMAIN quotas)'
  PROVE  Kept
BY SoleKept DEF Kept, ForceInv

(* The lock is taken and the backend fits the config. *)
LEMMA SynchronizedKeeps ==
  ASSUME Before, ForceInv, NEW t \in Callers, Synchronized(t)
  PROVE  Kept
<1>1. /\ Locking(t) /\ backend # NoBackend
      /\ call[t].cfg = quotas /\ Obtained(t, backend)
      /\ UNCHANGED <<worldVars, backendVars, sweepVars>>
  BY DEF Synchronized
<1>2. /\ backend' = backend /\ overrides' = overrides /\ quotas' = quotas
      /\ torn' = torn /\ sweep' = sweep /\ overtaken' = overtaken
      /\ limiter' = limiter
  BY <1>1 DEF worldVars, sweepVars, backendVars
<1>3. /\ quotas \in Configs /\ \A s \in Callers : call[s].pc \notin Locked
      /\ backend.gen \in Nat /\ backend.epoch \in Nat
      /\ DOMAIN backend.limit = DOMAIN quotas
  BY <1>1, FreeLock, ConfigAssumption DEF Before, BackendInv, BackendShape
<1>4. limiter = "async" /\ call[t].kind = "refund" =>
        call[t].epoch = backend.epoch
  BY DEF Before, LoopInv, LoopCall
<1>5. /\ CallTypes' /\ Sole(t) /\ LoopInv' /\ BackendCall(t)'
      /\ overtaken' = {} => ForceCall(t)'
  BY <1>1, <1>2, <1>3, <1>4, ObtainedCalls DEF Locking, SameBackend
<1>6. BackendShape'
  BY <1>2, <1>3, ConfigAssumption DEF Before, BackendInv, BackendShape
<1>7. overtaken = {} => Agrees(quotas, DOMAIN quotas)
  BY <1>1, <1>3, FreeForce
<1> QED BY <1>1, <1>2, <1>5, <1>6, <1>7, Assembled DEF Agrees

(* A rebuild that is refused, and set_max_capacity without a backend *)
LEMMA RefusedKeeps ==
  ASSUME Before, ForceInv, NEW t \in Callers,
         RefuseRebuild(t) \/ NothingToSet(t)
  PROVE  Kept
<1>1. /\ Locking(t) /\ Raised(t)
      /\ UNCHANGED <<worldVars, backendVars, sweepVars>>
  BY DEF RefuseRebuild, NothingToSet, SetChanges
<1>2. /\ backend' = backend /\ overrides' = overrides /\ quotas' = quotas
      /\ torn' = torn /\ sweep' = sweep /\ overtaken' = overtaken
      /\ limiter' = limiter
  BY <1>1 DEF worldVars, sweepVars, backendVars
<1>3. /\ backend # NoBackend => quotas \in Configs
      /\ \A s \in Callers : call[s].pc \notin Locked
  BY <1>1, FreeLock
<1>4. /\ CallTypes' /\ Sole(t) /\ LoopInv'
      /\ BackendCall(t)' /\ ForceCall(t)'
  BY <1>1, <1>2, RaisedCalls DEF Locking
<1>5. BackendShape'
  BY <1>2, <1>3, ConfigAssumption DEF Before, BackendInv, BackendShape
<1>6. overtaken = {} /\ backend # NoBackend => Agrees(quotas, DOMAIN quotas)
  BY <1>3, FreeForce
<1> QED BY <1>2, <1>4, <1>5, <1>6, Assembled DEF Agrees, ForceInv

(* The build raised. *)
LEMMA FailBuildKeeps ==
  ASSUME Before, ForceInv, NEW t \in Callers, FailBuild(t)
  PROVE  Kept
<1>1. /\ At(t, "building") /\ Raised(t)
      /\ UNCHANGED <<worldVars, backendVars, sweepVars>>
  BY DEF FailBuild
<1>2. /\ backend' = backend /\ overrides' = overrides /\ quotas' = quotas
      /\ torn' = torn /\ sweep' = sweep /\ overtaken' = overtaken
      /\ limiter' = limiter
  BY <1>1 DEF worldVars, sweepVars, backendVars
<1>3. call[t].pc = "building" /\ backend = NoBackend
  BY <1>1 DEF At, Before, BackendInv, BackendCall
<1>4. /\ CallTypes' /\ Sole(t) /\ LoopInv'
      /\ BackendCall(t)' /\ ForceCall(t)'
  BY <1>1, <1>2, <1>3, RaisedCalls DEF Locked
<1>5. BackendShape'
  BY <1>2, <1>3 DEF Before, BackendInv, BackendShape
<1> QED BY <1>2, <1>3, <1>4, <1>5, Assembled DEF ForceInv

(* The first backend works with the limits of the config. *)
LEMMA FinishBuildKeeps ==
  ASSUME Before, ForceInv, NEW t \in Callers, FinishBuild(t)
  PROVE  Kept
<1> DEFINE b == [gen |-> NextGen, epoch |-> NextGen, limit |-> call[t].cfg]
<1>1. /\ At(t, "building") /\ Spend("builds")
      /\ backend' = b /\ quotas' = call[t].cfg /\ torn' = {}
      /\ Obtained(t, b)
      /\ UNCHANGED <<worldVars, overrides, sweepVars>>
  BY DEF FinishBuild
<1>2. /\ b = [gen |-> b.gen, epoch |-> b.epoch, limit |-> b.limit]
      /\ b.gen = NextGen /\ b.epoch = NextGen /\ b.limit = call[t].cfg
      /\ NextGen \in Nat /\ NextGen # 0
  BY <1>1 DEF Spend, NextGen, Before, WorldTypes
<1> HIDE DEF b
<1>3. b # NoBackend
  BY <1>2 DEF NoBackend
<1>4. /\ overrides' = overrides /\ sweep' = sweep /\ overtaken' = overtaken
      /\ limiter' = limiter
  BY <1>1 DEF worldVars, sweepVars
<1>5. /\ call[t].pc = "building" /\ backend = NoBackend
      /\ call[t].kind # "set_max" /\ call[t].cfg \in Configs
  <2>1. call[t].pc = "building" /\ CallShape(call[t])
    BY <1>1 DEF At, Before, CallTypes
  <2> QED BY <2>1 DEF Before, BackendInv, BackendCall, CallShape
<1>6. \A s \in Callers : limiter = "async" =>
        call[s].pc # "serving" /\ call[s].kind # "refund"
  BY <1>5 DEF Before, LoopInv, LoopCall
<1>7. /\ CallTypes' /\ Sole(t) /\ LoopInv' /\ BackendCall(t)'
      /\ overtaken' = {} => ForceCall(t)'
  BY <1>1, <1>2, <1>3, <1>4, <1>5, <1>6, ObtainedCalls
<1>8. BackendShape'
  BY <1>1, <1>2, <1>3, <1>5, ConfigAssumption DEF BackendShape
<1>9. overtaken' = {} => Agrees(quotas, DOMAIN quotas)'
  <2>1. overtaken = {} => DOMAIN overrides = {}
    BY <1>5 DEF ForceInv
  <2> QED BY <1>1, <1>2, <1>4, <2>1 DEF Agrees
<1> QED BY <1>1, <1>3, <1>7, <1>8, <1>9, Assembled

(* The rebuilt backend carries the runtime overrides that remain. *)
LEMMA FinishRebuildKeeps ==
  ASSUME Before, ForceInv, NEW t \in Callers, FinishRebuild(t)
  PROVE  Kept
<1> DEFINE b == [gen |-> NextGen, epoch |-> call[t].base,
                 limit |-> Preserved(t)]
<1>1. /\ At(t, "rebuilding") /\ Spend("builds")
      /\ backend' = b /\ quotas' = call[t].cfg /\ torn' = {}
      /\ overrides' = Restored(t)
      /\ Obtained(t, b)
      /\ UNCHANGED <<worldVars, sweepVars>>
  BY DEF FinishRebuild
<1>0. call[t] \in CallRecord /\ CallShape(call[t]) /\ call[t].pc = "rebuilding"
  BY <1>1 DEF At, Before, CallTypes
<1>2. /\ b = [gen |-> b.gen, epoch |-> b.epoch, limit |-> b.limit]
      /\ b.gen = NextGen /\ b.epoch = call[t].base /\ b.limit = Preserved(t)
      /\ NextGen \in Nat /\ NextGen # 0 /\ b.epoch \in Nat
  BY <1>0, <1>1 DEF Spend, NextGen, Before, WorldTypes, CallRecord
<1>a. DOMAIN b.limit = DOMAIN call[t].cfg
  BY <1>2 DEF Preserved
<1> HIDE DEF b
<1>3. b # NoBackend
  BY <1>2 DEF NoBackend
<1>4. sweep' = sweep /\ overtaken' = overtaken /\ limiter' = limiter
  BY <1>1 DEF worldVars, sweepVars
<1>5. call[t].cfg \in Configs
  BY <1>0 DEF CallShape
<1>6. /\ backend # NoBackend => call[t].base = backend.epoch
      /\ limiter = "async" =>
           /\ \A s \in Callers : call[s].pc # "serving"
           /\ call[t].kind # "set_max" => backend # NoBackend
           /\ backend = NoBackend => \A s \in Callers : call[s].kind # "refund"
  BY <1>0 DEF Before, BackendInv, BackendCall, Same, LoopInv, LoopCall
<1>7. /\ CallTypes' /\ Sole(t) /\ LoopInv' /\ BackendCall(t)'
      /\ overtaken' = {} => ForceCall(t)'
  BY <1>0, <1>1, <1>2, <1>a, <1>3, <1>4, <1>5, <1>6, ObtainedCalls
<1>8. BackendShape'
  BY <1>1, <1>2, <1>a, <1>3, <1>5, ConfigAssumption DEF BackendShape
<1>9. Agrees(quotas, DOMAIN quotas)'
  BY <1>1, <1>2 DEF Agrees, Preserved, Restored, Restrict, Surviving
<1> QED BY <1>1, <1>3, <1>7, <1>8, <1>9, Assembled

(* The rebuild raised and the old snapshot is put back. *)
LEMMA FailRebuildKeeps ==
  ASSUME Before, ForceInv, NEW t \in Callers, FailRebuild(t)
  PROVE  Kept
<1>1. /\ At(t, "rebuilding") /\ Raised(t) /\ quotas' = call[t].old
      /\ UNCHANGED <<worldVars, backend, overrides, torn, sweepVars>>
  BY DEF FailRebuild
<1>2. sweep' = sweep /\ overtaken' = overtaken /\ limiter' = limiter
  BY <1>1 DEF worldVars, sweepVars
<1>3. /\ call[t].pc = "rebuilding" /\ call[t].old \in Configs
      /\ backend # NoBackend => DOMAIN backend.limit = DOMAIN call[t].old
  <2>1. CallShape(call[t]) /\ call[t].pc = "rebuilding"
    BY <1>1 DEF At, Before, CallTypes
  <2> QED BY <2>1 DEF CallShape, Before, BackendInv, BackendCall
<1>4. /\ CallTypes' /\ Sole(t) /\ LoopInv'
      /\ BackendCall(t)' /\ ForceCall(t)'
  BY <1>1, <1>2, <1>3, RaisedCalls DEF Locked
<1>5. BackendShape'
  BY <1>1, <1>3, ConfigAssumption DEF Before, BackendInv, BackendShape
<1>6. overtaken = {} =>
        backend # NoBackend /\ Agrees(call[t].old, DOMAIN call[t].old)
  BY <1>3 DEF ForceInv, ForceCall
<1> QED BY <1>1, <1>2, <1>4, <1>5, <1>6, Assembled DEF Agrees

(* Writing one limit leaves everything else of the backend. *)
LEMMA LimitedBackend ==
  ASSUME BackendShape, NEW t \in Callers, NEW b, NEW v,
         backend' = Limited(t, b, v)
  PROVE  /\ backend' = [gen |-> backend'.gen, epoch |-> backend'.epoch,
                        limit |-> backend'.limit]
         /\ SameBackend
         /\ backend'.gen = 0 => backend' = NoBackend
         /\ \A c \in DOMAIN backend.limit :
              backend'.limit[c] =
                IF backend.gen = call[t].gen /\ c = b THEN v
                ELSE backend.limit[c]
<1> DEFINE lim == [backend.limit EXCEPT ![b] = v]
           new == [gen |-> backend.gen, epoch |-> backend.epoch, limit |-> lim]
<1>1. /\ DOMAIN lim = DOMAIN backend.limit
      /\ \A c \in DOMAIN backend.limit :
           lim[c] = IF c = b THEN v ELSE backend.limit[c]
  OBVIOUS
<1>2. backend' = IF backend.gen = call[t].gen THEN new ELSE backend
  BY DEF Limited, BackendShape
<1> HIDE DEF lim
<1>3. /\ new.gen = backend.gen /\ new.epoch = backend.epoch /\ new.limit = lim
      /\ new = [gen |-> new.gen, epoch |-> new.epoch, limit |-> new.limit]
  OBVIOUS
<1>4. NoBackend.gen = 0 /\ DOMAIN NoBackend.limit = {}
  BY DEF NoBackend, Empty
<1>5. backend.gen = 0 => new = backend
  <2> SUFFICES ASSUME backend.gen = 0 PROVE lim = backend.limit
    BY DEF BackendShape
  <2>1. backend = NoBackend
    BY DEF BackendShape
  <2>2. backend.limit = Empty
    BY <2>1 DEF NoBackend
  <2> QED BY <1>1, <1>4, <2>1, <2>2 DEF Empty, lim
<1> HIDE DEF new
<1> QED BY <1>1, <1>2, <1>3, <1>4, <1>5 DEF SameBackend, BackendShape

(* One of the changed limits is written. *)
LEMMA ApplyLimitKeeps ==
  ASSUME Before, ForceInv, NEW t \in Callers, NEW b \in Buckets,
         ApplyLimit(t, b)
  PROVE  Kept
<1> DEFINE rec == [call[t] EXCEPT !.todo = @ \ {b}]
<1>1. /\ At(t, "applying") /\ b \in call[t].todo
      /\ backend' = Limited(t, b, call[t].cfg[b])
      /\ call' = [call EXCEPT ![t] = rec]
      /\ UNCHANGED <<worldVars, quotas, overrides, torn, lock, sweepVars>>
  BY DEF ApplyLimit
<1>2. /\ sweep' = sweep /\ overtaken' = overtaken /\ limiter' = limiter
      /\ quotas' = quotas /\ overrides' = overrides /\ torn' = torn
      /\ lock' = lock
  BY <1>1 DEF worldVars, sweepVars
<1>3. /\ call[t] \in CallRecord /\ CallShape(call[t])
      /\ call[t].pc = "applying" /\ lock = t
      /\ BackendShape /\ BackendCall(t)
      /\ limiter = "async" => LoopCall(t)
  BY <1>1 DEF At, Before, CallTypes, Locked, BackendInv, LoopInv
<1>4. /\ rec \in CallRecord
      /\ rec.pc = "applying" /\ rec.todo = call[t].todo \ {b}
      /\ rec.kind = call[t].kind /\ rec.model = call[t].model
      /\ rec.cfg = call[t].cfg /\ rec.old = call[t].old
      /\ rec.gen = call[t].gen /\ rec.base = call[t].base
      /\ rec.epoch = call[t].epoch
  BY <1>3 DEF CallRecord
<1> HIDE DEF rec
<1>5. Moves(t) /\ call'[t] = rec
  BY <1>1, <1>4, OneWritten DEF Before
<1>6. Sole(t)
  BY <1>3, <1>5, SoleHolder DEF Before
<1>7. CallTypes'
  <2>1. CallShape(rec)
    BY <1>3, <1>4, ConfigAssumption DEF CallShape
  <2> QED BY <1>2, <1>3, <1>4, <1>5, <2>1, MovesTyped DEF Before, Locked
<1>8. /\ backend' = [gen |-> backend'.gen, epoch |-> backend'.epoch,
                     limit |-> backend'.limit]
      /\ SameBackend
      /\ backend'.gen = 0 => backend' = NoBackend
      /\ \A c \in DOMAIN backend.limit :
           backend'.limit[c] =
             IF backend.gen = call[t].gen /\ c = b THEN call[t].cfg[b]
             ELSE backend.limit[c]
  BY <1>1, <1>3, LimitedBackend
<1>9. backend' # NoBackend => backend # NoBackend
  <2> SUFFICES ASSUME backend = NoBackend PROVE backend' = NoBackend
    OBVIOUS
  <2>1. backend'.gen = 0
    BY <1>8 DEF SameBackend, NoBackend
  <2> QED BY <1>8, <2>1
<1>10. BackendShape'
  <2>1. quotas = None => backend = NoBackend
    BY <1>3, ConfigAssumption DEF BackendCall, CallShape
  <2> QED BY <1>2, <1>3, <1>8, <1>9, <2>1 DEF BackendShape, SameBackend
<1>11. BackendCall(t)'
  BY <1>2, <1>3, <1>4, <1>5, <1>8, <1>9 DEF BackendCall, Same, SameBackend
<1>12. LoopInv'
  <2>1. limiter = "async" => LoopCall(t)'
    BY <1>3, <1>4, <1>5, <1>8 DEF LoopCall, SameBackend, CallShape
  <2>2. ~ \E s \in Callers : call'[s].pc = "rebuilding"
    BY <1>4, <1>5, <1>6, SoleKept
  <2> QED BY <1>1, <1>2, <1>5, <1>8, <2>1, <2>2, LoopKept
<1>13. overtaken' = {} => ForceCall(t)'
  <2> SUFFICES ASSUME overtaken = {} PROVE ForceCall(t)'
    BY <1>2
  <2>1. /\ backend # NoBackend
        /\ Agrees(call[t].old, DOMAIN call[t].old \ Written(t))
        /\ \A c \in Written(t) : backend.limit[c] = call[t].cfg[c]
    BY <1>3 DEF ForceInv, ForceCall
  <2>2. /\ backend.gen = call[t].gen
        /\ DOMAIN backend.limit = DOMAIN call[t].old
        /\ b \in Changed(t, call[t].old)
    BY <1>1, <1>3, <2>1, ConfigAssumption
    DEF BackendCall, BackendShape, Same, CallShape, Changed
  <2>3. Written(t)' = Written(t) \cup {b}
    BY <1>1, <1>4, <1>5, <2>2 DEF Written, Changed
  <2>4. Written(t) \subseteq DOMAIN call[t].old /\ b \in DOMAIN call[t].old
    BY <2>2 DEF Written, Changed
  <2>5. \A c \in Written(t)' : backend'.limit[c] = call'[t].cfg[c]
    BY <1>4, <1>5, <1>8, <2>1, <2>2, <2>3, <2>4
  <2>6. Agrees(call[t].old, DOMAIN call[t].old \ Written(t))'
    BY <1>2, <1>4, <1>5, <1>8, <2>1, <2>2, <2>3 DEF Agrees
  <2>7. backend' # NoBackend
    BY <1>8, <2>1 DEF SameBackend
  <2> QED BY <1>4, <1>5, <2>5, <2>6, <2>7 DEF ForceCall
<1> QED BY <1>2, <1>4, <1>5, <1>6, <1>7, <1>8, <1>10, <1>11, <1>12, <1>13,
           Assembled DEF ForceInv, SameBackend

(* All are written: the snapshot changes and their overrides go. *)
LEMMA FinishApplyingKeeps ==
  ASSUME Before, ForceInv, NEW t \in Callers, FinishApplying(t)
  PROVE  Kept
<1> DEFINE b == [gen |-> call[t].gen, epoch |-> call[t].base]
           changed == Changed(t, call[t].old)
<1>1. /\ At(t, "applying") /\ call[t].todo = {}
      /\ overrides' = Restrict(overrides, DOMAIN overrides \ changed)
      /\ quotas' = call[t].cfg /\ torn' = torn \ changed
      /\ Obtained(t, b)
      /\ UNCHANGED <<worldVars, backend, sweepVars>>
  BY DEF FinishApplying
<1>2. /\ sweep' = sweep /\ overtaken' = overtaken /\ limiter' = limiter
      /\ backend' = backend
  BY <1>1 DEF worldVars, sweepVars
<1>3. /\ call[t] \in CallRecord /\ CallShape(call[t])
      /\ call[t].pc = "applying"
      /\ BackendShape /\ BackendCall(t)
      /\ limiter = "async" => LoopCall(t)
  BY <1>1 DEF At, Before, CallTypes, BackendInv, LoopInv
<1>4. /\ b.gen = call[t].gen /\ b.epoch = call[t].base
      /\ b.gen \in Nat /\ b.epoch \in Nat
  BY <1>3 DEF CallRecord
<1> HIDE DEF b
<1>5. /\ call[t].cfg \in Configs /\ call[t].old \in Configs
      /\ DOMAIN call[t].cfg = DOMAIN call[t].old
      /\ backend # NoBackend =>
           /\ call[t].gen = backend.gen /\ call[t].base = backend.epoch
           /\ DOMAIN backend.limit = DOMAIN call[t].cfg
  BY <1>3, ConfigAssumption DEF BackendCall, BackendShape, Same, CallShape
<1>6. overtaken = {} =>
        /\ backend # NoBackend
        /\ Agrees(call[t].old, DOMAIN call[t].old \ changed)
        /\ \A c \in changed : backend.limit[c] = call[t].cfg[c]
  BY <1>1, <1>3 DEF ForceInv, ForceCall, Written
<1>7. /\ CallTypes' /\ Sole(t) /\ LoopInv' /\ BackendCall(t)'
      /\ overtaken' = {} => ForceCall(t)'
  BY <1>1, <1>2, <1>3, <1>4, <1>5, <1>6, ObtainedCalls
  DEF LoopCall, SameBackend
<1>8. BackendShape'
  BY <1>1, <1>2, <1>3, <1>5, ConfigAssumption DEF BackendShape
<1>9. overtaken' = {} => Agrees(quotas, DOMAIN quotas)'
  BY <1>1, <1>2, <1>5, <1>6 DEF Agrees, Changed, Restrict
<1> QED BY <1>2, <1>6, <1>7, <1>8, <1>9, Assembled

(* A write raised: what was written is torn. *)
LEMMA FailApplyingKeeps ==
  ASSUME Before, ForceInv, NEW t \in Callers, FailApplying(t)
  PROVE  Kept
<1>1. /\ At(t, "applying") /\ Raised(t)
      /\ torn' = torn \cup Written(t)
      /\ UNCHANGED <<worldVars, backend, quotas, overrides, sweepVars>>
  BY DEF FailApplying, Written
<1>2. /\ sweep' = sweep /\ overtaken' = overtaken /\ limiter' = limiter
  BY <1>1 DEF worldVars, sweepVars
<1>3. /\ CallShape(call[t]) /\ call[t].pc = "applying"
      /\ BackendShape /\ BackendCall(t)
  BY <1>1 DEF At, Before, CallTypes, BackendInv
<1>4. /\ CallTypes' /\ Sole(t) /\ LoopInv'
      /\ BackendCall(t)' /\ ForceCall(t)'
  BY <1>1, <1>2, <1>3, RaisedCalls DEF Locked
<1>5. backend # NoBackend => quotas = call[t].old /\ call[t].old \in Configs
  BY <1>3 DEF BackendCall, CallShape
<1>6. BackendShape'
  BY <1>1, <1>3, <1>5, ConfigAssumption DEF BackendShape
<1>7. overtaken = {} => /\ backend # NoBackend
                        /\ Agrees(quotas, DOMAIN quotas \ Written(t))
  BY <1>3, <1>5 DEF ForceInv, ForceCall
<1> QED BY <1>1, <1>2, <1>4, <1>6, <1>7, Assembled DEF Agrees

(* set_max_capacity writes, or fails to *)
LEMMA SetMaxKeeps ==
  ASSUME Before, ForceInv, NEW t \in Callers,
         \/ WriteMax(t) \/ UnknownBucket(t)
         \/ \E done \in BOOLEAN : FailWrite(t, done)
  PROVE  Kept
<1> DEFINE b == call[t].bucket
           v == call[t].value
<1>1. /\ At(t, "writing") /\ call' = [call EXCEPT ![t] = NoCall]
      /\ lock' = None /\ quotas' = quotas
      /\ UNCHANGED <<worldVars, sweepVars>>
      /\ \/ /\ b \in DOMAIN call[t].cfg
            /\ backend' = Limited(t, b, v) /\ torn' = torn \ {b}
            /\ overrides' = [c \in DOMAIN overrides \cup {b} |->
                               IF c = b THEN v ELSE overrides[c]]
         \/ /\ backend' = Limited(t, b, v) /\ torn' = torn \cup {b}
            /\ overrides' = overrides
         \/ backend' = backend /\ torn' = torn /\ overrides' = overrides
  BY DEF WriteMax, UnknownBucket, FailWrite, Remember, backendVars
<1>2. /\ sweep' = sweep /\ overtaken' = overtaken /\ limiter' = limiter
  BY <1>1 DEF worldVars, sweepVars
<1>3. /\ CallShape(call[t]) /\ call[t].pc = "writing"
      /\ BackendShape /\ BackendCall(t)
      /\ call[t].cfg \in Configs
  BY <1>1 DEF At, Before, CallTypes, BackendInv, CallShape
<1> HIDE DEF b, v
<1>4. /\ backend' = [gen |-> backend'.gen, epoch |-> backend'.epoch,
                     limit |-> backend'.limit]
      /\ SameBackend
      /\ backend'.gen = 0 => backend' = NoBackend
  BY <1>1, <1>3, LimitedBackend DEF SameBackend, BackendShape
<1>5. backend' # NoBackend => backend # NoBackend
  <2> SUFFICES ASSUME backend = NoBackend PROVE backend' = NoBackend
    OBVIOUS
  <2>1. backend'.gen = 0
    BY <1>4 DEF SameBackend, NoBackend
  <2> QED BY <1>4, <2>1
<1>6. /\ CallTypes' /\ Sole(t) /\ LoopInv'
      /\ BackendCall(t)' /\ ForceCall(t)'
  BY <1>1, <1>2, <1>4, SetMaxEnds
<1>7. backend # NoBackend =>
        /\ call[t].gen = backend.gen /\ quotas = call[t].cfg
        /\ quotas # None /\ DOMAIN backend.limit = DOMAIN quotas
  BY <1>3, ConfigAssumption DEF BackendCall, BackendShape
<1>8. BackendShape'
  BY <1>1, <1>3, <1>4, <1>5, <1>7 DEF BackendShape, SameBackend
<1>9. ASSUME overtaken = {}
      PROVE  backend' # NoBackend /\ Agrees(quotas, DOMAIN quotas)'
  <2>1. backend # NoBackend
    BY <1>3, <1>9 DEF ForceInv, ForceCall
  <2>2. Agrees(quotas, DOMAIN quotas)
    <3>1. \A s \in Callers : s # t => call[s].pc \notin Locked
      BY <1>3, HasLock DEF Before, Locked
    <3> QED BY <1>3, <1>9, <2>1, <3>1 DEF ForceInv, Locked
  <2>3. /\ backend' = Limited(t, b, v) =>
             \A c \in DOMAIN quotas :
               backend'.limit[c] = IF c = b THEN v ELSE backend.limit[c]
    BY <1>3, <1>7, <2>1, LimitedBackend
  <2>4. Agrees(quotas, DOMAIN quotas)'
    BY <1>1, <2>2, <2>3 DEF Agrees
  <2> QED BY <1>4, <2>1, <2>4 DEF SameBackend
<1> QED BY <1>2, <1>6, <1>8, <1>9, Assembled

-----------------------------------------------------------------------------
(* Rollouts and evictions *)

(* The application's configs change; nothing of the limiter does. *)
LEMMA RolloutKeeps ==
  ASSUME Before, ForceInv, NEW ms, NEW c, Rollout(ms, c)
  PROVE  Kept
<1>1. UNCHANGED <<limiter, backend, quotas, overrides, torn, lock, call, sweep,
                  overtaken>>
  BY DEF Rollout, backendVars, sweepVars
<1> QED BY <1>1
        DEF Before, Kept, CallTypes, BackendInv, BackendShape, BackendCall, Same,
            LoopInv, LoopCall, Served, InFlight, Pending, ForceInv, ForceCall,
            Agrees, Written, Changed

(* The sweep saw that nobody is in flight. *)
LEMMA ScanKeeps ==
  ASSUME Before, ForceInv, Scan
  PROVE  Kept
<1>1. /\ UNCHANGED <<limiter, backend, quotas, overrides, torn, lock, call,
                     overtaken>>
      /\ InFlight = {}
  BY DEF Scan, worldVars, backendVars
<1> QED BY <1>1
        DEF Before, Kept, CallTypes, BackendInv, BackendShape, BackendCall, Same,
            LoopInv, LoopCall, Served, InFlight, Pending, ForceInv, ForceCall,
            Agrees, Written, Changed

(* An eviction meets nobody in flight, or is remembered. *)
LEMMA EvictKeeps ==
  ASSUME Before, ForceInv, Evict
  PROVE  Kept
<1>1. /\ sweep = "scanned" /\ sweep' = None
      /\ backend' = NoBackend /\ quotas' = None /\ overrides' = Empty
      /\ torn' = {} /\ lock' = lock /\ call' = call /\ limiter' = limiter
      /\ overtaken' = {} => /\ InFlight = {}
                            /\ \A t \in Callers : lock = t =>
                                 call[t].kind # "set_max"
  BY DEF Evict, worldVars
<1>2. NoBackend.gen = 0 /\ NoBackend.epoch = 0 /\ NoBackend.limit = Empty
      /\ DOMAIN Empty = {}
  BY DEF NoBackend, Empty
<1>3. CallTypes'
  BY <1>1 DEF Before, CallTypes
<1>4. BackendInv'
  BY <1>1, <1>2 DEF NoBackend, BackendInv, BackendShape, BackendCall
<1>5. ASSUME NEW t \in Callers, InFlight = {}
      PROVE  /\ call[t].pc \notin {"probing", "serving"}
             /\ call[t].kind # "refund"
             /\ call[t].pc \in Locked => call[t].kind = "set_max"
  <2>1. call[t] \in CallRecord /\ CallShape(call[t])
    BY DEF Before, CallTypes
  <2>2. ~(call[t].kind = "acquire" /\ call[t].pc # "resolved")
        /\ call[t].kind # "refund"
    BY <1>5 DEF InFlight, Pending
  <2> QED BY <2>1, <2>2 DEF CallShape, CallRecord, Kinds, Locked
<1>6. LoopInv'
  <2> SUFFICES ASSUME limiter = "async" PROVE LoopInv'
    BY <1>1 DEF LoopInv
  <2>1. InFlight = {}
    BY <1>1 DEF Before, LoopInv
  <2>2. \A t \in Callers : LoopCall(t)'
    BY <1>1, <1>5, <2>1 DEF LoopCall, Locked
  <2>3. \A t \in Callers : call'[t].pc # "serving"
    BY <1>1, <1>5, <2>1
  <2> QED BY <1>1, <2>2, <2>3, ConfigAssumption DEF LoopInv
<1>7. ForceInv'
  <2> SUFFICES ASSUME overtaken' = {} PROVE ForceInv'
    BY DEF ForceInv
  <2>1. \A t \in Callers : call[t].pc \notin Locked
    BY <1>1, <1>5 DEF Before, CallTypes
  <2> QED BY <1>1, <1>2, <2>1 DEF ForceInv, ForceCall, Locked
<1> QED BY <1>3, <1>4, <1>6, <1>7 DEF Kept

-----------------------------------------------------------------------------
(* The registry *)

(* A family of one signature takes another model, or a model that comes    *)
(* with another config, only where that config is the one it has or gets.  *)
LEMMA OneMore ==
  ASSUME RegistryInv, NEW m \in Models, NEW cfg \in Configs,
         Accepts(m, cfg), Register(m, cfg)
  PROVE  RegistryInv'
<1> DEFINE o == validated[m]
           next == IF o = None THEN aliases + 1 ELSE aliases
<1>0. None \notin Configs /\ IsFiniteSet(Models)
  BY ConfigAssumption
<1>1. CASE Known(m, cfg)
  <2>1. UNCHANGED <<validated, counts, aliases>>
    BY <1>1 DEF Register
  <2> QED BY <2>1 DEF RegistryInv, OneSignature
<1>2. CASE ~ Known(m, cfg)
  <2>1. /\ validated' = [validated EXCEPT ![m] = cfg]
        /\ counts' = Recounted(m, cfg)
        /\ aliases' = aliases + (IF validated[m] = None THEN 1 ELSE 0)
    BY <1>2 DEF Register
  <2>2. /\ o # cfg /\ o \in Configs \cup {None}
        /\ aliases' = next /\ next \in Nat
    BY <1>2, <2>1 DEF Known, RegistryInv
  <2>3. /\ aliases = Cardinality(Taken) /\ IsFiniteSet(Taken)
        /\ o # None <=> m \in Taken
    <3>1. IsFiniteSet(Taken)
      BY <1>0, FS_Subset DEF Taken
    <3> QED BY <3>1 DEF RegistryInv, OneSignature, Taken
  <2>4. Taken' = Taken \cup {m}
    BY <1>0, <2>1 DEF Taken, RegistryInv
  <2>5. Cardinality(Taken') = next
    BY <2>3, <2>4, FS_AddElement, FS_CardinalityType
  <2>6. aliases > 0 => \E c \in Configs :
          counts[c] = aliases /\ \A d \in Configs : d # c => counts[d] = 0
    BY DEF RegistryInv, OneSignature
  <2>7. aliases = 0 => \A c \in Configs : counts[c] = 0
    BY DEF RegistryInv
  <2>8. o # None => aliases > 0
    BY <2>3, FS_EmptySet DEF RegistryInv
  <2>9. /\ counts \in [Configs -> Nat] /\ aliases \in Nat
    BY DEF RegistryInv
  <2>10. \A c \in Configs :
           Without(m)[c] = IF c = o /\ counts[c] > 0 THEN counts[c] - 1
                           ELSE counts[c]
    BY DEF Without
  <2>11. next > 0
    BY <2>2, <2>8, <2>9
  <2>12. \A c \in Configs :
           Recounted(m, cfg)[c] = IF c = cfg THEN next ELSE 0
    <3>1. CASE Conflicts(m, cfg) # {}
      <4>1. aliases > 0
        BY <2>7, <2>9, <2>10, <3>1 DEF Conflicts
      <4>2. Recounted(m, cfg) =
              IF o # None THEN [c \in Configs |-> IF c = cfg THEN aliases ELSE 0]
              ELSE [[c \in Configs |-> IF c = cfg THEN aliases ELSE 0]
                      EXCEPT ![cfg] = @ + 1]
        BY <3>1 DEF Recounted
      <4> QED BY <2>9, <4>2
    <3>2. CASE Conflicts(m, cfg) = {}
      <4>1. \A c \in Configs : c # cfg => Without(m)[c] = 0
        BY <2>9, <2>10, <3>2 DEF Conflicts
      <4>2. CASE o = None
        <5>1. Recounted(m, cfg) = [Without(m) EXCEPT ![cfg] = @ + 1]
          BY <3>2, <4>2 DEF Recounted
        <5>2. \A c \in Configs : Without(m)[c] = counts[c]
          BY <1>0, <2>10, <4>2
        <5>3. counts[cfg] = aliases
          BY <2>6, <2>7, <2>9, <4>1, <5>2
        <5> QED BY <2>9, <4>1, <4>2, <5>1, <5>2, <5>3 DEF Without
      <4>3. CASE o # None /\ counts[o] = 0
        <5>1. Recounted(m, cfg) = Without(m)
          BY <3>2, <4>3 DEF Recounted
        <5>2. counts[cfg] = aliases
          BY <2>2, <2>6, <2>8, <2>9, <2>10, <4>1, <4>3
        <5> QED BY <2>2, <2>9, <2>10, <4>1, <4>3, <5>1, <5>2
      <4>4. CASE o # None /\ counts[o] # 0
        <5>1. Recounted(m, cfg) = [Without(m) EXCEPT ![cfg] = @ + 1]
          BY <3>2, <4>4 DEF Recounted
        <5>2. counts[o] = 1 /\ aliases = 1 /\ counts[cfg] = 0
          BY <2>2, <2>6, <2>8, <2>9, <2>10, <4>1, <4>4
        <5> QED BY <2>2, <2>9, <2>10, <4>1, <4>4, <5>1, <5>2 DEF Without
      <4> QED BY <4>2, <4>3, <4>4
    <3> QED BY <3>1, <3>2
  <2>13. Recounted(m, cfg) \in [Configs -> Nat]
    <3>1. Without(m) \in [Configs -> Nat]
      BY <2>9 DEF Without
    <3> QED BY <2>9, <3>1 DEF Recounted
  <2>14. validated' \in [Models -> Configs \cup {None}] /\ validated'[m] = cfg
    BY <2>1 DEF RegistryInv
  <2>15. OneSignature'
    <3>1. aliases' = Cardinality({n \in Models : validated'[n] # None})
      BY <2>2, <2>5 DEF Taken
    <3>2. validated'[m] # None /\ counts'[validated'[m]] = aliases'
      BY <1>0, <2>1, <2>2, <2>12, <2>14
    <3>3. \A c, d \in Configs : counts'[c] > 0 /\ counts'[d] > 0 => c = d
      BY <2>1, <2>12
    <3> QED BY <3>1, <3>2, <3>3 DEF OneSignature
  <2> QED BY <2>1, <2>2, <2>11, <2>13, <2>14, <2>15 DEF RegistryInv
<1> QED BY <1>1, <1>2

(* Only validation and eviction touch the registry. *)
LEMMA RegistryStep ==
  ASSUME Before, RegistryInv, [Next]_vars
  PROVE  RegistryInv'
<1> USE DEF Before
<1>1. CASE UNCHANGED <<validated, counts, aliases>>
  BY <1>1 DEF RegistryInv, OneSignature
<1>2. ASSUME NEW t \in Callers, Validate(t) PROVE RegistryInv'
  <2>1. /\ call[t].pc = "begun"
        /\ Accepts(call[t].model, call[t].cfg)
        /\ Register(call[t].model, call[t].cfg)
    BY <1>2 DEF Validate, At
  <2>2. call[t].model \in Models /\ call[t].cfg \in Configs
    <3>1. CallShape(call[t])
      BY DEF CallTypes
    <3> QED BY <2>1, <3>1, ConfigAssumption DEF CallShape
  <2> QED BY <2>1, <2>2, OneMore
<1>3. ASSUME NEW t \in Callers, NEW m \in models, NEW b \in Adjusted,
             NEW value \in Values, SetMax(t, m, b, value)
      PROVE  RegistryInv'
  <2>1. m \in Models /\ source[m] \in Configs
    BY DEF WorldTypes
  <2>2. Accepts(m, source[m]) /\ Register(m, source[m])
    BY <1>3 DEF SetMax
  <2> QED BY <2>1, <2>2, OneMore
<1>4. CASE Evict
  <2>1. /\ validated' = [m \in Models |-> None]
        /\ counts' = [c \in Configs |-> 0] /\ aliases' = 0
    BY <1>4 DEF Evict
  <2>2. {m \in Models : validated'[m] # None} = {}
    BY <2>1
  <2>3. OneSignature'
    BY <2>1, <2>2, FS_EmptySet DEF OneSignature
  <2> QED BY <2>1, <2>3 DEF RegistryInv
<1>5. ASSUME NEW t \in Callers, Step(t) PROVE RegistryInv'
  BY <1>1, <1>2, <1>3, <1>5
  DEF Step, Resolve, BeginPending, Conflict, Reuse, Miss, StartBuild,
      FinishBuild, FailBuild, Synchronized, RefuseRebuild, StartRebuild,
      FinishRebuild, FailRebuild, StartApplying, ApplyLimit, FinishApplying,
      FailApplying, NothingToSet, WriteMax, UnknownBucket, FailWrite, Remember,
      Deliver, GiveUp, Refresh, Credit, registryVars
<1>6. CASE Scan \/ \E ms \in SUBSET models, c \in Configs : Rollout(ms, c)
  BY <1>1, <1>6 DEF Scan, Rollout, registryVars
<1> QED BY <1>1, <1>4, <1>5, <1>6 DEF Next, vars, registryVars

-----------------------------------------------------------------------------
(* Every step *)

(* Every step keeps the types of the application's world. *)
LEMMA WorldStep ==
  ASSUME WorldTypes, [Next]_vars
  PROVE  WorldTypes'
<1>1. ASSUME NEW what \in {"rollouts", "builds", "sets", "faults", "sweeps"},
             Spend(what)
      PROVE  left' \in [rollouts : Nat, builds : Nat, sets : Nat, faults : Nat,
                        sweeps : Nat]
  BY <1>1 DEF Spend, WorldTypes
<1>2. ASSUME NEW t \in Callers, Step(t)
      PROVE  /\ UNCHANGED <<worldVars, sweep>>
             /\ \/ left' = left
                \/ Spend("builds") \/ Spend("sets") \/ Spend("faults")
  BY <1>2
  DEF Step, Resolve, BeginPending, Validate, Conflict, Reuse, Miss, StartBuild,
      FinishBuild, FailBuild, Synchronized, RefuseRebuild, StartRebuild,
      FinishRebuild, FailRebuild, StartApplying, ApplyLimit, FinishApplying,
      FailApplying, SetMax, NothingToSet, WriteMax, UnknownBucket, FailWrite,
      Deliver, GiveUp, Refresh, Credit, sweepVars
<1>3. CASE \E t \in Callers : Step(t)
  BY <1>1, <1>2, <1>3 DEF WorldTypes, worldVars
<1>4. ASSUME NEW ms \in SUBSET models, NEW c \in Configs, Rollout(ms, c)
      PROVE  WorldTypes'
  BY <1>1, <1>4 DEF Rollout, WorldTypes, sweepVars
<1>5. CASE Scan
  BY <1>1, <1>5 DEF Scan, WorldTypes, worldVars
<1>6. CASE Evict
  BY <1>6 DEF Evict, WorldTypes, worldVars
<1>7. CASE UNCHANGED vars
  BY <1>7 DEF vars, worldVars, sweepVars, WorldTypes
<1> QED BY <1>3, <1>4, <1>5, <1>6, <1>7 DEF Next

(* Every step keeps the invariant. *)
LEMMA ConfigStep ==
  ASSUME ConfigInv, [Next]_vars
  PROVE  ConfigInv'
<1>0. Before /\ RegistryInv /\ ForceInv
  BY DEF ConfigInv, Before
<1>1. ASSUME NEW t \in Callers, Step(t) PROVE Kept
  <2>1. CASE QuietAction(t)
    BY <1>0, <2>1, QuietSteps, QuietKeeps
  <2>2. ASSUME NEW b \in Buckets, ApplyLimit(t, b) PROVE Kept
    BY <1>0, <2>2, ApplyLimitKeeps
  <2>3. CASE \/ WriteMax(t) \/ UnknownBucket(t)
            \/ \E done \in BOOLEAN : FailWrite(t, done)
    BY <1>0, <2>3, SetMaxKeeps
  <2>4. CASE StartBuild(t) \/ FinishBuild(t) \/ FailBuild(t)
    BY <1>0, <2>4, StartBuildKeeps, FinishBuildKeeps, FailBuildKeeps
  <2>5. CASE StartRebuild(t) \/ FinishRebuild(t) \/ FailRebuild(t)
    BY <1>0, <2>5, StartRebuildKeeps, FinishRebuildKeeps, FailRebuildKeeps
  <2>6. CASE StartApplying(t) \/ FinishApplying(t) \/ FailApplying(t)
    BY <1>0, <2>6, StartApplyingKeeps, FinishApplyingKeeps, FailApplyingKeeps
  <2>7. CASE Synchronized(t) \/ RefuseRebuild(t) \/ NothingToSet(t)
    BY <1>0, <2>7, SynchronizedKeeps, RefusedKeeps
  <2> QED BY <1>1, <2>1, <2>2, <2>3, <2>4, <2>5, <2>6, <2>7
          DEF Step, QuietAction
<1>2. ASSUME NEW ms \in SUBSET models, NEW c \in Configs, Rollout(ms, c)
      PROVE  Kept
  BY <1>0, <1>2, RolloutKeeps
<1>3. ASSUME Scan PROVE Kept
  BY <1>0, <1>3, ScanKeeps
<1>4. ASSUME Evict PROVE Kept
  BY <1>0, <1>4, EvictKeeps
<1>5. ASSUME UNCHANGED vars PROVE Kept
  <2>1. UNCHANGED <<limiter, backend, quotas, overrides, torn, lock, call,
                    sweep, overtaken>>
    BY <1>5 DEF vars, worldVars, backendVars, sweepVars
  <2> QED BY <1>0, <2>1
          DEF Before, Kept, CallTypes, BackendInv, BackendShape, BackendCall,
              Same, LoopInv, LoopCall, Served, InFlight, Pending, ForceInv,
              ForceCall, Agrees, Written, Changed
<1>6. Kept
  <2>1. CASE Next
    <3>1. CASE \E t \in Callers : Step(t)
      BY <1>1, <3>1
    <3>2. CASE \E ms \in SUBSET models, c \in Configs : Rollout(ms, c)
      BY <1>2, <3>2
    <3> QED BY <1>3, <1>4, <2>1, <3>1, <3>2 DEF Next
  <2> QED BY <1>5, <2>1
<1> QED BY <1>0, <1>6, WorldStep, RegistryStep DEF ConfigInv, Kept, Before

(* It holds before the first call. *)
LEMMA ConfigInit == Init => ConfigInv
<1> SUFFICES ASSUME Init PROVE ConfigInv
  OBVIOUS
<1>1. /\ call = [t \in Callers |-> NoCall] /\ lock = None /\ sweep = None
      /\ backend = NoBackend /\ quotas = None /\ overrides = Empty
      /\ \A t \in Callers : call[t] = NoCall
  BY DEF Init
<1>2. WorldTypes
  BY ConfigAssumption DEF Init, WorldTypes
<1>3. CallTypes
  BY <1>1, NoCallFields, ConfigAssumption DEF CallTypes, Locked
<1>4. RegistryInv
  <2>1. /\ validated = [m \in Models |-> None]
        /\ counts = [c \in Configs |-> 0] /\ aliases = 0
    BY DEF Init
  <2>2. {m \in Models : validated[m] # None} = {}
    BY <2>1
  <2>3. OneSignature
    BY <2>1, <2>2, FS_EmptySet DEF OneSignature
  <2> QED BY <2>1, <2>3 DEF RegistryInv
<1>5. BackendInv
  BY <1>1, NoCallFields
  DEF BackendInv, BackendShape, BackendCall, NoBackend
<1>6. LoopInv
  BY <1>1, NoCallFields, ConfigAssumption DEF LoopInv, LoopCall
<1>7. ForceInv
  BY <1>1, NoCallFields DEF ForceInv, ForceCall, Empty
<1> QED BY <1>2, <1>3, <1>4, <1>5, <1>6, <1>7 DEF ConfigInv

(* The inductive invariant holds of every behaviour. *)
LEMMA ConfigInvariant == Spec => []ConfigInv
<1>1. ConfigInv /\ [Next]_vars => ConfigInv'
  BY ConfigStep
<1> QED BY <1>1, ConfigInit, PTL DEF Spec

-----------------------------------------------------------------------------
(* The theorems *)

(* The registry of a family counts all its aliases under one signature,    *)
(* whatever configs its models come with and in whichever order they move. *)
THEOREM RegistryKeepsOneSignature == Spec => []OneSignature
<1>1. ConfigInv => OneSignature
  BY DEF ConfigInv, RegistryInv
<1> QED BY <1>1, ConfigInvariant, PTL

(* On an event loop an acquire is served by the family's backend, with the *)
(* buckets of its own config, whatever rebuilds, overrides and evictions   *)
(* other tasks begin while it is on its way or waits.                      *)
THEOREM AcquiresServedInScope == Spec => []ServedInScope
<1>1. ConfigInv => ServedInScope
  BY DEF ConfigInv, LoopInv, LoopCall, ServedInScope
<1> QED BY <1>1, ConfigInvariant, PTL

(* On an event loop the backend that charged a reservation, or one rebuilt *)
(* from it, is there until the reservation has been refunded.              *)
THEOREM BackendOutlivesReservations == Spec => []ReservationsKeepBackend
<1>1. ConfigInv => ReservationsKeepBackend
  BY DEF ConfigInv, LoopInv, LoopCall, ReservationsKeepBackend
<1> QED BY <1>1, ConfigInvariant, PTL

(* In tasks and in threads: once nobody holds _lock, every bucket works    *)
(* with its runtime override or the limit of the snapshot, after any       *)
(* sequence of refreshes, rebuilds, overrides and failures of either.      *)
THEOREM RememberedLimitsInForce == Spec => []LimitsInForce
<1>1. ConfigInv => LimitsInForce
  <2> SUFFICES ASSUME ConfigInv, lock = None, backend # NoBackend,
                      overtaken = {}
               PROVE  Agrees(quotas, DOMAIN quotas)
    BY DEF LimitsInForce, Agrees
  <2>1. \A t \in Callers : call[t].pc \notin Locked
    BY ConfigAssumption DEF ConfigInv, CallTypes
  <2> QED BY <2>1, FreeForce DEF ConfigInv
<1> QED BY <1>1, ConfigInvariant, PTL

=============================================================================
