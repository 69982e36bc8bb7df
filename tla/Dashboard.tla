------------------------------ MODULE Dashboard ------------------------------
(***************************************************************************)
(* The dashboard's writing handlers (web/server.go): adding and removing   *)
(* targets, which live in the scheduler's map and in the targets table,    *)
(* and setting the licence key, which lives in memory and in a file; with  *)
(* the boot sequence of cmd/asm that restores both, and the licence rules  *)
(* (license/license.go).  Each handler is a goroutine per request.         *)
(***************************************************************************)
EXTENDS Integers, FiniteSets

CONSTANTS Targets, Requests,
          Keys,              \* licence keys a user may paste
          NoKey,             \* the empty key, or a file nothing in which verifies
          Tiers,             \* tiers both limit tables know, "free" among them
          ProductMax,        \* asmTierLimits: MaxTargets per tier, 0 is unlimited
          DefaultMax,        \* license.TierLimits: the same for any product
          Faults,            \* subset of {"store", "file"} that may happen
          MaxDay             \* bound on the days that pass

ASSUME KeysAssumption == /\ Keys \subseteq [genuine : BOOLEAN, tier : STRING, issued : Nat, expires : Nat]
                         /\ NoKey \notin Keys
ASSUME LimitsAssumption == /\ "free" \in Tiers
                           /\ ProductMax \in [Tiers -> Nat] /\ DefaultMax \in [Tiers -> Nat]
ASSUME MaxDayAssumption == MaxDay \in Nat

VARIABLES day,
          scheduled, saved,  \* the scheduler's targets; the targets table
          keyFile,           \* the key in the licence file
          activation,        \* s.activation
          request,           \* locals of each handler
          calm,              \* no two requests have met, no store call has failed (history)
          torn               \* a write has failed since a key was last taken (history)

vars == <<day, scheduled, saved, keyFile, activation, request, calm, torn>>

Idle == [pc |-> "idle"]
Quiet == \A r \in Requests : request[r] = Idle
MayServe(r) == request[r] = Idle /\ calm' = (calm /\ Quiet)

-----------------------------------------------------------------------------
(* Licences.                                                                *)

LimitsFor(tier) == IF tier \in Tiers THEN DefaultMax[tier] ELSE DefaultMax["free"]

Free == [tier |-> "free", max |-> DefaultMax["free"], key |-> NoKey]

(* Activate, never an error: an empty, bogus or expired key is free.        *)
Activate(key, now) ==
    IF key # NoKey /\ key.genuine /\ now <= key.expires
    THEN [tier |-> key.tier, max |-> LimitsFor(key.tier), key |-> key]
    ELSE Free

(* effLimits: the product's table by tier, else what the activation says.   *)
MaxTargets == IF activation.tier \in Tiers THEN ProductMax[activation.tier] ELSE activation.max

CanAdd(current) == MaxTargets = 0 \/ current < MaxTargets

-----------------------------------------------------------------------------
(* Boot: the licence file is read, and the saved targets are added again;   *)
(* a list that cannot be read is none, a target that cannot be validated is*)
(* skipped.                                                                *)
Init == /\ day = 0 /\ saved = {} /\ scheduled = {}
        /\ keyFile = NoKey /\ activation = Free
        /\ request = [r \in Requests |-> Idle] /\ calm = TRUE /\ torn = FALSE

(* A crash while the file is being written leaves what the write had put    *)
(* there.                                                                  *)
Restart ==
    /\ activation' = Activate(keyFile, day)
    /\ scheduled' \in IF "store" \in Faults THEN SUBSET saved ELSE {saved}
    /\ request' = [r \in Requests |-> Idle]
    /\ calm' = (calm /\ scheduled' = saved) /\ torn' = FALSE
    /\ UNCHANGED <<day, saved, keyFile>>

NextDay == /\ day < MaxDay
           /\ day' = day + 1
           /\ UNCHANGED <<scheduled, saved, keyFile, activation, request, calm, torn>>

-----------------------------------------------------------------------------
(* handleAddTarget and handleRemoveTarget.                                  *)

Step(r, locals) == request' = [request EXCEPT ![r] = locals]

CheckLimit(r, t) ==
    /\ MayServe(r)
    /\ CanAdd(Cardinality(scheduled))
    /\ Step(r, [pc |-> "add", target |-> t])
    /\ UNCHANGED <<day, scheduled, saved, keyFile, activation, torn>>

AddTarget(r) ==
    /\ request[r].pc = "add"
    /\ scheduled' = scheduled \cup {request[r].target}
    /\ Step(r, [request[r] EXCEPT !.pc = "save"])
    /\ UNCHANGED <<day, saved, keyFile, activation, calm, torn>>

(* ValidateTarget could not store a challenge.                              *)
AddRefused(r) ==
    /\ "store" \in Faults /\ request[r].pc = "add"
    /\ Step(r, Idle)
    /\ UNCHANGED <<day, scheduled, saved, keyFile, activation, calm, torn>>

SaveTarget(r) ==
    /\ request[r].pc = "save"
    /\ saved' = saved \cup {request[r].target}
    /\ Step(r, Idle)
    /\ UNCHANGED <<day, scheduled, keyFile, activation, calm, torn>>

SaveFails(r) ==
    /\ "store" \in Faults /\ request[r].pc = "save"
    /\ Step(r, Idle)
    /\ calm' = FALSE
    /\ UNCHANGED <<day, scheduled, saved, keyFile, activation, torn>>

RemoveTarget(r, t) ==
    /\ MayServe(r)
    /\ scheduled' = scheduled \ {t}
    /\ Step(r, [pc |-> "delete", target |-> t])
    /\ UNCHANGED <<day, saved, keyFile, activation, torn>>

(* Mutant: the row stays.                                                   *)
RowsWithoutAny(t) == saved

RowsWithout(t) == saved \ {t}

DeleteTarget(r) ==
    /\ request[r].pc = "delete"
    /\ saved' = RowsWithout(request[r].target)
    /\ Step(r, Idle)
    /\ UNCHANGED <<day, scheduled, keyFile, activation, calm, torn>>

(* The handler does not look at the error.                                  *)
DeleteFails(r) ==
    /\ "store" \in Faults /\ request[r].pc = "delete"
    /\ Step(r, Idle)
    /\ calm' = FALSE
    /\ UNCHANGED <<day, scheduled, saved, keyFile, activation, torn>>

-----------------------------------------------------------------------------
(* handleSetLicense.                                                        *)

(* Mutant: whatever is pasted is taken.                                     *)
AcceptsAny(key) == TRUE

(* A key that gives no tier is refused; the empty key is not.               *)
Accepts(key) == key # NoKey => Activate(key, day).tier # "free"

CheckKey(r, key) ==
    /\ MayServe(r)
    /\ Accepts(key)
    /\ Step(r, [pc |-> "open", key |-> key, act |-> Activate(key, day)])
    /\ UNCHANGED <<day, scheduled, saved, keyFile, activation, torn>>

(* os.WriteFile opens the file, which empties it, and then writes.          *)
OpenKeyFile(r) ==
    /\ request[r].pc = "open"
    /\ keyFile' = NoKey
    /\ Step(r, [request[r] EXCEPT !.pc = "write"])
    /\ UNCHANGED <<day, scheduled, saved, activation, calm, torn>>

(* Over the key of a request that wrote in between, the file may become a   *)
(* mixture of both.                                                        *)
Written(key) == {key} \cup (IF keyFile = NoKey THEN {} ELSE {NoKey})

WriteKey(r) ==
    /\ request[r].pc = "write"
    /\ keyFile' \in Written(request[r].key)
    /\ Step(r, [request[r] EXCEPT !.pc = "use"])
    /\ UNCHANGED <<day, scheduled, saved, activation, calm, torn>>

(* Mutant: the key is used although it could not be written.                *)
AfterFailedWriteUse(r) == [request[r] EXCEPT !.pc = "use"]

AfterFailedWrite(r) == Idle

OpenFails(r) ==
    /\ "file" \in Faults /\ request[r].pc = "open"
    /\ Step(r, AfterFailedWrite(r))
    /\ UNCHANGED <<day, scheduled, saved, keyFile, activation, calm, torn>>

(* Nothing, a part or all of the key was written before the error; the file *)
(* stays as it is, and so does the activation.                             *)
WriteFails(r) ==
    /\ "file" \in Faults /\ request[r].pc = "write"
    /\ keyFile' \in {keyFile, NoKey, request[r].key}
    /\ Step(r, AfterFailedWrite(r))
    /\ torn' = TRUE
    /\ UNCHANGED <<day, scheduled, saved, activation, calm>>

UseKey(r) ==
    /\ request[r].pc = "use"
    /\ activation' = request[r].act
    /\ Step(r, Idle)
    /\ torn' = FALSE
    /\ UNCHANGED <<day, scheduled, saved, keyFile, calm>>

-----------------------------------------------------------------------------
Serving(r) == \/ AddTarget(r) \/ AddRefused(r) \/ SaveTarget(r) \/ SaveFails(r)
              \/ DeleteTarget(r) \/ DeleteFails(r)
              \/ OpenKeyFile(r) \/ OpenFails(r) \/ WriteKey(r) \/ WriteFails(r) \/ UseKey(r)

Asked(r) == \/ \E t \in Targets : CheckLimit(r, t) \/ RemoveTarget(r, t)
            \/ \E key \in Keys \cup {NoKey} : CheckKey(r, key)

Next == Restart \/ NextDay \/ \E r \in Requests : Serving(r) \/ Asked(r)

Spec == Init /\ [][Next]_vars

(* A handler goes on, and time passes; nobody has to restart the program.   *)
FairSpec == Spec /\ WF_vars(NextDay) /\ \A r \in Requests : WF_vars(Serving(r))

-----------------------------------------------------------------------------
(* Properties.                                                              *)

Activations == [tier : Tiers \cup {key.tier : key \in Keys}, max : Nat, key : Keys \cup {NoKey}]

(* The type of every variable.                                              *)
TypeOK == /\ day \in 0..MaxDay /\ calm \in BOOLEAN /\ torn \in BOOLEAN
          /\ scheduled \subseteq Targets /\ saved \subseteq Targets
          /\ keyFile \in Keys \cup {NoKey}
          /\ activation \in Activations
          /\ request \in [Requests -> {Idle} \cup [pc : {"add", "save", "delete"}, target : Targets]
                                      \cup [pc : {"open", "write", "use"}, key : Keys \cup {NoKey}, act : Activations]]

(* "a restart restores them exactly" (targets.go:3-4): with no request under*)
(* way, what is scanned is what is saved.                                  *)
RestartRestores == Quiet => saved = scheduled

(* A target is only added within the limit of the tier in force             *)
(* (server.go:286-291).                                                    *)
AddsWithinLimit == \A r \in Requests : request[r].pc = "add" /\ request'[r].pc = "save"
                       => MaxTargets = 0 \/ Cardinality(scheduled') <= MaxTargets
LimitKept == [][AddsWithinLimit]_vars

(* What is saved is what is scanned as long as requests come one at a time   *)
(* and no store call fails: restarts at any moment and a failing licence    *)
(* file do no harm.                                                        *)
CalmRestartRestores == calm => RestartRestores

(* The key in force is the key in the file, so that a restart changes       *)
(* nothing but the effect of expiry.                                       *)
FileIsInForce ==
    Quiet => /\ activation.key # NoKey => keyFile = activation.key
             /\ Activate(keyFile, day).key = keyFile => activation.key = keyFile

(* So it is with requests one at a time, unless a write has failed half way *)
(* (server.go:359-367): a file that could not be opened, a crash between    *)
(* the emptying of the file and the use of the key, and every day that      *)
(* passes leave file and activation in agreement, and after a write that    *)
(* failed the next key that is taken, or a restart, brings them together.   *)
CalmFileIsInForce == calm /\ ~torn => FileIsInForce

(* Not so after a write that failed: the file is empty, or holds the key    *)
(* that was refused, beside an activation that only lives until a restart.  *)
FileAlwaysInForce == calm => FileIsInForce

(* "Don't persist a bad key" (server.go:355), nor run on one, however       *)
(* requests, failing writes and restarts interleave.                       *)
OnlyGenuineKeys == \A key \in {keyFile, activation.key} : key # NoKey => key.genuine

(* "the newest IssuedAt wins if a user pastes several keys"                 *)
(* (license.go:85-87).                                                     *)
NewestKeyWins ==
    [][activation.key # NoKey /\ activation'.key # NoKey => activation.key.issued <= activation'.key.issued]_vars

(* "An expired key ... simply returns to free limits" (README.md:58).       *)
Expired == activation.key # NoKey /\ day > activation.key.expires
ExpiredReturnsToFree == Expired ~> ~Expired
=============================================================================
