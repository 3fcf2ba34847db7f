----------------------------- MODULE TpmBackend -----------------------------
(***************************************************************************)
(* The TPM transaction of src/tpm.rs: information_tpm, quote_tpm and       *)
(* attestation_all, each run by its own worker thread, serialised by the   *)
(* mutex of TpmState, against a simulator that is stopped, restarted and   *)
(* re-manufactured by its own scripts, with tools that fail at any point,  *)
(* handlers that panic and a server process that is killed and restarted.  *)
(*                                                                         *)
(* One step is one tpm2-tools process (with the flush_transient process    *)
(* that precedes it), one file system or device access, or one lock        *)
(* operation.  The files of a Scratch directory are private to a request   *)
(* (module Verification shows why), so what a tool writes and the          *)
(* handler reads back is one step.                                         *)
(***************************************************************************)
EXTENDS Evidence

CONSTANTS
    MaxSlots,           \* transient object slots of the simulator
    Remanufacturing     \* may start.sh run with TPM_SIM_ARGS=-m ?

ASSUME SlotsAssumption == MaxSlots \in Nat /\ MaxSlots >= 3
ASSUME SwitchAssumption == Remanufacturing \in BOOLEAN

VARIABLES
    \* the simulator
    up,                 \* its process is running
    started,            \* TPM2_Startup was executed since it was powered on
    pcr,                \* digests extended into the PCR since its last reset
    ak,                 \* key persisted at ak_handle, or None
    slots,              \* transient objects left loaded
    minted,             \* keys created so far
    \* the server process
    holder,             \* request that holds the mutex of TpmState, or None
    poisoned,           \* poison flag of that mutex
    cache,              \* TpmInner::ak_pubkey
    \* the requests
    pc,                 \* next step of each request
    kind,               \* route: "information", "quote" or "all"
    nonce,              \* decoded challenge, None for information_tpm
    body,               \* what the handler has computed; the response body
    reply,              \* class of the HTTP status, "none" while unanswered
    faulted             \* history: the environment disturbed this request

simVars == <<up, started, pcr, ak, slots, minted>>
lockVars == <<holder, poisoned>>
inputVars == <<kind, nonce>>
vars == <<simVars, lockVars, cache, pc, inputVars, body, reply, faulted>>

-----------------------------------------------------------------------------
(* Labels *)

EnsureAk == {"getcap", "createek", "createak", "evictcontrol"}
Critical == {"scratch", "measure", "startup", "pcrreset", "pcrextend", "pcrread"}
            \cup EnsureAk \cup {"quote", "tdx", "readpublic"}
Labels == {"idle", "lock", "done"} \cup Critical

InFlight(r) == pc[r] \in Critical \cup {"lock"}

Ready == up /\ started

-----------------------------------------------------------------------------
(* How a handler goes on, and how it returns *)

Blame(r, b) == faulted' = [faulted EXCEPT ![r] = @ \/ b]

Continue(r, label, b) ==
    /\ pc' = [pc EXCEPT ![r] = label]
    /\ body' = [body EXCEPT ![r] = b]
    /\ UNCHANGED <<lockVars, reply>>

\* The handler returns: Scratch and the lock guard are dropped, the response
\* (or the error, which carries no evidence) goes out.
Return(r, status, b) ==
    /\ pc' = [pc EXCEPT ![r] = "done"]
    /\ body' = [body EXCEPT ![r] = [b EXCEPT !.ctx = None]]
    /\ reply' = [reply EXCEPT ![r] = status]
    /\ holder' = None
    /\ UNCHANGED poisoned

Abort(r, status) == Return(r, status, NoBody)

\* What tpm2() can answer besides success.  The tool may be missing, may not
\* be spawned or may fail by itself (injected); otherwise it fails exactly
\* when the command does not work: 501 for an unreachable TPM, else 500.
tpm2_errors(works) ==
    {[status |-> s, injected |-> TRUE] : s \in {"internal", "not_implemented"}}
    \cup IF works THEN {}
         ELSE {[status |-> IF up THEN "internal" ELSE "not_implemented",
                injected |-> ~up]}

CommandFails(r, works, excused) ==
    \E e \in tpm2_errors(works) :
        Abort(r, e.status) /\ Blame(r, e.injected \/ excused)

\* An ensure_ak error ends quote_tpm and attestation_all, but only leaves
\* information_tpm without a key.
AkFails(r, works, excused) ==
    \E e \in tpm2_errors(works) :
        /\ Blame(r, e.injected \/ excused)
        /\ \/ kind[r] = "information" /\ Return(r, "ok", body[r])
           \/ kind[r] # "information" /\ Abort(r, e.status)

\* Faulty variant: the flush is left out.
FlushSkipped == {[left |-> slots, failed |-> FALSE]}

\* flush_transient is best effort: it leaves no object loaded, or it fails.
flush_transient ==
    {[left |-> slots, failed |-> TRUE]}
    \cup IF Ready THEN {[left |-> 0, failed |-> FALSE]} ELSE {}

\* A command that loads n objects finds room for them.
Fits(left, n) == Ready /\ left + n <= MaxSlots

\* Objects a failed command of that kind may leave behind.
Leftovers(left, n) ==
    IF Ready THEN {m \in left..(left + n) : m <= MaxSlots} ELSE {slots}

-----------------------------------------------------------------------------
(* The requests *)

\* Earlier clients may have left objects and PCR contents behind.
Init ==
    /\ up \in BOOLEAN
    /\ started \in BOOLEAN /\ (started => up)
    /\ pcr = <<>> \/ (started /\ \E d \in Digests : pcr = <<d>>)
    /\ ak \in Keys \cup {None}
    /\ slots \in 0..MaxSlots /\ (~started => slots = 0)
    /\ minted = {ak} \ {None}
    /\ holder = None
    /\ poisoned = FALSE
    /\ cache = None
    /\ pc = [r \in Requests |-> "idle"]
    /\ kind = [r \in Requests |-> "information"]
    /\ nonce = [r \in Requests |-> None]
    /\ body = [r \in Requests |-> NoBody]
    /\ reply = [r \in Requests |-> "none"]
    /\ faulted = [r \in Requests |-> FALSE]

\* A request reaches its handler and passes the challenge checks.
Submit(r) ==
    /\ pc[r] = "idle"
    /\ \/ kind' = [kind EXCEPT ![r] = "information"] /\ UNCHANGED nonce
       \/ \E k \in {"quote", "all"}, n \in Challenges :
            /\ kind' = [kind EXCEPT ![r] = k]
            /\ nonce' = [nonce EXCEPT ![r] = n]
    /\ pc' = [pc EXCEPT ![r] = "lock"]
    /\ UNCHANGED <<simVars, lockVars, cache, body, reply, faulted>>

\* The body is unreadable, is not JSON, or holds no usable challenge.
Reject(r) ==
    /\ pc[r] = "idle"
    /\ \E k \in {"quote", "all"} : kind' = [kind EXCEPT ![r] = k]
    /\ pc' = [pc EXCEPT ![r] = "done"]
    /\ reply' = [reply EXCEPT ![r] = "bad_request"]
    /\ UNCHANGED <<simVars, lockVars, cache, nonce, body, faulted>>

\* Faulty variant: the guard is not kept for the whole transaction.
LockNotExclusive(r) ==
    /\ pc[r] = "lock"
    /\ holder' = r
    /\ pc' = [pc EXCEPT ![r] = "scratch"]
    /\ UNCHANGED <<simVars, poisoned, cache, inputVars, body, reply, faulted>>

\* Faulty variant: a poisoned mutex is never taken again.
LockPropagatesPoison(r) ==
    /\ pc[r] = "lock"
    /\ holder = None /\ ~poisoned
    /\ holder' = r
    /\ pc' = [pc EXCEPT ![r] = "scratch"]
    /\ UNCHANGED <<simVars, poisoned, cache, inputVars, body, reply, faulted>>

\* TpmState::lock: a poisoned mutex is recovered from.
Lock(r) ==
    /\ pc[r] = "lock"
    /\ holder = None
    /\ holder' = r
    /\ pc' = [pc EXCEPT ![r] = "scratch"]
    /\ UNCHANGED <<simVars, poisoned, cache, inputVars, body, reply, faulted>>

NewScratch(r) ==
    /\ pc[r] = "scratch"
    /\ \/ Continue(r, "measure", body[r]) /\ UNCHANGED faulted
       \/ Abort(r, "internal") /\ Blame(r, TRUE)
    /\ UNCHANGED <<simVars, cache, inputVars>>

\* Faulty variant: a measurement that fails does not end the request.
MeasureErrorIgnored(r) ==
    /\ pc[r] = "measure"
    /\ \E d \in Digests \cup {None} :
          Continue(r, "startup", [body[r] EXCEPT !.total = d])
    /\ UNCHANGED <<simVars, cache, inputVars, faulted>>

\* measure_folder hashes whatever the directory holds while it is walked.
MeasureFolder(r) ==
    /\ pc[r] = "measure"
    /\ \/ /\ \E d \in Digests : Continue(r, "startup", [body[r] EXCEPT !.total = d])
          /\ UNCHANGED faulted
       \/ Abort(r, "internal") /\ Blame(r, TRUE)
    /\ UNCHANGED <<simVars, cache, inputVars>>

\* ensure_ready: every error but "unreachable" counts as already started.
EnsureReady(r) ==
    /\ pc[r] = "startup"
    /\ \/ up /\ started' = TRUE /\ Continue(r, "pcrreset", body[r]) /\ UNCHANGED faulted
       \/ Continue(r, "pcrreset", body[r]) /\ Blame(r, TRUE) /\ UNCHANGED started
       \/ Abort(r, "not_implemented") /\ Blame(r, TRUE) /\ UNCHANGED started
    /\ UNCHANGED <<up, pcr, ak, slots, minted, cache, inputVars>>

\* Faulty variant: the PCR is extended without being reset.
ResetSkipped(r) ==
    /\ pc[r] = "pcrreset"
    /\ Continue(r, "pcrextend", body[r])
    /\ UNCHANGED <<simVars, cache, inputVars, faulted>>

ResetPcr(r) ==
    /\ pc[r] = "pcrreset"
    /\ \/ Ready /\ pcr' = <<>> /\ Continue(r, "pcrextend", body[r]) /\ UNCHANGED faulted
       \/ CommandFails(r, Ready, FALSE) /\ (pcr' = pcr \/ (Ready /\ pcr' = <<>>))
    /\ UNCHANGED <<up, started, ak, slots, minted, cache, inputVars>>

ExtendPcr(r) ==
    /\ pc[r] = "pcrextend"
    /\ LET extended == Append(pcr, body[r].total) IN
       \/ Ready /\ pcr' = extended /\ Continue(r, "pcrread", body[r]) /\ UNCHANGED faulted
       \/ CommandFails(r, Ready, FALSE) /\ (pcr' = pcr \/ (Ready /\ pcr' = extended))
    /\ UNCHANGED <<up, started, ak, slots, minted, cache, inputVars>>

ReadPcr(r) ==
    /\ pc[r] = "pcrread"
    /\ \/ /\ Ready
          /\ Continue(r, "getcap", [body[r] EXCEPT !.value = pcr])
          /\ UNCHANGED faulted
       \/ CommandFails(r, Ready, FALSE)
    /\ UNCHANGED <<simVars, cache, inputVars>>

-----------------------------------------------------------------------------
(* ensure_ak: look for the key, create and persist it when the handle is   *)
(* empty.                                                                  *)

AfterEnsureAk(r) == IF kind[r] = "information" THEN "readpublic" ELSE "quote"

GetCap(r) ==
    /\ pc[r] = "getcap"
    /\ \/ /\ Ready
          /\ Continue(r, IF ak # None THEN AfterEnsureAk(r) ELSE "createek", body[r])
          /\ UNCHANGED faulted
       \/ AkFails(r, Ready, FALSE)
    /\ UNCHANGED <<simVars, cache, inputVars>>

CreateEk(r) ==
    /\ pc[r] = "createek"
    /\ \E f \in flush_transient :
       \/ /\ Fits(f.left, 1)
          /\ slots' = f.left + 1
          /\ Continue(r, "createak", body[r])
          /\ Blame(r, f.failed)
       \/ AkFails(r, Fits(f.left, 1), f.failed) /\ slots' \in Leftovers(f.left, 1)
    /\ UNCHANGED <<up, started, pcr, ak, minted, cache, inputVars>>

\* Faulty variant: the public key is cached before the key is persisted.
CachedBeforePersisted(r) ==
    /\ pc[r] = "createak"
    /\ \/ \E k \in Keys \ minted :
             /\ Ready
             /\ minted' = minted \cup {k}
             /\ cache' = IF cache = None THEN k ELSE cache
             /\ Continue(r, "evictcontrol", [body[r] EXCEPT !.ctx = k])
             /\ UNCHANGED faulted
       \/ AkFails(r, Ready, FALSE) /\ UNCHANGED <<minted, cache>>
    /\ UNCHANGED <<up, started, pcr, ak, slots, inputVars>>

\* The endorsement key is loaded again as the parent of the new key.
CreateAk(r) ==
    /\ pc[r] = "createak"
    /\ \E f \in flush_transient :
       \/ /\ Fits(f.left, 2)
          /\ slots' = f.left + 2
          /\ \E k \in Keys \ minted :
                /\ minted' = minted \cup {k}
                /\ Continue(r, "evictcontrol", [body[r] EXCEPT !.ctx = k])
          /\ Blame(r, f.failed)
       \/ /\ AkFails(r, Fits(f.left, 2), f.failed)
          /\ slots' \in Leftovers(f.left, 2)
          /\ UNCHANGED minted
    /\ UNCHANGED <<up, started, pcr, ak, cache, inputVars>>

\* Faulty variant: whatever is at the handle is evicted first.
EvictReplaces(r) ==
    /\ pc[r] = "evictcontrol"
    /\ Ready
    /\ ak' = body[r].ctx
    /\ Continue(r, AfterEnsureAk(r), body[r])
    /\ UNCHANGED <<up, started, pcr, slots, minted, cache, inputVars, faulted>>

\* The simulator refuses to persist a key at an occupied handle.
EvictControl(r) ==
    /\ pc[r] = "evictcontrol"
    /\ \E f \in flush_transient :
       LET works == Fits(f.left, 1) /\ ak = None IN
       \/ /\ works
          /\ ak' = body[r].ctx
          /\ slots' \in {0, f.left + 1}
          /\ Continue(r, AfterEnsureAk(r), body[r])
          /\ Blame(r, f.failed)
       \/ /\ AkFails(r, works, f.failed)
          /\ slots' \in Leftovers(f.left, 1)
          /\ ak' = ak \/ (works /\ ak' = body[r].ctx)
    /\ UNCHANGED <<up, started, pcr, minted, cache, inputVars>>

-----------------------------------------------------------------------------
(* The quote, the TDX report and the public key *)

\* Faulty variant: the TPM is started up again right before the quote.
StartupBeforeQuote(r) ==
    /\ pc[r] = "quote" /\ up /\ ak # None
    /\ started' = TRUE
    /\ Continue(r, IF kind[r] = "all" THEN "tdx" ELSE "readpublic",
                [body[r] EXCEPT !.quote = [pcr |-> pcr, nonce |-> nonce[r], key |-> ak]])
    /\ UNCHANGED <<up, pcr, ak, slots, minted, cache, inputVars, faulted>>

CreateQuote(r) ==
    /\ pc[r] = "quote"
    /\ \E f \in flush_transient :
       LET works == Fits(f.left, 1) /\ ak # None
           quote == [pcr |-> pcr, nonce |-> nonce[r], key |-> ak] IN
       \/ /\ works
          /\ slots' = f.left
          /\ Continue(r, IF kind[r] = "all" THEN "tdx" ELSE "readpublic",
                      [body[r] EXCEPT !.quote = quote])
          /\ Blame(r, f.failed)
       \/ CommandFails(r, works, f.failed) /\ slots' \in Leftovers(f.left, 1)
    /\ UNCHANGED <<up, started, pcr, ak, minted, cache, inputVars>>

\* generate_tdx_report, called with the TPM lock held.  /dev/tdx_guest may be
\* absent (501), or not opened, or the TDCALL fails (500).
GenerateTdxReport(r) ==
    /\ pc[r] = "tdx"
    /\ \/ /\ Continue(r, "readpublic", [body[r] EXCEPT !.tdx = report_data_from(nonce[r])])
          /\ UNCHANGED faulted
       \/ \E s \in {"internal", "not_implemented"} : Abort(r, s) /\ Blame(r, TRUE)
    /\ UNCHANGED <<simVars, cache, inputVars>>

\* ak_pubkey: a cached key is returned without asking the TPM.  A failure
\* only leaves the response without a key.
AkPubkey(r) ==
    /\ pc[r] = "readpublic"
    /\ \/ /\ cache # None
          /\ Return(r, "ok", [body[r] EXCEPT !.pubkey = cache])
          /\ UNCHANGED <<slots, cache, faulted>>
       \/ /\ cache = None
          /\ \E f \in flush_transient :
             LET works == Fits(f.left, 1) /\ ak # None IN
             \/ /\ works
                /\ slots' = f.left
                /\ cache' = ak
                /\ Return(r, "ok", [body[r] EXCEPT !.pubkey = ak])
                /\ Blame(r, f.failed)
             \/ /\ \E e \in tpm2_errors(works) : Blame(r, e.injected \/ f.failed)
                /\ slots' \in Leftovers(f.left, 1)
                /\ Return(r, "ok", body[r])
                /\ UNCHANGED cache
    /\ UNCHANGED <<up, started, pcr, ak, minted, inputVars>>

\* A handler panics while it holds the lock: unwinding drops Scratch and the
\* guard, which poisons the mutex; Rocket answers 500.
Panic(r) ==
    /\ pc[r] \in Critical
    /\ holder = r
    /\ pc' = [pc EXCEPT ![r] = "done"]
    /\ body' = [body EXCEPT ![r] = NoBody]
    /\ reply' = [reply EXCEPT ![r] = "internal"]
    /\ holder' = None
    /\ poisoned' = TRUE
    /\ Blame(r, TRUE)
    /\ UNCHANGED <<simVars, cache, inputVars>>

-----------------------------------------------------------------------------
(* The environment *)

Disturb == faulted' = [r \in Requests |-> faulted[r] \/ holder = r]

\* stop.sh, or the simulator dies: everything volatile is lost.
SimStop ==
    /\ up
    /\ up' = FALSE
    /\ started' = FALSE
    /\ pcr' = <<>>
    /\ slots' = 0
    /\ Disturb
    /\ UNCHANGED <<ak, minted, lockVars, cache, pc, inputVars, body, reply>>

\* start.sh: the simulator powers on with its NV state, not yet started up.
SimStart ==
    /\ ~up
    /\ up' = TRUE
    /\ UNCHANGED <<started, pcr, ak, slots, minted, lockVars, cache, pc,
                   inputVars, body, reply, faulted>>

\* start.sh with TPM_SIM_ARGS=-m: the NV state, and the key with it, is new.
Remanufacture ==
    /\ Remanufacturing
    /\ ~up
    /\ up' = TRUE
    /\ ak' = None
    /\ UNCHANGED <<started, pcr, slots, minted, lockVars, cache, pc,
                   inputVars, body, reply, faulted>>

\* The server process is killed and started again: its requests are lost,
\* its memory is new.
Crash ==
    /\ \E r \in Requests : InFlight(r)
    /\ pc' = [r \in Requests |-> IF InFlight(r) THEN "done" ELSE pc[r]]
    /\ reply' = [r \in Requests |-> IF InFlight(r) THEN "lost" ELSE reply[r]]
    /\ body' = [r \in Requests |-> IF InFlight(r) THEN NoBody ELSE body[r]]
    /\ holder' = None
    /\ poisoned' = FALSE
    /\ cache' = None
    /\ UNCHANGED <<simVars, inputVars, faulted>>

-----------------------------------------------------------------------------
Serve(r) ==
    \/ Lock(r) \/ NewScratch(r) \/ MeasureFolder(r) \/ EnsureReady(r)
    \/ ResetPcr(r) \/ ExtendPcr(r) \/ ReadPcr(r)
    \/ GetCap(r) \/ CreateEk(r) \/ CreateAk(r) \/ EvictControl(r)
    \/ CreateQuote(r) \/ GenerateTdxReport(r) \/ AkPubkey(r)

Next ==
    \/ \E r \in Requests : Submit(r) \/ Reject(r) \/ Serve(r) \/ Panic(r)
    \/ SimStop \/ SimStart \/ Remanufacture \/ Crash

Spec == Init /\ [][Next]_vars

\* Every tool and device access returns, and a free lock is granted.
FairSpec == Spec /\ \A r \in Requests : WF_vars(Serve(r))

-----------------------------------------------------------------------------
(* Properties *)

\* The types of all variables.
TypeOK ==
    /\ up \in BOOLEAN
    /\ started \in BOOLEAN
    /\ pcr \in Seq(Digests)
    /\ ak \in Keys \cup {None}
    /\ slots \in 0..MaxSlots
    /\ minted \subseteq Keys
    /\ holder \in Requests \cup {None}
    /\ poisoned \in BOOLEAN
    /\ cache \in Keys \cup {None}
    /\ pc \in [Requests -> Labels]
    /\ kind \in [Requests -> Kinds]
    /\ nonce \in [Requests -> Nonces \cup {None}]
    /\ body \in [Requests -> Bodies]
    /\ reply \in [Requests -> Replies]
    /\ faulted \in [Requests -> BOOLEAN]

\* The parts of one response never disagree (see Consistent), whatever
\* restarts of the simulator, failing tools, panics, crashes and other
\* requests happen between the commands of its transaction.
EvidenceConsistent ==
    \A r \in Requests : pc[r] = "done" => Consistent(kind[r], nonce[r], reply[r], body[r])

\* ensure_ak creates a key only while the handle is empty: what getcap saw
\* still holds when the last of its three commands persists the new key, so
\* no second key is ever created over a first one.
CreatesOnlyWhenEmpty ==
    \A r \in Requests :
        pc[r] \in {"createek", "createak", "evictcontrol"} => ak = None

\* A public key that is returned with a quote is the key that signed it.
PubkeySignedQuote ==
    \A r \in Requests :
        /\ pc[r] = "done" /\ kind[r] # "information"
        /\ body[r].pubkey # None
        => body[r].pubkey = body[r].quote.key

\* A request fails, or lacks the public key, only when the environment
\* disturbed that very request: objects, PCR contents, a poisoned lock, a
\* half-created key or an unstarted TPM left by earlier requests, panics,
\* crashes or restarts never make a later one fail.
NoSpuriousFailure ==
    \A r \in Requests :
        pc[r] = "done" /\ ~faulted[r] =>
            /\ reply[r] \in {"ok", "bad_request", "lost"}
            /\ reply[r] = "ok" => body[r].pubkey # None

\* A request that waits for the lock is answered, or lost with the server.
EveryRequestAnswered ==
    \A r \in Requests : pc[r] = "lock" ~> pc[r] = "done"

-----------------------------------------------------------------------------
(* What holds inside a transaction: the inductive invariant behind the     *)
(* properties above.                                                       *)

Quoted == {"tdx", "readpublic"}
Reported == EnsureAk \cup {"quote"} \cup Quoted
Prepared == {"pcrreset", "pcrextend", "pcrread"} \cup Reported
Measured == {"startup"} \cup Prepared

\* A caller of quote_tpm or attestation_all that got in has a challenge.
HasChallenge ==
    \A r \in Requests :
        /\ InFlight(r) /\ kind[r] # "information" => nonce[r] \in Nonces
        /\ pc[r] = "tdx" => kind[r] = "all"

\* The folder has been measured before anything is extended.
MeasuredFirst ==
    \A r \in Requests :
        pc[r] \in {"startup", "pcrreset", "pcrextend"} => body[r].total \in Digests

\* Only the request that holds the mutex is inside the transaction.
MutualExclusion == \A r \in Requests : pc[r] \in Critical => holder = r

\* How much of the response is known at each step.
BodyStage(r) ==
    /\ pc[r] \in {"idle", "lock", "scratch", "measure"} => body[r] = NoBody
    /\ pc[r] \in Measured => body[r].total # None /\ body[r].pubkey = None
    /\ pc[r] \in Reported => body[r].value = <<body[r].total>>
    /\ pc[r] \in Critical \ Quoted => body[r].quote = NoQuote
    /\ pc[r] \in Critical \ {"readpublic"} => body[r].tdx = None
    /\ pc[r] \in Quoted =>
         IF kind[r] = "information" THEN body[r].quote = NoQuote
         ELSE /\ body[r].quote.pcr = body[r].value
              /\ body[r].quote.nonce = nonce[r]
              /\ body[r].quote.key # None
    /\ pc[r] = "readpublic" =>
         body[r].tdx = IF kind[r] = "all" THEN report_data_from(nonce[r]) ELSE None
    /\ pc[r] = "quote" => kind[r] # "information"

\* What the PCR holds, unless the simulator was restarted since: a TPM that
\* is started again has passed through "not started", which every command
\* between two EnsureReady steps notices.
PcrStage(r) ==
    /\ pc[r] = "pcrextend" /\ started => pcr = <<>>
    /\ pc[r] \in {"pcrread", "quote"} \cup EnsureAk /\ started => pcr = <<body[r].total>>

TransactionInv ==
    /\ \A r \in Requests : BodyStage(r) /\ PcrStage(r)
    /\ EvidenceConsistent

\* An undisturbed request meets a started simulator, and a key once
\* ensure_ak is through.
HealthInv ==
    /\ started => up
    /\ \A r \in Requests :
        ~faulted[r] =>
            /\ pc[r] \in Prepared => Ready
            /\ pc[r] \in Quoted \cup {"quote"} => ak # None
    /\ \A r \in Requests : pc[r] = "evictcontrol" => body[r].ctx # None
    /\ NoSpuriousFailure

\* Without re-manufacturing there is only ever one key.
KeyInv ==
    /\ cache # None => cache = ak
    /\ \A r \in Requests :
        pc[r] \in Quoted /\ kind[r] # "information" => body[r].quote.key = ak

-----------------------------------------------------------------------------
(* The transaction implements one indivisible attestation *)

Answers == [r \in Requests |->
              IF pc[r] = "done" THEN [status |-> reply[r], body |-> body[r]]
              ELSE Unanswered]
Asked == [r \in Requests |-> pc[r] # "idle"]

Abstract == INSTANCE Attester WITH key <- ak, asked <- Asked, answer <- Answers

\* The lock-protected sequence of commands behaves like the atomic attester:
\* each response appears in one step, complete, signed by the one key the
\* service ever provisions, and is never changed afterwards.
ImplementsAttester == Abstract!Spec
=============================================================================
