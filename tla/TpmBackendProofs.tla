-------------------------- MODULE TpmBackendProofs --------------------------
(* Proofs about the TPM transaction for every number of requests, digests  *)
(* and keys: its invariants, that it implements the atomic attester of     *)
(* module Attester while the simulator keeps its NV state, and what a      *)
(* command that outlives its server can and cannot damage.                 *)
EXTENDS OrphanedTool, TLAPS

-----------------------------------------------------------------------------
(* The data *)

\* Zero-padding a challenge gives a full REPORTDATA field.
LEMMA ReportDataType ==
    ASSUME NEW n \in Nonces
    PROVE  report_data_from(n) \in ReportData
<1>1. PICK k \in 1..Width : n \in [1..k -> Bytes]
    BY DEF Nonces
<1>2. n \in Seq(Bytes) /\ Len(n) = k
    BY <1>1, WidthAssumption
<1>3. ASSUME NEW i \in 1..Width
      PROVE  (IF i <= Len(n) THEN n[i] ELSE 0) \in Bytes
    BY <1>1, <1>2, <1>3, WidthAssumption, BytesAssumption
<1> QED
    BY <1>3 DEF report_data_from, ReportData

\* The response of a request that was refused is well-typed.
LEMMA NoBodyType == NoBody \in Bodies /\ NoBody.ctx = None
    BY DEF NoBody, NoQuote, Bodies, Quotes

-----------------------------------------------------------------------------
(* Types *)

\* The part of the state that every handler step may change.
HandlerTypes ==
    /\ holder \in Requests \cup {None}
    /\ poisoned \in BOOLEAN
    /\ pc \in [Requests -> Labels]
    /\ body \in [Requests -> Bodies]
    /\ reply \in [Requests -> Replies]

\* A handler that goes on keeps its state well-typed.
LEMMA ContinueTypes ==
    ASSUME TypeOK, NEW r \in Requests, NEW label \in Labels, NEW b \in Bodies,
           Continue(r, label, b)
    PROVE  HandlerTypes'
    BY DEF TypeOK, HandlerTypes, Continue, lockVars

\* So does a handler that returns.
LEMMA ReturnTypes ==
    ASSUME TypeOK, NEW r \in Requests, NEW status \in Replies, NEW b \in Bodies,
           Return(r, status, b)
    PROVE  HandlerTypes'
<1>1. [b EXCEPT !.ctx = None] \in Bodies
    BY DEF Bodies
<1> QED
    BY <1>1 DEF TypeOK, HandlerTypes, Return, Labels

\* And so does one that returns an error.
LEMMA AbortTypes ==
    ASSUME TypeOK, NEW r \in Requests, NEW status \in Replies, Abort(r, status)
    PROVE  HandlerTypes'
    BY ReturnTypes, NoBodyType DEF Abort

\* A failing command of any kind keeps the handlers and the blame well-typed.
LEMMA CommandFailsTypes ==
    ASSUME TypeOK, NEW r \in Requests, NEW works, NEW excused,
           CommandFails(r, works, excused)
    PROVE  HandlerTypes' /\ faulted' \in [Requests -> BOOLEAN]
<1>1. PICK e \in tpm2_errors(works) : Abort(r, e.status) /\ Blame(r, e.injected \/ excused)
    BY DEF CommandFails
<1>2. e.status \in Replies
    BY DEF tpm2_errors, Replies, Errors
<1> QED
    BY <1>1, <1>2, AbortTypes DEF Blame, TypeOK

\* So does a failing command of ensure_ak.
LEMMA AkFailsTypes ==
    ASSUME TypeOK, NEW r \in Requests, NEW works, NEW excused,
           AkFails(r, works, excused)
    PROVE  HandlerTypes' /\ faulted' \in [Requests -> BOOLEAN]
<1>1. PICK e \in tpm2_errors(works) :
          /\ Blame(r, e.injected \/ excused)
          /\ Return(r, "ok", body[r]) \/ Abort(r, e.status)
    BY DEF AkFails
<1>2. e.status \in Replies /\ "ok" \in Replies /\ body[r] \in Bodies
    BY DEF tpm2_errors, Replies, Errors, TypeOK
<1> QED
    BY <1>1, <1>2, AbortTypes, ReturnTypes DEF Blame, TypeOK

\* After a flush, whether it worked or not, the slots are within bounds; so
\* they are after a command that failed.
LEMMA FlushTypes ==
    ASSUME TypeOK, NEW f \in flush_transient
    PROVE  /\ f.left \in 0..MaxSlots
           /\ Leftovers(f.left, 1) \subseteq 0..MaxSlots
           /\ Leftovers(f.left, 2) \subseteq 0..MaxSlots
<1>1. f.left \in 0..MaxSlots /\ slots \in 0..MaxSlots
    BY SlotsAssumption DEF TypeOK, flush_transient
<1> QED
    BY <1>1, SlotsAssumption DEF Leftovers

\* A PCR that was just reset, or extended once.
LEMMA PcrTypes == <<>> \in Seq(Digests) /\ \A d \in Digests : <<d>> \in Seq(Digests)
    OBVIOUS

-----------------------------------------------------------------------------
(* Steps of a handler *)

\* The handler of r goes on or returns.
Proceeds(r) ==
    \/ \E label, b : Continue(r, label, b)
    \/ \E status, b : Return(r, status, b)

\* A failing command ends the handler.
LEMMA FailureProceeds ==
    ASSUME NEW r \in Requests, NEW works, NEW excused,
           CommandFails(r, works, excused) \/ AkFails(r, works, excused)
    PROVE  Proceeds(r)
    BY DEF CommandFails, AkFails, Abort, Proceeds

\* Every step of a handler either takes the lock or is one of a request inside
\* the transaction, which keeps its inputs and goes on or returns.
LEMMA ServeProceeds ==
    ASSUME NEW r \in Requests, Serve(r)
    PROVE  \/ Lock(r)
           \/ pc[r] \in Critical /\ kind' = kind /\ nonce' = nonce /\ Proceeds(r)
<1> USE DEF simVars, inputVars, Critical, EnsureAk
<1>1. CASE NewScratch(r) \/ MeasureFolder(r) \/ EnsureReady(r) \/ GenerateTdxReport(r)
    BY <1>1 DEF NewScratch, MeasureFolder, EnsureReady, GenerateTdxReport, Abort, Proceeds
<1>2. CASE ResetPcr(r) \/ ExtendPcr(r) \/ ReadPcr(r) \/ GetCap(r)
  <2>1. Proceeds(r)
    BY <1>2, FailureProceeds DEF ResetPcr, ExtendPcr, ReadPcr, GetCap, Proceeds
  <2> QED
    BY <1>2, <2>1 DEF ResetPcr, ExtendPcr, ReadPcr, GetCap
<1>3. CASE CreateEk(r) \/ CreateAk(r)
  <2>1. Proceeds(r)
    BY <1>3, FailureProceeds DEF CreateEk, CreateAk, Proceeds
  <2> QED
    BY <1>3, <2>1 DEF CreateEk, CreateAk
<1>4. CASE EvictControl(r) \/ CreateQuote(r)
  <2>1. Proceeds(r)
    BY <1>4, FailureProceeds DEF EvictControl, CreateQuote, Proceeds
  <2> QED
    BY <1>4, <2>1 DEF EvictControl, CreateQuote
<1>5. CASE AkPubkey(r)
    BY <1>5 DEF AkPubkey, Proceeds
<1> QED
    BY <1>1, <1>2, <1>3, <1>4, <1>5 DEF Serve

\* What one step of request r leaves alone: the inputs and all other requests.
\* Only a request that takes the free lock is outside the transaction.
LEMMA ServeFrame ==
    ASSUME TypeOK, NEW r \in Requests, Serve(r)
    PROVE  /\ kind' = kind /\ nonce' = nonce
           /\ \A q \in Requests \ {r} :
                 pc'[q] = pc[q] /\ body'[q] = body[q] /\ reply'[q] = reply[q]
           /\ \/ Lock(r)
              \/ pc[r] \in Critical /\ (holder' = holder \/ pc'[r] = "done")
<1>1. CASE Lock(r)
    BY <1>1 DEF Lock, TypeOK, inputVars
<1>2. CASE pc[r] \in Critical /\ kind' = kind /\ nonce' = nonce /\ Proceeds(r)
    BY <1>2 DEF Proceeds, Continue, Return, TypeOK, lockVars
<1> QED
    BY <1>1, <1>2, ServeProceeds

\* The server starts well-typed, with no request inside.
LEMMA InitTypes ==
    ASSUME Init
    PROVE  TypeOK /\ HasChallenge /\ MeasuredFirst
<1>1. pcr \in Seq(Digests)
    BY PcrTypes DEF Init
<1>2. body \in [Requests -> Bodies]
    BY NoBodyType DEF Init
<1>3. slots \in 0..MaxSlots
    BY SlotsAssumption DEF Init
<1>4. HasChallenge /\ MeasuredFirst
    BY DEF Init, HasChallenge, MeasuredFirst, InFlight, Critical, EnsureAk
<1> QED
    BY <1>1, <1>2, <1>3, <1>4 DEF Init, TypeOK, Labels, Kinds, Replies

\* Every step keeps the types, the challenges and the order of measuring first.
LEMMA NextTypes ==
    ASSUME TypeOK, HasChallenge, MeasuredFirst, [Next]_vars
    PROVE  (TypeOK /\ HasChallenge /\ MeasuredFirst)'
<1> DEFINE I == TypeOK /\ HasChallenge /\ MeasuredFirst
<1> USE DEF simVars, lockVars, inputVars
<1>1. ASSUME NEW r \in Requests, Submit(r) PROVE I'
  BY <1>1, ChallengesAssumption
  DEF Submit, TypeOK, HasChallenge, MeasuredFirst, InFlight, Critical, EnsureAk, Labels, Kinds
<1>2. ASSUME NEW r \in Requests, Reject(r) PROVE I'
  BY <1>2 DEF Reject, TypeOK, HasChallenge, MeasuredFirst, InFlight, Critical, EnsureAk,
              Labels, Kinds, Replies, Errors
<1>3. ASSUME NEW r \in Requests, Serve(r) PROVE I'
  <2>0. MeasuredFirst'
    <3> SUFFICES ASSUME pc'[r] \in {"startup", "pcrreset", "pcrextend"}
                 PROVE  body'[r].total \in Digests
      BY <1>3, ServeFrame DEF MeasuredFirst
    <3>1. CASE MeasureFolder(r)
      BY <3>1 DEF MeasureFolder, Continue, Abort, Return, TypeOK, Bodies
    <3>2. CASE EnsureReady(r) \/ ResetPcr(r)
      BY <3>2 DEF EnsureReady, ResetPcr, CommandFails, Continue, Abort, Return, TypeOK,
                  MeasuredFirst
    <3>3. CASE Lock(r) \/ NewScratch(r) \/ ExtendPcr(r) \/ ReadPcr(r) \/ GetCap(r)
      BY <3>3 DEF Lock, NewScratch, ExtendPcr, ReadPcr, GetCap, AfterEnsureAk,
                  CommandFails, AkFails, Continue, Abort, Return, TypeOK
    <3>4. CASE CreateEk(r) \/ CreateAk(r) \/ EvictControl(r)
      BY <3>4 DEF CreateEk, CreateAk, EvictControl, AfterEnsureAk, AkFails, Continue,
                  Abort, Return, TypeOK
    <3>5. CASE CreateQuote(r) \/ GenerateTdxReport(r) \/ AkPubkey(r)
      BY <3>5 DEF CreateQuote, GenerateTdxReport, AkPubkey, CommandFails, Continue,
                  Abort, Return, TypeOK
    <3> QED
      BY <1>3, <3>1, <3>2, <3>3, <3>4, <3>5 DEF Serve
  <2>1. HasChallenge'
    <3>1. InFlight(r)
      BY <1>3, ServeProceeds DEF InFlight, Lock
    <3>2. pc'[r] = "tdx" => kind[r] = "all"
      <4>1. CASE Lock(r) \/ NewScratch(r) \/ MeasureFolder(r) \/ EnsureReady(r)
        BY <4>1 DEF Lock, NewScratch, MeasureFolder, EnsureReady, Continue, Abort, Return,
                    TypeOK
      <4>2. CASE ResetPcr(r) \/ ExtendPcr(r) \/ ReadPcr(r) \/ GetCap(r)
        BY <4>2 DEF ResetPcr, ExtendPcr, ReadPcr, GetCap, AfterEnsureAk, CommandFails,
                    AkFails, Continue, Abort, Return, TypeOK
      <4>3. CASE CreateEk(r) \/ CreateAk(r) \/ EvictControl(r)
        BY <4>3 DEF CreateEk, CreateAk, EvictControl, AfterEnsureAk, AkFails, Continue,
                    Abort, Return, TypeOK
      <4>4. CASE CreateQuote(r) \/ GenerateTdxReport(r) \/ AkPubkey(r)
        BY <4>4 DEF CreateQuote, GenerateTdxReport, AkPubkey, CommandFails, Continue,
                    Abort, Return, TypeOK
      <4> QED
        BY <1>3, <4>1, <4>2, <4>3, <4>4 DEF Serve
    <3> QED
      BY <1>3, <3>1, <3>2, ServeFrame DEF HasChallenge, InFlight
  <2>2. TypeOK'
    <3> USE DEF HandlerTypes
    <3>1. CASE Lock(r)
      BY <3>1 DEF Lock, TypeOK, Labels, Critical, EnsureAk
    <3>2. CASE NewScratch(r)
      BY <3>2, ContinueTypes, AbortTypes
      DEF NewScratch, TypeOK, Labels, Critical, EnsureAk, Replies, Errors, Blame
    <3>3. CASE MeasureFolder(r)
      <4>1. ASSUME NEW d \in Digests PROVE [body[r] EXCEPT !.total = d] \in Bodies
        BY DEF TypeOK, Bodies
      <4> QED
        BY <3>3, <4>1, ContinueTypes, AbortTypes
        DEF MeasureFolder, TypeOK, Labels, Critical, EnsureAk, Replies, Errors, Blame
    <3>4. CASE EnsureReady(r)
      BY <3>4, ContinueTypes, AbortTypes
      DEF EnsureReady, TypeOK, Labels, Critical, EnsureAk, Replies, Errors, Blame
    <3>5. CASE ResetPcr(r)
      BY <3>5, ContinueTypes, CommandFailsTypes, PcrTypes
      DEF ResetPcr, TypeOK, Labels, Critical, EnsureAk
    <3>6. CASE ExtendPcr(r)
      <4>1. Append(pcr, body[r].total) \in Seq(Digests)
        BY <3>6 DEF ExtendPcr, MeasuredFirst, TypeOK
      <4> QED
        BY <3>6, <4>1, ContinueTypes, CommandFailsTypes
        DEF ExtendPcr, TypeOK, Labels, Critical, EnsureAk
    <3>7. CASE ReadPcr(r)
      <4>1. [body[r] EXCEPT !.value = pcr] \in Bodies
        BY DEF TypeOK, Bodies
      <4> QED
        BY <3>7, <4>1, ContinueTypes, CommandFailsTypes
        DEF ReadPcr, TypeOK, Labels, Critical, EnsureAk
    <3>8. CASE GetCap(r)
      BY <3>8, ContinueTypes, AkFailsTypes
      DEF GetCap, AfterEnsureAk, TypeOK, Labels, Critical, EnsureAk
    <3>9. CASE CreateEk(r)
      <4>1. PICK f \in flush_transient :
              \/ Fits(f.left, 1) /\ slots' = f.left + 1
                 /\ Continue(r, "createak", body[r]) /\ Blame(r, f.failed)
              \/ AkFails(r, Fits(f.left, 1), f.failed) /\ slots' \in Leftovers(f.left, 1)
        BY <3>9 DEF CreateEk
      <4>2. slots' \in 0..MaxSlots
        BY <4>1, FlushTypes, SlotsAssumption DEF Fits
      <4>3. HandlerTypes' /\ faulted' \in [Requests -> BOOLEAN]
        BY <4>1, ContinueTypes, AkFailsTypes
        DEF Blame, TypeOK, Labels, Critical, EnsureAk
      <4> QED
        BY <3>9, <4>2, <4>3 DEF CreateEk, TypeOK
    <3>10. CASE CreateAk(r)
      <4>1. PICK f \in flush_transient :
              \/ /\ Fits(f.left, 2) /\ slots' = f.left + 2 /\ Blame(r, f.failed)
                 /\ \E k \in Keys \ minted :
                      /\ minted' = minted \cup {k}
                      /\ Continue(r, "evictcontrol", [body[r] EXCEPT !.ctx = k])
              \/ /\ AkFails(r, Fits(f.left, 2), f.failed)
                 /\ slots' \in Leftovers(f.left, 2) /\ minted' = minted
        BY <3>10 DEF CreateAk
      <4>2. slots' \in 0..MaxSlots
        BY <4>1, FlushTypes, SlotsAssumption DEF Fits
      <4>3. ASSUME NEW k \in Keys PROVE [body[r] EXCEPT !.ctx = k] \in Bodies
        BY DEF TypeOK, Bodies
      <4>4. HandlerTypes' /\ faulted' \in [Requests -> BOOLEAN] /\ minted' \subseteq Keys
        BY <4>1, <4>3, ContinueTypes, AkFailsTypes
        DEF Blame, TypeOK, Labels, Critical, EnsureAk
      <4> QED
        BY <3>10, <4>2, <4>4 DEF CreateAk, TypeOK
    <3>11. CASE EvictControl(r)
      <4>1. PICK f \in flush_transient :
              \/ /\ Fits(f.left, 1) /\ ak' = body[r].ctx /\ slots' \in {0, f.left + 1}
                 /\ Continue(r, AfterEnsureAk(r), body[r]) /\ Blame(r, f.failed)
              \/ /\ AkFails(r, Fits(f.left, 1) /\ ak = None, f.failed)
                 /\ slots' \in Leftovers(f.left, 1)
                 /\ ak' = ak \/ ak' = body[r].ctx
        BY <3>11 DEF EvictControl
      <4>2. slots' \in 0..MaxSlots
        BY <4>1, FlushTypes, SlotsAssumption DEF Fits
      <4>3. HandlerTypes' /\ faulted' \in [Requests -> BOOLEAN]
        BY <4>1, ContinueTypes, AkFailsTypes
        DEF AfterEnsureAk, Blame, TypeOK, Labels, Critical, EnsureAk
      <4>4. ak' \in Keys \cup {None}
        BY <4>1 DEF TypeOK, Bodies
      <4> QED
        BY <3>11, <4>2, <4>3, <4>4 DEF EvictControl, TypeOK
    <3>12. CASE CreateQuote(r)
      <4> DEFINE quote == [pcr |-> pcr, nonce |-> nonce[r], key |-> ak]
      <4>1. PICK f \in flush_transient :
              \/ /\ Fits(f.left, 1) /\ slots' = f.left /\ Blame(r, f.failed)
                 /\ Continue(r, IF kind[r] = "all" THEN "tdx" ELSE "readpublic",
                             [body[r] EXCEPT !.quote = quote])
              \/ /\ CommandFails(r, Fits(f.left, 1) /\ ak # None, f.failed)
                 /\ slots' \in Leftovers(f.left, 1)
        BY <3>12 DEF CreateQuote
      <4>2. slots' \in 0..MaxSlots
        BY <4>1, FlushTypes
      <4>3. [body[r] EXCEPT !.quote = quote] \in Bodies
        BY ZenonT(60) DEF TypeOK, Bodies, Quotes
      <4>4. HandlerTypes' /\ faulted' \in [Requests -> BOOLEAN]
        BY <4>1, <4>3, ContinueTypes, CommandFailsTypes
        DEF Blame, TypeOK, Labels, Critical, EnsureAk
      <4> QED
        BY <3>12, <4>2, <4>4 DEF CreateQuote, TypeOK
    <3>13. CASE GenerateTdxReport(r)
      <4>1. [body[r] EXCEPT !.tdx = report_data_from(nonce[r])] \in Bodies
        <5>1. nonce[r] \in Nonces
          BY <3>13 DEF GenerateTdxReport, HasChallenge, InFlight, Critical, Labels
        <5> QED
          BY <5>1, ReportDataType DEF TypeOK, Bodies
      <4> QED
        BY <3>13, <4>1, ContinueTypes, AbortTypes
        DEF GenerateTdxReport, TypeOK, Labels, Critical, EnsureAk, Replies, Errors, Blame
    <3>14. CASE AkPubkey(r)
      <4>1. ASSUME NEW k \in Keys \cup {None} PROVE [body[r] EXCEPT !.pubkey = k] \in Bodies
        BY DEF TypeOK, Bodies
      <4>2. CASE /\ Return(r, "ok", [body[r] EXCEPT !.pubkey = cache])
                 /\ UNCHANGED <<slots, cache, faulted>>
        BY <3>14, <4>1, <4>2, ReturnTypes DEF AkPubkey, TypeOK, Replies
      <4>3. ASSUME NEW f \in flush_transient, slots' = f.left, cache' = ak,
                   Return(r, "ok", [body[r] EXCEPT !.pubkey = ak]), Blame(r, f.failed)
            PROVE  TypeOK'
        BY <3>14, <4>1, <4>3, ReturnTypes, FlushTypes DEF AkPubkey, TypeOK, Replies, Blame
      <4>4. ASSUME NEW f \in flush_transient, NEW e, Blame(r, e.injected \/ f.failed),
                   slots' \in Leftovers(f.left, 1), Return(r, "ok", body[r]), cache' = cache
            PROVE  TypeOK'
        <5>1. HandlerTypes' /\ faulted' \in [Requests -> BOOLEAN]
          BY <4>4, ReturnTypes DEF TypeOK, Replies, Blame
        <5> QED
          BY <3>14, <4>4, <5>1, FlushTypes DEF AkPubkey, TypeOK
      <4> QED
        BY <3>14, <4>2, <4>3, <4>4 DEF AkPubkey
    <3> QED
      BY <1>3, <3>1, <3>2, <3>3, <3>4, <3>5, <3>6, <3>7, <3>8, <3>9, <3>10,
         <3>11, <3>12, <3>13, <3>14 DEF Serve
  <2> QED
    BY <2>0, <2>1, <2>2
<1>4. ASSUME NEW r \in Requests, Panic(r) PROVE I'
  BY <1>4, NoBodyType
  DEF Panic, Blame, TypeOK, HasChallenge, MeasuredFirst, InFlight, Critical, EnsureAk,
      Labels, Replies, Errors
<1>5. CASE SimStop
  <2>1. faulted' \in [Requests -> BOOLEAN]
    BY <1>5 DEF SimStop, Disturb
  <2>2. HasChallenge' /\ MeasuredFirst'
    BY <1>5 DEF SimStop, HasChallenge, MeasuredFirst, InFlight
  <2>3. pcr' \in Seq(Digests) /\ slots' \in 0..MaxSlots
    BY <1>5, SlotsAssumption, PcrTypes DEF SimStop
  <2> QED
    BY <1>5, <2>1, <2>2, <2>3 DEF SimStop, TypeOK
<1>6. CASE SimStart
  BY <1>6 DEF SimStart, TypeOK, HasChallenge, MeasuredFirst, InFlight
<1>7. CASE Remanufacture
  BY <1>7 DEF Remanufacture, TypeOK, HasChallenge, MeasuredFirst, InFlight
<1>8. CASE Crash
  BY <1>8, NoBodyType
  DEF Crash, TypeOK, HasChallenge, MeasuredFirst, InFlight, Critical, EnsureAk,
      Labels, Replies, Errors
<1>9. CASE UNCHANGED vars
  BY <1>9 DEF vars, TypeOK, HasChallenge, MeasuredFirst, InFlight
<1> QED
  BY <1>1, <1>2, <1>3, <1>4, <1>5, <1>6, <1>7, <1>8, <1>9 DEF Next

\* Every reachable state of the TPM backend is well-typed, and every caller
\* that waits for or is inside a quote transaction has a valid challenge.
THEOREM TypeCorrect == Spec => [](TypeOK /\ HasChallenge /\ MeasuredFirst)
<1> DEFINE I == TypeOK /\ HasChallenge /\ MeasuredFirst
<1>1. Init => I
    BY InitTypes
<1>2. I /\ [Next]_vars => I'
    BY NextTypes
<1> QED
  BY <1>1, <1>2, PTL DEF Spec

-----------------------------------------------------------------------------
(* Mutual exclusion *)

\* Every step keeps the lock exclusive.
LEMMA NextExcludes ==
    ASSUME TypeOK, MutualExclusion, [Next]_vars
    PROVE  MutualExclusion'
<1> USE DEF simVars, lockVars, inputVars
<1>1. ASSUME NEW r \in Requests, Submit(r) \/ Reject(r) PROVE MutualExclusion'
  BY <1>1 DEF Submit, Reject, TypeOK, MutualExclusion, Critical, EnsureAk
<1>2. ASSUME NEW r \in Requests, Serve(r) PROVE MutualExclusion'
  <2>1. CASE Lock(r)
    BY <2>1, NoneAssumption DEF Lock, TypeOK, MutualExclusion
  <2>2. CASE pc[r] \in Critical /\ (holder' = holder \/ pc'[r] = "done")
    BY <1>2, <2>2, ServeFrame DEF MutualExclusion, Critical, EnsureAk
  <2> QED
    BY <1>2, <2>1, <2>2, ServeFrame
<1>3. ASSUME NEW r \in Requests, Panic(r) PROVE MutualExclusion'
  BY <1>3 DEF Panic, TypeOK, MutualExclusion, Critical, EnsureAk
<1>4. CASE SimStop \/ SimStart \/ Remanufacture
  BY <1>4 DEF SimStop, SimStart, Remanufacture, MutualExclusion
<1>5. CASE Crash
  BY <1>5 DEF Crash, InFlight, MutualExclusion, Critical, EnsureAk
<1>6. CASE UNCHANGED vars
  BY <1>6 DEF vars, MutualExclusion
<1> QED
  BY <1>1, <1>2, <1>3, <1>4, <1>5, <1>6 DEF Next

\* Only the holder of the mutex is inside the reset/extend/read/quote sequence.
THEOREM Exclusion == Spec => []MutualExclusion
<1>1. Init => MutualExclusion
    BY DEF Init, MutualExclusion, Critical, EnsureAk
<1>2. TypeOK /\ MutualExclusion /\ [Next]_vars => MutualExclusion'
    BY NextExcludes
<1> QED
  BY <1>1, <1>2, TypeCorrect, PTL DEF Spec

-----------------------------------------------------------------------------
(* The parts of a response agree *)

\* What TransactionInv says of one request.
RequestInv(r) ==
    /\ BodyStage(r)
    /\ PcrStage(r)
    /\ pc[r] = "done" => Consistent(kind[r], nonce[r], reply[r], body[r])

\* An answered request is safe whatever else changes.
LEMMA DoneInv ==
    ASSUME NEW r \in Requests, pc'[r] = "done",
           Consistent(kind[r], nonce[r], reply[r], body[r])'
    PROVE  RequestInv(r)'
    BY DEF RequestInv, BodyStage, PcrStage, Measured, Prepared, Reported, Quoted,
           Critical, EnsureAk

\* An error carries no evidence.
LEMMA AbortInv ==
    ASSUME TypeOK, NEW r \in Requests, NEW status, status # "ok", Abort(r, status)
    PROVE  RequestInv(r)'
<1>1. [NoBody EXCEPT !.ctx = None] = NoBody
    BY DEF NoBody
<1>2. pc'[r] = "done" /\ reply'[r] = status /\ body'[r] = NoBody
    BY <1>1 DEF Abort, Return, TypeOK
<1> QED
    BY <1>2, DoneInv DEF Consistent

\* A failing tpm2 command answers with an error.
LEMMA CommandFailsInv ==
    ASSUME TypeOK, NEW r \in Requests, NEW works, NEW excused,
           CommandFails(r, works, excused)
    PROVE  RequestInv(r)'
<1>1. PICK e \in tpm2_errors(works) : Abort(r, e.status)
    BY DEF CommandFails
<1>2. e.status # "ok"
    BY DEF tpm2_errors
<1> QED
    BY <1>1, <1>2, AbortInv

\* A response is sent only when all its parts are there.
LEMMA ReturnInv ==
    ASSUME TypeOK, NEW r \in Requests, NEW b \in Bodies, Return(r, "ok", b),
           kind' = kind, nonce' = nonce, Consistent(kind[r], nonce[r], "ok", b)
    PROVE  RequestInv(r)'
<1> DEFINE c == [b EXCEPT !.ctx = None]
<1>1. /\ c.total = b.total /\ c.value = b.value /\ c.quote = b.quote /\ c.tdx = b.tdx
    BY DEF Bodies
<1>2. pc'[r] = "done" /\ reply'[r] = "ok" /\ body'[r] = c
    BY DEF Return, TypeOK
<1> QED
    BY ZenonT(60), <1>1, <1>2, DoneInv DEF Consistent

\* A failing ensure_ak answers with an error or, for information_tpm, with what
\* has been measured and read.
LEMMA AkFailsInv ==
    ASSUME TypeOK, NEW r \in Requests, NEW works, NEW excused,
           AkFails(r, works, excused), kind' = kind, nonce' = nonce,
           RequestInv(r), pc[r] \in EnsureAk
    PROVE  RequestInv(r)'
<1>1. PICK e \in tpm2_errors(works) :
          \/ kind[r] = "information" /\ Return(r, "ok", body[r])
          \/ Abort(r, e.status)
    BY DEF AkFails
<1>2. CASE kind[r] = "information" /\ Return(r, "ok", body[r])
  <2>1. Consistent(kind[r], nonce[r], "ok", body[r])
    BY <1>2 DEF Consistent, RequestInv, BodyStage, Measured, Prepared, Reported, Quoted,
                Critical, EnsureAk
  <2> QED
    BY <1>2, <2>1, ReturnInv DEF TypeOK
<1>3. CASE Abort(r, e.status)
  <2>1. e.status # "ok"
    BY DEF tpm2_errors
  <2> QED
    BY <1>3, <2>1, AbortInv
<1> QED
    BY <1>1, <1>2, <1>3

\* A handler that goes on to label l with body b.
LEMMA ContinueFacts ==
    ASSUME TypeOK, NEW r \in Requests, NEW l, NEW b, Continue(r, l, b)
    PROVE  pc'[r] = l /\ body'[r] = b
    BY DEF Continue, TypeOK

\* A step of r inside the transaction keeps what is known about r.
LEMMA ServeInv ==
    ASSUME TypeOK, HasChallenge, MeasuredFirst, NEW r \in Requests, Serve(r), RequestInv(r)
    PROVE  RequestInv(r)'
<1> USE DEF simVars, lockVars, inputVars
<1> DEFINE same == kind' = kind /\ nonce' = nonce
<1>0. same /\ body[r] \in Bodies /\ body[r].total \in Digests \cup {None}
    BY ServeFrame DEF TypeOK, Bodies
<1> HIDE DEF same
<1> USE DEF RequestInv, BodyStage, PcrStage, Measured, Prepared, Reported, Quoted,
            Critical, EnsureAk
<1>1. CASE Lock(r)
    BY <1>1 DEF Lock, TypeOK, NoBody
<1>2. CASE NewScratch(r)
  <2>1. CASE Continue(r, "measure", body[r])
    BY <1>2, <2>1, ContinueFacts DEF NewScratch
  <2> QED
    BY <1>2, <2>1, AbortInv DEF NewScratch
<1>3. CASE MeasureFolder(r)
  <2>1. ASSUME NEW d \in Digests, Continue(r, "startup", [body[r] EXCEPT !.total = d])
        PROVE  RequestInv(r)'
    <3>1. pc'[r] = "startup" /\ body'[r] = [body[r] EXCEPT !.total = d]
      BY <2>1, ContinueFacts
    <3>2. body'[r].total = d /\ body'[r].quote = NoQuote /\ body'[r].tdx = None
          /\ body'[r].pubkey = None
      BY <1>3, <3>1 DEF MeasureFolder, NoBody
    <3> QED
      BY <3>1, <3>2, NoneAssumption
  <2> QED
    BY <1>3, <2>1, AbortInv DEF MeasureFolder
<1>4. CASE EnsureReady(r)
  <2>1. CASE Continue(r, "pcrreset", body[r])
    BY <1>4, <2>1, ContinueFacts DEF EnsureReady
  <2> QED
    BY <1>4, <2>1, AbortInv DEF EnsureReady
<1>5. CASE ResetPcr(r)
  <2>1. CASE pcr' = <<>> /\ Continue(r, "pcrextend", body[r])
    BY <1>5, <2>1, ContinueFacts DEF ResetPcr
  <2> QED
    BY <1>5, <2>1, CommandFailsInv DEF ResetPcr
<1>6. CASE ExtendPcr(r)
  <2>1. CASE /\ Ready /\ pcr' = Append(pcr, body[r].total)
             /\ Continue(r, "pcrread", body[r])
    <3>1. pcr = <<>>
      BY <1>6, <2>1 DEF ExtendPcr, Ready
    <3>2. pcr' = <<body[r].total>>
      BY <2>1, <3>1
    <3> QED
      BY <1>6, <2>1, <3>2, ContinueFacts DEF ExtendPcr
  <2> QED
    BY <1>6, <2>1, CommandFailsInv DEF ExtendPcr
<1>7. CASE ReadPcr(r)
  <2>1. CASE Ready /\ Continue(r, "getcap", [body[r] EXCEPT !.value = pcr])
    <3> DEFINE b == [body[r] EXCEPT !.value = pcr]
    <3>1. pcr = <<body[r].total>>
      BY <1>7, <2>1 DEF ReadPcr, Ready
    <3>2. b.total = body[r].total /\ b.value = <<b.total>> /\ b.quote = body[r].quote
          /\ b.tdx = body[r].tdx /\ b.pubkey = body[r].pubkey
      BY <1>0, <3>1 DEF Bodies
    <3>3. pc'[r] = "getcap" /\ body'[r] = b
      BY <2>1, ContinueFacts
    <3> QED
      BY <1>7, <3>1, <3>2, <3>3 DEF ReadPcr
  <2> QED
    BY <1>7, <2>1, CommandFailsInv DEF ReadPcr
<1>8. CASE GetCap(r)
  <2>1. CASE Continue(r, IF ak # None THEN AfterEnsureAk(r) ELSE "createek", body[r])
    BY <1>0, <1>8, <2>1, ContinueFacts DEF GetCap, AfterEnsureAk, same
  <2> QED
    BY <1>0, <1>8, <2>1, AkFailsInv DEF GetCap, same
<1>9. CASE CreateEk(r)
  <2>1. CASE Continue(r, "createak", body[r])
    BY <1>9, <2>1, ContinueFacts DEF CreateEk
  <2> QED
    BY <1>0, <1>9, <2>1, AkFailsInv DEF CreateEk, same
<1>10. CASE CreateAk(r)
  <2>1. ASSUME NEW k \in Keys, Continue(r, "evictcontrol", [body[r] EXCEPT !.ctx = k])
        PROVE  RequestInv(r)'
    <3> DEFINE b == [body[r] EXCEPT !.ctx = k]
    <3>1. b.total = body[r].total /\ b.value = body[r].value /\ b.quote = body[r].quote
          /\ b.tdx = body[r].tdx /\ b.pubkey = body[r].pubkey
      BY <1>0 DEF Bodies
    <3>2. pc'[r] = "evictcontrol" /\ body'[r] = b
      BY <2>1, ContinueFacts
    <3> QED
      BY <1>10, <3>1, <3>2 DEF CreateAk
  <2> QED
    BY <1>0, <1>10, <2>1, AkFailsInv DEF CreateAk, same
<1>11. CASE EvictControl(r)
  <2>1. CASE Continue(r, AfterEnsureAk(r), body[r])
    BY <1>0, <1>11, <2>1, ContinueFacts DEF EvictControl, AfterEnsureAk, same
  <2> QED
    BY <1>0, <1>11, <2>1, AkFailsInv DEF EvictControl, same
<1>12. CASE CreateQuote(r)
  <2> DEFINE quote == [pcr |-> pcr, nonce |-> nonce[r], key |-> ak]
             b == [body[r] EXCEPT !.quote = quote]
             next == IF kind[r] = "all" THEN "tdx" ELSE "readpublic"
  <2>1. CASE Ready /\ ak # None /\ Continue(r, next, b)
    <3>1. pcr = <<body[r].total>> /\ pcr = body[r].value
      BY <1>12, <2>1 DEF CreateQuote, Ready
    <3>2. b.total = body[r].total /\ b.value = body[r].value /\ b.quote = quote
          /\ b.tdx = body[r].tdx /\ b.pubkey = body[r].pubkey
      BY <1>0 DEF Bodies
    <3>3. pc'[r] = next /\ body'[r] = b
      BY <2>1, ContinueFacts
    <3>4. kind[r] # "information" /\ kind'[r] = kind[r] /\ nonce'[r] = nonce[r]
      BY <1>0, <1>12 DEF CreateQuote, same
    <3> QED
      BY <1>12, <2>1, <3>1, <3>2, <3>3, <3>4 DEF CreateQuote
  <2> QED
    BY <1>12, <2>1, CommandFailsInv DEF CreateQuote, Fits
<1>13. CASE GenerateTdxReport(r)
  <2> DEFINE b == [body[r] EXCEPT !.tdx = report_data_from(nonce[r])]
  <2>1. CASE Continue(r, "readpublic", b)
    <3>1. b.total = body[r].total /\ b.value = body[r].value /\ b.quote = body[r].quote
          /\ b.tdx = report_data_from(nonce[r]) /\ b.pubkey = body[r].pubkey
      BY <1>0 DEF Bodies
    <3>2. pc'[r] = "readpublic" /\ body'[r] = b
      BY <2>1, ContinueFacts
    <3>3. kind[r] = "all" /\ kind'[r] = kind[r] /\ nonce'[r] = nonce[r]
      BY <1>0, <1>13 DEF GenerateTdxReport, HasChallenge, same
    <3>4. report_data_from(nonce[r])' = report_data_from(nonce[r])
      BY <3>3 DEF report_data_from
    <3> QED
      BY <1>13, <3>1, <3>2, <3>3, <3>4 DEF GenerateTdxReport
  <2> QED
    BY <1>13, <2>1, AbortInv DEF GenerateTdxReport
<1>14. CASE AkPubkey(r)
  <2>1. ASSUME NEW k \in Keys \cup {None}
        PROVE  /\ [body[r] EXCEPT !.pubkey = k] \in Bodies
               /\ Consistent(kind[r], nonce[r], "ok", [body[r] EXCEPT !.pubkey = k])
    <3> DEFINE b == [body[r] EXCEPT !.pubkey = k]
    <3>1. /\ b \in Bodies
          /\ b.total = body[r].total /\ b.value = body[r].value
          /\ b.quote = body[r].quote /\ b.tdx = body[r].tdx
      BY <1>0 DEF Bodies
    <3> QED
      BY <1>14, <3>1 DEF AkPubkey, Consistent
  <2>2. Consistent(kind[r], nonce[r], "ok", body[r])
    BY <1>14 DEF AkPubkey, Consistent
  <2>3. \/ Return(r, "ok", [body[r] EXCEPT !.pubkey = cache])
        \/ Return(r, "ok", [body[r] EXCEPT !.pubkey = ak])
        \/ Return(r, "ok", body[r])
    BY <1>14 DEF AkPubkey
  <2>4. cache \in Keys \cup {None} /\ ak \in Keys \cup {None}
    BY DEF TypeOK
  <2> QED
    BY <1>0, <2>1, <2>2, <2>3, <2>4, ReturnInv DEF same
<1> QED
    BY <1>1, <1>2, <1>3, <1>4, <1>5, <1>6, <1>7, <1>8, <1>9, <1>10, <1>11, <1>12,
       <1>13, <1>14 DEF Serve

\* A request that does not move keeps its part when the PCR is not taken from it.
LEMMA RequestStays ==
    ASSUME NEW q \in Requests, RequestInv(q),
           pc'[q] = pc[q], body'[q] = body[q], reply'[q] = reply[q],
           kind'[q] = kind[q], nonce'[q] = nonce[q],
           \/ pc[q] \notin Critical
           \/ pcr' = pcr /\ started' = started
           \/ ~started'
    PROVE  RequestInv(q)'
<1>1. report_data_from(nonce[q])' = report_data_from(nonce[q])
    BY DEF report_data_from
<1> QED
    BY <1>1 DEF RequestInv, BodyStage, PcrStage, Consistent, Measured,
       Prepared, Reported, Quoted, Critical, EnsureAk

\* Every step, of q or of anybody else, keeps what is known about q.
LEMMA NextRequestInv ==
    ASSUME TypeOK, HasChallenge, MeasuredFirst, MutualExclusion, [Next]_vars,
           NEW q \in Requests, RequestInv(q)
    PROVE  RequestInv(q)'
<1> USE DEF simVars, lockVars, inputVars
<1>1. ASSUME NEW r \in Requests, Submit(r) PROVE RequestInv(q)'
  <2>1. CASE q = r
    BY <1>1, <2>1 DEF Submit, TypeOK, RequestInv, BodyStage, PcrStage, Measured,
       Prepared, Reported, Quoted, Critical, EnsureAk
  <2> QED
    BY <1>1, RequestStays, <2>1 DEF Submit, TypeOK
<1>2. ASSUME NEW r \in Requests, Reject(r) PROVE RequestInv(q)'
  <2>1. CASE q = r
    BY <1>2, <2>1, DoneInv DEF Reject, TypeOK, RequestInv, BodyStage, Consistent
  <2> QED
    BY <1>2, RequestStays, <2>1 DEF Reject, TypeOK
<1>3. ASSUME NEW r \in Requests, Serve(r) PROVE RequestInv(q)'
  <2>1. CASE q = r
    BY <1>3, <2>1, ServeInv
  <2>2. CASE q # r /\ Lock(r)
    BY <1>3, RequestStays, <2>2, ServeFrame DEF Lock
  <2>3. CASE q # r /\ pc[r] \in Critical
    <3>1. pc[q] \notin Critical
      BY <2>3 DEF MutualExclusion
    <3> QED
      BY <1>3, RequestStays, <2>3, <3>1, ServeFrame
  <2> QED
    BY <1>3, <2>1, <2>2, <2>3, ServeFrame
<1>4. ASSUME NEW r \in Requests, Panic(r) PROVE RequestInv(q)'
  <2>1. CASE q = r
    BY <1>4, <2>1, DoneInv DEF Panic, TypeOK, Consistent
  <2> QED
    BY <1>4, RequestStays, <2>1 DEF Panic, TypeOK
<1>5. CASE SimStop
  BY <1>5, RequestStays DEF SimStop
<1>6. CASE SimStart \/ Remanufacture
  BY <1>6, RequestStays DEF SimStart, Remanufacture
<1>7. CASE Crash
  <2>1. CASE InFlight(q)
    BY <1>7, <2>1, DoneInv DEF Crash, Consistent
  <2> QED
    BY <1>7, RequestStays, <2>1 DEF Crash
<1>8. CASE UNCHANGED vars
  BY <1>8, RequestStays DEF vars
<1> QED
  BY <1>1, <1>2, <1>3, <1>4, <1>5, <1>6, <1>7, <1>8 DEF Next

\* Nothing is known of a request that has not come in.
LEMMA InitRequestInv ==
    ASSUME Init, NEW r \in Requests
    PROVE  RequestInv(r)
    BY DEF Init, RequestInv, BodyStage, PcrStage, Measured, Prepared, Reported, Quoted,
           Critical, EnsureAk

\* At every step of a transaction the parts of the response that are known
\* agree, and so does the PCR unless the simulator has been restarted.
THEOREM Transaction == Spec => []TransactionInv
<1> DEFINE T == TypeOK /\ HasChallenge /\ MeasuredFirst /\ MutualExclusion
<1>1. Init => TransactionInv
    BY InitRequestInv DEF TransactionInv, RequestInv, EvidenceConsistent
<1>2. T /\ TransactionInv /\ [Next]_vars => TransactionInv'
    BY NextRequestInv DEF TransactionInv, RequestInv, EvidenceConsistent
<1> QED
  BY <1>1, <1>2, TypeCorrect, Exclusion, PTL DEF Spec

\* Every response of information_tpm, quote_tpm and attestation_all is
\* consistent, for any number of requests, digests and keys.
THEOREM EvidenceIsConsistent == Spec => []EvidenceConsistent
<1>1. TransactionInv => EvidenceConsistent
    BY DEF TransactionInv
<1> QED
  BY <1>1, Transaction, PTL

-----------------------------------------------------------------------------
(* The key *)

\* ensure_ak never creates a key over a persisted one: the handle that getcap
\* saw empty is still empty when the new key is persisted.
THEOREM NoKeyIsReplaced == Spec => []CreatesOnlyWhenEmpty
<1> DEFINE Creating == {"createek", "createak", "evictcontrol"}
<1>1. Init => CreatesOnlyWhenEmpty
    BY DEF Init, CreatesOnlyWhenEmpty
<1>2. TypeOK /\ MutualExclusion /\ CreatesOnlyWhenEmpty /\ [Next]_vars
        => CreatesOnlyWhenEmpty'
  <2> SUFFICES ASSUME TypeOK, MutualExclusion, CreatesOnlyWhenEmpty, [Next]_vars,
                      NEW q \in Requests, pc'[q] \in Creating
               PROVE  ak' = None
    BY DEF CreatesOnlyWhenEmpty
  <2> USE DEF simVars, lockVars, inputVars
  <2>1. ASSUME NEW r \in Requests, Submit(r) \/ Reject(r) PROVE ak' = None
    BY <2>1 DEF Submit, Reject, TypeOK, CreatesOnlyWhenEmpty
  <2>2. ASSUME NEW r \in Requests, Serve(r) PROVE ak' = None
    <3>1. CASE Lock(r) \/ NewScratch(r) \/ MeasureFolder(r) \/ EnsureReady(r)
      BY <3>1 DEF Lock, NewScratch, MeasureFolder, EnsureReady, Continue, Abort, Return,
                  TypeOK, CreatesOnlyWhenEmpty
    <3>2. CASE ResetPcr(r) \/ ExtendPcr(r) \/ ReadPcr(r)
      BY <3>2 DEF ResetPcr, ExtendPcr, ReadPcr, CommandFails, Continue, Abort, Return,
                  TypeOK, CreatesOnlyWhenEmpty
    <3>3. CASE GetCap(r)
      BY <3>3 DEF GetCap, AfterEnsureAk, AkFails, Continue, Abort, Return, TypeOK,
                  CreatesOnlyWhenEmpty
    <3>4. CASE CreateEk(r) \/ CreateAk(r)
      BY <3>4 DEF CreateEk, CreateAk, AkFails, Continue, Abort, Return, TypeOK,
                  CreatesOnlyWhenEmpty
    <3>5. CASE EvictControl(r)
      \* r itself leaves ensure_ak, and nobody else is in it.
      <4>1. pc'[r] \notin Creating
        BY <3>5 DEF EvictControl, AfterEnsureAk, AkFails, Continue, Abort, Return, TypeOK
      <4>2. pc[q] \in Creating
        BY <2>2, <4>1, ServeFrame
      <4>3. holder = r /\ holder = q
        BY <3>5, <4>2 DEF EvictControl, MutualExclusion, Critical, EnsureAk
      <4> QED
        BY <4>1, <4>3
    <3>6. CASE CreateQuote(r) \/ GenerateTdxReport(r) \/ AkPubkey(r)
      BY <3>6 DEF CreateQuote, GenerateTdxReport, AkPubkey, CommandFails, Continue, Abort,
                  Return, TypeOK, CreatesOnlyWhenEmpty
    <3> QED
      BY <2>2, <3>1, <3>2, <3>3, <3>4, <3>5, <3>6 DEF Serve
  <2>3. ASSUME NEW r \in Requests, Panic(r) PROVE ak' = None
    BY <2>3 DEF Panic, TypeOK, CreatesOnlyWhenEmpty
  <2>4. CASE SimStop \/ SimStart \/ Remanufacture
    BY <2>4 DEF SimStop, SimStart, Remanufacture, CreatesOnlyWhenEmpty
  <2>5. CASE Crash
    BY <2>5 DEF Crash, CreatesOnlyWhenEmpty
  <2>6. CASE UNCHANGED vars
    BY <2>6 DEF vars, CreatesOnlyWhenEmpty
  <2> QED
    BY <2>1, <2>2, <2>3, <2>4, <2>5, <2>6 DEF Next
<1> QED
  BY <1>1, <1>2, TypeCorrect, Exclusion, PTL DEF Spec

\* The public key is the last thing that becomes known.
PubkeyLast(r) ==
    /\ pc[r] \in {"idle", "lock", "scratch", "measure"} => body[r] = NoBody
    /\ pc[r] \in Critical => body[r].pubkey = None

\* What is known about the keys of one request: what signed its quote is the
\* persisted key, and so is the public key that is returned with the quote.
KeyFacts(r) ==
    /\ PubkeyLast(r)
    /\ pc[r] \in Quoted /\ kind[r] # "information" =>
         ak # None /\ body[r].quote.key = ak
    /\ pc[r] = "done" /\ kind[r] # "information" /\ body[r].pubkey # None
         => body[r].pubkey = body[r].quote.key

\* Nothing that was signed or cached belongs to another key.
OneKeyInv ==
    /\ cache # None => cache = ak
    /\ \A r \in Requests : KeyFacts(r)

\* A step of r answers it, or leaves its public key unknown.
LEMMA ServePubkeyLast ==
    ASSUME TypeOK, NEW r \in Requests, Serve(r), PubkeyLast(r)
    PROVE  PubkeyLast(r)'
<1> USE DEF EnsureAk
<1>0. body[r] \in Bodies
    BY DEF TypeOK
<1>1. CASE Lock(r)
    BY <1>1 DEF Lock, TypeOK, PubkeyLast, NoBody
<1>2. CASE pc[r] \in Critical /\ pc'[r] = "done"
    BY <1>2 DEF PubkeyLast, Critical
<1>3. ASSUME pc[r] \in Critical, NEW l, l \notin {"idle", "lock", "scratch", "measure"},
             NEW b, Continue(r, l, b), b.pubkey = body[r].pubkey
      PROVE  PubkeyLast(r)'
    BY <1>3, ContinueFacts DEF PubkeyLast
<1>4. CASE NewScratch(r)
  <2>1. CASE Continue(r, "measure", body[r])
    BY <1>4, <2>1, ContinueFacts DEF NewScratch, PubkeyLast, NoBody
  <2> QED
    BY <1>2, <1>4, <2>1 DEF NewScratch, Abort, Return, TypeOK, Critical
<1>5. CASE MeasureFolder(r) \/ EnsureReady(r)
  <2>1. pc[r] \in Critical
    BY <1>5 DEF MeasureFolder, EnsureReady, Critical
  <2>2. \A d : [body[r] EXCEPT !.total = d].pubkey = body[r].pubkey
    BY <1>0 DEF Bodies
  <2>3. (\E status : Abort(r, status)) => pc'[r] = "done"
    BY DEF Abort, Return, TypeOK
  <2> QED
    BY <1>2, <1>3, <1>5, <2>1, <2>2, <2>3 DEF MeasureFolder, EnsureReady
<1>6. (\E works, excused : CommandFails(r, works, excused) \/ AkFails(r, works, excused))
        => pc'[r] = "done"
    BY DEF CommandFails, AkFails, Abort, Return, TypeOK
<1>7. CASE ResetPcr(r) \/ ExtendPcr(r) \/ ReadPcr(r)
  <2>1. pc[r] \in Critical
    BY <1>7 DEF ResetPcr, ExtendPcr, ReadPcr, Critical
  <2>2. [body[r] EXCEPT !.value = pcr].pubkey = body[r].pubkey
    BY <1>0 DEF Bodies
  <2> QED
    BY <1>2, <1>3, <1>6, <1>7, <2>1, <2>2 DEF ResetPcr, ExtendPcr, ReadPcr
<1>8. CASE GetCap(r) \/ CreateEk(r) \/ EvictControl(r)
  <2>1. pc[r] \in Critical
    BY <1>8 DEF GetCap, CreateEk, EvictControl, Critical
  <2>2. ASSUME NEW l \in {"createek", "createak", AfterEnsureAk(r)}, Continue(r, l, body[r])
        PROVE  PubkeyLast(r)'
    BY <1>3, <2>1, <2>2 DEF AfterEnsureAk
  <2> QED
    BY <1>2, <1>6, <1>8, <2>1, <2>2 DEF GetCap, CreateEk, EvictControl
<1>9. CASE CreateAk(r)
  <2>1. \A k : [body[r] EXCEPT !.ctx = k].pubkey = body[r].pubkey
    BY <1>0 DEF Bodies
  <2> QED
    BY <1>2, <1>3, <1>6, <1>9, <2>1 DEF CreateAk, Critical
<1>10. CASE CreateQuote(r)
  <2>1. \A q : [body[r] EXCEPT !.quote = q].pubkey = body[r].pubkey
    BY <1>0 DEF Bodies
  <2> QED
    BY <1>2, <1>3, <1>6, <1>10, <2>1 DEF CreateQuote, Critical
<1>11. CASE GenerateTdxReport(r)
  <2>1. \A t : [body[r] EXCEPT !.tdx = t].pubkey = body[r].pubkey
    BY <1>0 DEF Bodies
  <2> QED
    BY <1>2, <1>3, <1>11, <2>1 DEF GenerateTdxReport, Abort, Return, TypeOK, Critical
<1>12. CASE AkPubkey(r)
    BY <1>2, <1>12 DEF AkPubkey, Return, TypeOK, Critical
<1> QED
    BY <1>1, <1>4, <1>5, <1>7, <1>8, <1>9, <1>10, <1>11, <1>12 DEF Serve

\* A request that is answered without a public key is safe.
LEMMA ReturnNoKey ==
    ASSUME TypeOK, NEW r \in Requests, NEW status, NEW b \in Bodies,
           Return(r, status, b), b.pubkey = None
    PROVE  KeyFacts(r)'
<1>1. [b EXCEPT !.ctx = None].pubkey = None
    BY DEF Bodies
<1> QED
    BY <1>1 DEF Return, TypeOK, KeyFacts, PubkeyLast, Quoted, Critical, EnsureAk

\* So is one that an error ends inside the transaction.
LEMMA FailNoKey ==
    ASSUME TypeOK, NEW r \in Requests, PubkeyLast(r), pc[r] \in Measured,
           NEW works, NEW excused,
           CommandFails(r, works, excused) \/ AkFails(r, works, excused)
    PROVE  KeyFacts(r)'
<1>1. PICK status : Return(r, status, NoBody) \/ Return(r, status, body[r])
    BY DEF CommandFails, AkFails, Abort
<1>2. body[r] \in Bodies /\ body[r].pubkey = None
    BY DEF TypeOK, PubkeyLast, Measured, Prepared, Reported, Quoted, Critical
<1>3. NoBody.pubkey = None
    BY DEF NoBody
<1> QED
    BY <1>1, <1>2, <1>3, NoBodyType, ReturnNoKey

\* A step of r keeps what is known about its keys.
LEMMA ServeKey ==
    ASSUME TypeOK, NEW r \in Requests, Serve(r), KeyFacts(r),
           cache # None => cache = ak
    PROVE  KeyFacts(r)'
<1> USE DEF simVars, lockVars, inputVars, Measured, Prepared, Reported, EnsureAk
<1>0. kind' = kind /\ PubkeyLast(r) /\ PubkeyLast(r)'
    BY ServeFrame, ServePubkeyLast DEF KeyFacts
<1>1. CASE Lock(r)
    BY <1>0, <1>1 DEF Lock, TypeOK, KeyFacts, Quoted
<1>2. ASSUME pc'[r] \notin Quoted \cup {"done"} PROVE KeyFacts(r)'
    BY <1>0, <1>2 DEF KeyFacts
<1>3. CASE NewScratch(r) \/ MeasureFolder(r) \/ EnsureReady(r)
  <2>1. ASSUME NEW status, Abort(r, status) PROVE KeyFacts(r)'
    BY <2>1, ReturnNoKey, NoBodyType DEF Abort, NoBody
  <2>2. (\E status : Abort(r, status)) \/ pc'[r] \in {"measure", "startup", "pcrreset"}
    BY <1>3 DEF NewScratch, MeasureFolder, EnsureReady, Continue, TypeOK
  <2> QED
    BY <1>2, <2>1, <2>2 DEF Quoted
<1>4. CASE ResetPcr(r) \/ ExtendPcr(r) \/ ReadPcr(r)
  <2>1. pc[r] \in Measured
    BY <1>4 DEF ResetPcr, ExtendPcr, ReadPcr
  <2>2. CASE CommandFails(r, Ready, FALSE)
    BY <1>0, <2>1, <2>2, FailNoKey
  <2>3. CommandFails(r, Ready, FALSE) \/ pc'[r] \in {"pcrextend", "pcrread", "getcap"}
    BY <1>4 DEF ResetPcr, ExtendPcr, ReadPcr, Continue, TypeOK
  <2> QED
    BY <1>2, <2>2, <2>3 DEF Quoted
<1>5. ASSUME Continue(r, AfterEnsureAk(r), body[r]) PROVE KeyFacts(r)'
    BY <1>0, <1>5, ContinueFacts DEF AfterEnsureAk, KeyFacts, Quoted
<1>6. CASE GetCap(r)
  <2>1. CASE Continue(r, "createek", body[r])
    BY <1>2, <2>1, ContinueFacts DEF Quoted
  <2> QED
    BY <1>0, <1>5, <1>6, <2>1, FailNoKey DEF GetCap
<1>7. CASE CreateEk(r) \/ CreateAk(r)
  <2>1. pc[r] \in Measured
    BY <1>7 DEF CreateEk, CreateAk
  <2>2. \/ \E works, excused : AkFails(r, works, excused)
        \/ pc'[r] \in {"createak", "evictcontrol"}
    BY <1>7 DEF CreateEk, CreateAk, Continue, TypeOK
  <2> QED
    BY <1>0, <1>2, <2>1, <2>2, FailNoKey DEF Quoted
<1>8. CASE EvictControl(r)
    BY <1>0, <1>5, <1>8, FailNoKey DEF EvictControl
<1>9. CASE CreateQuote(r)
  <2> DEFINE b == [body[r] EXCEPT !.quote = [pcr |-> pcr, nonce |-> nonce[r], key |-> ak]]
             next == IF kind[r] = "all" THEN "tdx" ELSE "readpublic"
  <2>1. CASE ak # None /\ Continue(r, next, b)
    <3>1. b.quote.key = ak
      BY DEF TypeOK, Bodies
    <3>2. body'[r] = b /\ pc'[r] # "done" /\ ak' = ak
      BY <1>9, <2>1, ContinueFacts DEF CreateQuote
    <3> QED
      BY <1>0, <2>1, <3>1, <3>2 DEF KeyFacts
  <2> QED
    BY <1>0, <1>9, <2>1, FailNoKey DEF CreateQuote
<1>10. CASE GenerateTdxReport(r)
  <2> DEFINE b == [body[r] EXCEPT !.tdx = report_data_from(nonce[r])]
  <2>1. CASE Continue(r, "readpublic", b)
    <3>1. b.quote = body[r].quote
      BY DEF TypeOK, Bodies
    <3>2. pc[r] = "tdx" /\ body'[r] = b /\ pc'[r] = "readpublic" /\ ak' = ak
      BY <1>10, <2>1, ContinueFacts DEF GenerateTdxReport
    <3> QED
      BY <1>0, <3>1, <3>2 DEF KeyFacts, Quoted
  <2>2. ASSUME NEW status, Abort(r, status) PROVE KeyFacts(r)'
    BY <2>2, ReturnNoKey, NoBodyType DEF Abort, NoBody
  <2> QED
    BY <1>10, <2>1, <2>2 DEF GenerateTdxReport
<1>11. CASE AkPubkey(r)
  <2>1. ASSUME Return(r, "ok", [body[r] EXCEPT !.pubkey = ak]) PROVE KeyFacts(r)'
    <3> DEFINE b == [[body[r] EXCEPT !.pubkey = ak] EXCEPT !.ctx = None]
    <3>1. b.pubkey = ak /\ b.quote = body[r].quote
      BY DEF TypeOK, Bodies
    <3>2. pc'[r] = "done" /\ body'[r] = b
      BY <2>1 DEF Return, TypeOK
    <3> QED
      BY <1>0, <1>11, <3>1, <3>2 DEF AkPubkey, KeyFacts, Quoted
  <2>2. ASSUME Return(r, "ok", body[r]) PROVE KeyFacts(r)'
    BY <1>0, <1>11, <2>2, ReturnNoKey DEF AkPubkey, PubkeyLast, TypeOK, Critical
  <2> QED
    BY <1>11, <2>1, <2>2 DEF AkPubkey
<1> QED
    BY <1>1, <1>3, <1>4, <1>6, <1>7, <1>8, <1>9, <1>10, <1>11 DEF Serve

\* How the persisted key and the cached one change: a step of r persists a key
\* only at an empty handle, and caches only the persisted one.
LEMMA ServeKeys ==
    ASSUME TypeOK, NEW r \in Requests, Serve(r)
    PROVE  /\ ak' = ak \/ (ak = None /\ pc[r] = "evictcontrol" /\ cache' = cache)
           /\ cache' = cache \/ (cache' = ak /\ ak' = ak)
<1> USE DEF simVars
<1>1. CASE Lock(r) \/ NewScratch(r) \/ MeasureFolder(r) \/ EnsureReady(r) \/ ResetPcr(r)
           \/ ExtendPcr(r) \/ ReadPcr(r) \/ GetCap(r)
    BY <1>1 DEF Lock, NewScratch, MeasureFolder, EnsureReady, ResetPcr, ExtendPcr, ReadPcr,
                GetCap
<1>2. CASE CreateEk(r) \/ CreateAk(r) \/ EvictControl(r)
    BY <1>2 DEF CreateEk, CreateAk, EvictControl
<1>3. CASE CreateQuote(r) \/ GenerateTdxReport(r) \/ AkPubkey(r)
    BY <1>3 DEF CreateQuote, GenerateTdxReport, AkPubkey
<1> QED
    BY <1>1, <1>2, <1>3 DEF Serve

\* No step of the server or of the simulator makes a second key known.
LEMMA NextOneKey ==
    ASSUME ~Remanufacturing, TypeOK, OneKeyInv, [Next]_vars
    PROVE  OneKeyInv'
<1> USE DEF simVars, lockVars, inputVars
<1>0. /\ cache # None => cache = ak
      /\ \A q \in Requests : KeyFacts(q)
    BY DEF OneKeyInv
<1>1. SUFFICES (cache # None => cache = ak)' /\ \A q \in Requests : KeyFacts(q)'
    BY DEF OneKeyInv
\* q keeps its part when it does not move and no key is replaced meanwhile.
<1>A. ASSUME NEW q \in Requests, pc'[q] = pc[q], body'[q] = body[q], kind'[q] = kind[q],
             ak # None => ak' = ak
      PROVE  KeyFacts(q)'
    BY <1>0, <1>A DEF KeyFacts, PubkeyLast
<1>2. ASSUME NEW r \in Requests, Submit(r) \/ Reject(r)
      PROVE  (cache # None => cache = ak)' /\ \A q \in Requests : KeyFacts(q)'
  <2>1. KeyFacts(r)
    BY <1>0
  <2>2. KeyFacts(r)'
    BY <1>2, <2>1 DEF Submit, Reject, TypeOK, KeyFacts, PubkeyLast, Quoted, NoBody, Critical,
                      EnsureAk
  <2> QED
    BY <1>0, <1>2, <1>A, <2>2 DEF Submit, Reject, TypeOK
<1>3. ASSUME NEW r \in Requests, Serve(r)
      PROVE  (cache # None => cache = ak)' /\ \A q \in Requests : KeyFacts(q)'
  <2>1. (cache # None => cache = ak)'
    BY <1>0, <1>3, ServeKeys
  <2>2. KeyFacts(r)'
    BY <1>0, <1>3, ServeKey
  <2>3. ASSUME NEW q \in Requests \ {r} PROVE KeyFacts(q)'
    <3>1. ak # None => ak' = ak
      BY <1>3, ServeKeys
    <3> QED
      BY <1>3, <1>A, <3>1, ServeFrame
  <2> QED
    BY <2>1, <2>2, <2>3
<1>4. ASSUME NEW r \in Requests, Panic(r)
      PROVE  (cache # None => cache = ak)' /\ \A q \in Requests : KeyFacts(q)'
  <2>1. KeyFacts(r)'
    BY <1>4 DEF Panic, TypeOK, KeyFacts, PubkeyLast, Quoted, NoBody, Critical, EnsureAk
  <2> QED
    BY <1>0, <1>4, <1>A, <2>1 DEF Panic, TypeOK
<1>5. CASE SimStop \/ SimStart \/ Remanufacture
    BY <1>0, <1>5, <1>A DEF SimStop, SimStart, Remanufacture
<1>6. CASE Crash
  <2>1. ASSUME NEW q \in Requests PROVE KeyFacts(q)'
    <3>1. CASE InFlight(q)
      BY <1>6, <3>1 DEF Crash, KeyFacts, PubkeyLast, Quoted, NoBody, Critical, EnsureAk
    <3> QED
      BY <1>6, <1>A, <3>1 DEF Crash
  <2> QED
    BY <1>6, <2>1 DEF Crash
<1>7. CASE UNCHANGED vars
    BY <1>0, <1>7, <1>A DEF vars
<1> QED
    BY <1>2, <1>3, <1>4, <1>5, <1>6, <1>7 DEF Next

\* At the start nothing is signed or cached.
LEMMA InitOneKey ==
    ASSUME Init
    PROVE  OneKeyInv
    BY DEF Init, OneKeyInv, KeyFacts, PubkeyLast, Quoted, Critical, EnsureAk

\* OneKeyInv contains what is said of the keys.
LEMMA OneKeyMeaning ==
    ASSUME OneKeyInv
    PROVE  KeyInv /\ PubkeySignedQuote
    BY DEF OneKeyInv, KeyFacts, KeyInv, PubkeySignedQuote

\* While the simulator keeps its NV state there is one key: what ak_pubkey has
\* cached and what signed the quotes of the transaction is the persisted key.
THEOREM OneKey == ~Remanufacturing => (Spec => [](OneKeyInv /\ KeyInv /\ PubkeySignedQuote))
<1> SUFFICES ASSUME ~Remanufacturing
             PROVE  Spec => [](OneKeyInv /\ KeyInv /\ PubkeySignedQuote)
    OBVIOUS
<1>1. TypeOK /\ OneKeyInv /\ [Next]_vars => OneKeyInv'
    BY NextOneKey
<1> QED
  BY <1>1, InitOneKey, OneKeyMeaning, TypeCorrect, PTL DEF Spec

\* While the simulator keeps its NV state, a public key that is returned with a
\* quote is the key that signed it, although it is read once and then cached.
THEOREM PubkeyMatches == ~Remanufacturing => (Spec => []PubkeySignedQuote)
  BY OneKey, PTL

-----------------------------------------------------------------------------
(* Nothing left behind makes a request fail *)

\* What HealthInv says of one request.
HealthFacts(r) ==
    /\ ~faulted[r] =>
         /\ pc[r] \in Prepared => Ready
         /\ pc[r] \in Quoted \cup {"quote"} => ak # None
    /\ pc[r] = "evictcontrol" => body[r].ctx # None
    /\ pc[r] = "done" /\ ~faulted[r] =>
         /\ reply[r] \in {"ok", "bad_request", "lost"}
         /\ reply[r] = "ok" => body[r].pubkey # None

\* A flush that worked leaves room for every command of the service.
LEMMA FlushMakesRoom ==
    ASSUME NEW f \in flush_transient
    PROVE  /\ f.failed \in BOOLEAN
           /\ ~f.failed => Fits(f.left, 1) /\ Fits(f.left, 2)
<1>1. CASE f = [left |-> slots, failed |-> TRUE]
    BY <1>1
<1>2. CASE f = [left |-> 0, failed |-> FALSE] /\ Ready
  <2>1. f.left = 0 /\ f.failed = FALSE
    BY <1>2
  <2> QED
    BY <1>2, <2>1, SlotsAssumption DEF Fits
<1> QED
    BY <1>1, <1>2 DEF flush_transient

\* A command that would have worked fails only by a fault of its tool.
LEMMA FailureBlames ==
    ASSUME TypeOK, NEW r \in Requests, NEW works, NEW excused \in BOOLEAN,
           CommandFails(r, works, excused) \/ AkFails(r, works, excused),
           ~faulted[r] /\ ~excused => works
    PROVE  HealthFacts(r)'
<1>1. PICK e \in tpm2_errors(works) :
         /\ Blame(r, e.injected \/ excused)
         /\ \E status, b : Return(r, status, b)
    BY DEF CommandFails, AkFails, Abort
<1>2. works => e.injected = TRUE
    BY DEF tpm2_errors
<1>3. faulted'[r] = (faulted[r] \/ e.injected \/ excused) /\ pc'[r] = "done"
    BY <1>1 DEF Blame, Return, TypeOK
<1>4. faulted'[r]
    BY <1>2, <1>3 DEF TypeOK
<1> QED
    BY <1>3, <1>4 DEF HealthFacts

\* A request that ends with a fault of its own is excused.
LEMMA BlamedIsExcused ==
    ASSUME TypeOK, NEW r \in Requests, NEW status, NEW b, Return(r, status, b),
           Blame(r, TRUE)
    PROVE  HealthFacts(r)'
<1>1. faulted'[r] /\ pc'[r] = "done"
    BY DEF Blame, Return, TypeOK
<1> QED
    BY <1>1 DEF HealthFacts

\* A step of r only ever blames r.
LEMMA ServeBlame ==
    ASSUME TypeOK, NEW r \in Requests, Serve(r), NEW q \in Requests \ {r}
    PROVE  faulted'[q] = faulted[q]
<1>1. CASE Lock(r) \/ NewScratch(r) \/ MeasureFolder(r) \/ EnsureReady(r)
           \/ GenerateTdxReport(r)
    BY <1>1 DEF Lock, NewScratch, MeasureFolder, EnsureReady, GenerateTdxReport, Blame, TypeOK
<1>2. CASE ResetPcr(r) \/ ExtendPcr(r) \/ ReadPcr(r) \/ GetCap(r)
    BY <1>2 DEF ResetPcr, ExtendPcr, ReadPcr, GetCap, CommandFails, AkFails, Blame, TypeOK
<1>3. CASE CreateEk(r) \/ CreateAk(r) \/ EvictControl(r)
    BY <1>3 DEF CreateEk, CreateAk, EvictControl, AkFails, Blame, TypeOK
<1>4. CASE CreateQuote(r) \/ AkPubkey(r)
    BY <1>4 DEF CreateQuote, AkPubkey, CommandFails, Blame, TypeOK
<1> QED
    BY <1>1, <1>2, <1>3, <1>4 DEF Serve

\* A step of r keeps r healthy.
LEMMA ServeHealth ==
    ASSUME TypeOK, NEW r \in Requests, Serve(r), HealthFacts(r),
           pc[r] = "evictcontrol" => ak = None
    PROVE  HealthFacts(r)'
<1> USE DEF simVars, lockVars, inputVars
<1>1. CASE Lock(r)
    BY <1>1 DEF Lock, TypeOK, HealthFacts, Prepared, Reported, Quoted, EnsureAk
<1>2. ASSUME NEW status, Abort(r, status) /\ Blame(r, TRUE) PROVE HealthFacts(r)'
    BY <1>2, BlamedIsExcused DEF Abort
<1>3. CASE NewScratch(r) \/ MeasureFolder(r)
  <2>1. CASE pc'[r] \in {"measure", "startup"}
    BY <2>1 DEF HealthFacts, Prepared, Reported, Quoted, EnsureAk
  <2>2. (\E status : Abort(r, status) /\ Blame(r, TRUE)) \/ pc'[r] \in {"measure", "startup"}
    BY <1>3 DEF NewScratch, MeasureFolder, Continue, TypeOK
  <2> QED
    BY <1>2, <2>1, <2>2
<1>4. CASE EnsureReady(r)
  <2>1. CASE up /\ started' = TRUE /\ Continue(r, "pcrreset", body[r])
    <3>1. pc'[r] = "pcrreset" /\ Ready'
      BY <1>4, <2>1, ContinueFacts DEF EnsureReady, Ready
    <3> QED
      BY <3>1 DEF HealthFacts, Quoted
  <2>2. CASE Continue(r, "pcrreset", body[r]) /\ Blame(r, TRUE)
    <3>1. pc'[r] = "pcrreset" /\ faulted'[r]
      BY <2>2, ContinueFacts DEF Blame, TypeOK
    <3> QED
      BY <3>1 DEF HealthFacts
  <2> QED
    BY <1>2, <1>4, <2>1, <2>2 DEF EnsureReady
<1>5. ~faulted[r] /\ pc[r] \in Prepared => Ready
    BY DEF HealthFacts
\* The commands that load nothing work on a started TPM.
<1>6. CASE ResetPcr(r) \/ ExtendPcr(r) \/ ReadPcr(r)
  <2>1. pc[r] \in Prepared
    BY <1>6 DEF ResetPcr, ExtendPcr, ReadPcr, Prepared
  <2>2. CASE CommandFails(r, Ready, FALSE)
    BY <1>5, <2>1, <2>2, FailureBlames
  <2>3. CASE pc'[r] \in {"pcrextend", "pcrread", "getcap"} /\ Ready /\ up' = up
             /\ started' = started
    BY <2>3 DEF HealthFacts, Ready, Quoted
  <2> QED
    BY <1>6, <2>2, <2>3 DEF ResetPcr, ExtendPcr, ReadPcr, Continue, TypeOK
<1>7. CASE GetCap(r)
  <2>1. pc[r] \in Prepared
    BY <1>7 DEF GetCap, Prepared, Reported, EnsureAk
  <2>2. CASE AkFails(r, Ready, FALSE)
    BY <1>5, <2>1, <2>2, FailureBlames
  <2>3. CASE /\ Ready
             /\ Continue(r, IF ak # None THEN AfterEnsureAk(r) ELSE "createek", body[r])
    <3>1. /\ pc'[r] \in {"createek", "quote", "readpublic"}
          /\ pc'[r] # "createek" => ak # None
      BY <2>3, ContinueFacts DEF AfterEnsureAk
    <3>2. Ready' /\ ak' = ak
      BY <1>7, <2>3 DEF GetCap, Ready
    <3> QED
      BY <3>1, <3>2 DEF HealthFacts, Quoted
  <2> QED
    BY <1>7, <2>2, <2>3 DEF GetCap
\* A command that loads objects finds room, or its flush failed.
<1>8. CASE CreateEk(r)
  <2>1. pc[r] = "createek" /\ up' = up /\ started' = started
    BY <1>8 DEF CreateEk
  <2>2. PICK f \in flush_transient :
          \/ Fits(f.left, 1) /\ Continue(r, "createak", body[r])
          \/ AkFails(r, Fits(f.left, 1), f.failed)
    BY <1>8 DEF CreateEk
  <2>3. CASE Fits(f.left, 1) /\ Continue(r, "createak", body[r])
    <3>1. pc'[r] = "createak" /\ Ready'
      BY <2>1, <2>3, ContinueFacts DEF Fits, Ready
    <3> QED
      BY <3>1 DEF HealthFacts, Quoted
  <2> QED
    BY <2>2, <2>3, FlushMakesRoom, FailureBlames
<1>9. CASE CreateAk(r)
  <2>1. pc[r] = "createak" /\ up' = up /\ started' = started
    BY <1>9 DEF CreateAk
  <2>2. PICK f \in flush_transient :
          \/ /\ Fits(f.left, 2)
             /\ \E k \in Keys : Continue(r, "evictcontrol", [body[r] EXCEPT !.ctx = k])
          \/ AkFails(r, Fits(f.left, 2), f.failed)
    BY <1>9 DEF CreateAk
  <2>3. ASSUME Fits(f.left, 2), NEW k \in Keys,
               Continue(r, "evictcontrol", [body[r] EXCEPT !.ctx = k])
        PROVE  HealthFacts(r)'
    <3>1. pc'[r] = "evictcontrol" /\ body'[r] = [body[r] EXCEPT !.ctx = k] /\ Ready'
      BY <2>1, <2>3, ContinueFacts DEF Fits, Ready
    <3>2. body'[r].ctx = k /\ k # None
      BY <3>1, NoneAssumption DEF TypeOK, Bodies
    <3> QED
      BY <3>1, <3>2 DEF HealthFacts, Quoted
  <2> QED
    BY <2>2, <2>3, FlushMakesRoom, FailureBlames
<1>10. CASE EvictControl(r)
  <2>1. pc[r] = "evictcontrol" /\ up' = up /\ started' = started
    BY <1>10 DEF EvictControl
  <2>2. PICK f \in flush_transient :
          \/ /\ Fits(f.left, 1) /\ ak' = body[r].ctx
             /\ Continue(r, AfterEnsureAk(r), body[r])
          \/ AkFails(r, Fits(f.left, 1) /\ ak = None, f.failed)
    BY <1>10 DEF EvictControl
  <2>3. CASE /\ Fits(f.left, 1) /\ ak' = body[r].ctx
             /\ Continue(r, AfterEnsureAk(r), body[r])
    <3>1. pc'[r] \in {"quote", "readpublic"} /\ Ready'
      BY <2>1, <2>3, ContinueFacts DEF AfterEnsureAk, Fits, Ready
    <3>2. ak' # None
      BY <2>1, <2>3 DEF HealthFacts
    <3> QED
      BY <3>1, <3>2 DEF HealthFacts
  <2> QED
    BY <2>1, <2>2, <2>3, FlushMakesRoom, FailureBlames
<1>11. CASE CreateQuote(r)
  <2>1. /\ pc[r] = "quote" /\ up' = up /\ started' = started /\ ak' = ak
        /\ ~faulted[r] => ak # None
    BY <1>11 DEF CreateQuote, HealthFacts
  <2>2. PICK f \in flush_transient :
          \/ Fits(f.left, 1) /\ ak # None /\ pc'[r] \in Quoted
          \/ CommandFails(r, Fits(f.left, 1) /\ ak # None, f.failed)
    BY <1>11 DEF CreateQuote, Continue, TypeOK, Quoted
  <2>3. CASE Fits(f.left, 1) /\ ak # None /\ pc'[r] \in Quoted
    BY <2>1, <2>3 DEF HealthFacts, Fits, Ready, Quoted
  <2> QED
    BY <2>1, <2>2, <2>3, FlushMakesRoom, FailureBlames
<1>12. CASE GenerateTdxReport(r)
  <2>1. /\ pc[r] = "tdx" /\ up' = up /\ started' = started /\ ak' = ak
        /\ ~faulted[r] => ak # None /\ Ready
    BY <1>5, <1>12 DEF GenerateTdxReport, HealthFacts, Prepared, Reported, Quoted
  <2>2. \/ \E status : Abort(r, status) /\ Blame(r, TRUE)
        \/ pc'[r] = "readpublic" /\ faulted' = faulted
    BY <1>12 DEF GenerateTdxReport, Continue, TypeOK
  <2>3. CASE pc'[r] = "readpublic" /\ faulted' = faulted
    BY <2>1, <2>3 DEF HealthFacts, Ready
  <2> QED
    BY <1>2, <2>2, <2>3
<1>13. CASE AkPubkey(r)
  <2>1. pc[r] = "readpublic" /\ (~faulted[r] => ak # None)
    BY <1>13 DEF AkPubkey, HealthFacts, Quoted
  <2>2. ASSUME NEW k, k # None, Return(r, "ok", [body[r] EXCEPT !.pubkey = k])
        PROVE  HealthFacts(r)'
    <3> DEFINE b == [[body[r] EXCEPT !.pubkey = k] EXCEPT !.ctx = None]
    <3>1. pc'[r] = "done" /\ reply'[r] = "ok" /\ body'[r] = b
      BY <2>2 DEF Return, TypeOK
    <3>2. b.pubkey = k
      BY DEF TypeOK, Bodies
    <3> QED
      BY <2>2, <3>1, <3>2 DEF HealthFacts, Prepared, Reported, Quoted, EnsureAk
  <2>3. ASSUME NEW f \in flush_transient,
               NEW e \in tpm2_errors(Fits(f.left, 1) /\ ak # None),
               Blame(r, e.injected \/ f.failed), Return(r, "ok", body[r])
        PROVE  HealthFacts(r)'
    <3>1. Fits(f.left, 1) /\ ak # None => e.injected = TRUE
      BY DEF tpm2_errors
    <3>2. faulted'[r] = (faulted[r] \/ e.injected \/ f.failed) /\ pc'[r] = "done"
      BY <2>3 DEF Blame, Return, TypeOK
    <3>3. faulted'[r]
      BY <2>1, <3>1, <3>2, FlushMakesRoom DEF TypeOK
    <3> QED
      BY <3>2, <3>3 DEF HealthFacts
  <2> QED
    BY <1>13, <2>2, <2>3 DEF AkPubkey
<1> QED
    BY <1>1, <1>3, <1>4, <1>6, <1>7, <1>8, <1>9, <1>10, <1>11, <1>12, <1>13 DEF Serve

\* An undisturbed request finds the simulator started and the key persisted.
THEOREM Health == Spec => []HealthInv
<1> DEFINE T == TypeOK /\ MutualExclusion /\ TransactionInv /\ CreatesOnlyWhenEmpty
<1>1. Init => HealthInv
    BY DEF Init, HealthInv, NoSpuriousFailure, Prepared, Reported, Quoted, EnsureAk
<1>2. T /\ HealthInv /\ [Next]_vars => HealthInv'
  <2> SUFFICES ASSUME T, HealthInv, [Next]_vars PROVE HealthInv'
    OBVIOUS
  <2> USE DEF simVars, lockVars, inputVars
  <2> DEFINE Goal == (started => up)' /\ \A q \in Requests : HealthFacts(q)'
  <2>0. (started => up) /\ \A q \in Requests : HealthFacts(q)
    BY DEF HealthInv, NoSpuriousFailure, HealthFacts
  <2>1. SUFFICES Goal
    BY DEF HealthInv, NoSpuriousFailure, HealthFacts
  \* q stays healthy when it does not move, outside the transaction or while
  \* the simulator and its key stay as they are.
  <2>A. ASSUME NEW q \in Requests, pc'[q] = pc[q], body'[q] = body[q], reply'[q] = reply[q],
               faulted[q] => faulted'[q],
               \/ pc[q] \notin Critical
               \/ faulted'[q]
               \/ up' = up /\ started' = started /\ ak' = ak
        PROVE  HealthFacts(q)'
    BY <2>0, <2>A DEF HealthFacts, Ready, Prepared, Reported, Quoted, EnsureAk, Critical
  <2>2. ASSUME NEW r \in Requests, Submit(r) \/ Reject(r) PROVE Goal
    <3>1. HealthFacts(r)'
      BY <2>2 DEF Submit, Reject, TypeOK, HealthFacts, Prepared, Reported, Quoted, EnsureAk
    <3> QED
      BY <2>0, <2>2, <2>A, <3>1 DEF Submit, Reject, TypeOK
  <2>3. ASSUME NEW r \in Requests, Serve(r) PROVE Goal
    <3>1. (started => up)'
      <4>1. up' = up /\ (started' = started \/ up)
        <5>1. CASE Lock(r) \/ NewScratch(r) \/ MeasureFolder(r) \/ EnsureReady(r)
                   \/ ResetPcr(r) \/ ExtendPcr(r) \/ ReadPcr(r) \/ GetCap(r)
          BY <5>1 DEF Lock, NewScratch, MeasureFolder, EnsureReady, ResetPcr, ExtendPcr,
                      ReadPcr, GetCap
        <5>2. CASE CreateEk(r) \/ CreateAk(r) \/ EvictControl(r) \/ CreateQuote(r)
                   \/ GenerateTdxReport(r) \/ AkPubkey(r)
          BY <5>2 DEF CreateEk, CreateAk, EvictControl, CreateQuote, GenerateTdxReport,
                      AkPubkey
        <5> QED
          BY <2>3, <5>1, <5>2 DEF Serve
      <4> QED
        BY <2>0, <4>1
    <3>2. HealthFacts(r)'
      BY <2>0, <2>3, ServeHealth DEF CreatesOnlyWhenEmpty
    <3>3. ASSUME NEW q \in Requests \ {r} PROVE HealthFacts(q)'
      <4>1. pc[q] \notin Critical
        <5>1. CASE Lock(r)
          BY <5>1, NoneAssumption DEF Lock, MutualExclusion
        <5>2. CASE pc[r] \in Critical
          BY <5>2 DEF MutualExclusion
        <5> QED
          BY <2>3, <5>1, <5>2, ServeFrame
      <4> QED
        BY <2>3, <2>A, <4>1, ServeFrame, ServeBlame
    <3> QED
      BY <3>1, <3>2, <3>3
  <2>4. ASSUME NEW r \in Requests, Panic(r) PROVE Goal
    <3>1. HealthFacts(r)'
      BY <2>4 DEF Panic, Blame, TypeOK, HealthFacts
    <3> QED
      BY <2>0, <2>4, <2>A, <3>1 DEF Panic, Blame, TypeOK
  <2>5. CASE SimStop
    <3>1. ASSUME NEW q \in Requests PROVE HealthFacts(q)'
      <4>1. pc[q] \notin Critical \/ faulted'[q]
        BY <2>5 DEF SimStop, Disturb, MutualExclusion
      <4>2. faulted[q] => faulted'[q]
        BY <2>5 DEF SimStop, Disturb
      <4> QED
        BY <2>5, <2>A, <4>1, <4>2 DEF SimStop
    <3> QED
      BY <2>5, <3>1 DEF SimStop
  \* A simulator that is powered on was off: no undisturbed request relies on it.
  <2>6. CASE SimStart \/ Remanufacture
    <3>1. ~up /\ up' /\ UNCHANGED <<pc, body, reply, faulted>>
      BY <2>6 DEF SimStart, Remanufacture
    <3>2. ASSUME NEW q \in Requests PROVE HealthFacts(q)'
      BY <2>0, <3>1 DEF HealthFacts, Ready, Prepared, Reported
    <3> QED
      BY <3>1, <3>2
  <2>7. CASE Crash
    <3>1. ASSUME NEW q \in Requests PROVE HealthFacts(q)'
      <4>1. CASE InFlight(q)
        BY <2>7, <4>1 DEF Crash, HealthFacts, Prepared, Reported, Quoted, EnsureAk
      <4> QED
        BY <2>7, <2>A, <4>1 DEF Crash
    <3> QED
      BY <2>0, <2>7, <3>1 DEF Crash
  <2>8. CASE UNCHANGED vars
    BY <2>0, <2>8, <2>A DEF vars
  <2> QED
    BY <2>2, <2>3, <2>4, <2>5, <2>6, <2>7, <2>8 DEF Next
<1> QED
  BY <1>1, <1>2, TypeCorrect, Exclusion, Transaction, NoKeyIsReplaced, PTL DEF Spec

\* A request fails, or is answered without the public key, only when one of its
\* own tools failed or the simulator stopped under it: what earlier requests,
\* panics, crashes and restarts left behind is always repaired.
THEOREM OnlyFaultsFail == Spec => []NoSpuriousFailure
<1>1. HealthInv => NoSpuriousFailure
    BY DEF HealthInv
<1> QED
  BY <1>1, Health, PTL

-----------------------------------------------------------------------------
(* How a step of a handler can end *)

\* The request is still being served.
Unfinished(r) == pc'[r] \notin {"idle", "done"}

\* It is answered with an error that carries nothing.
Refused(r) ==
    /\ pc'[r] = "done" /\ body'[r] = NoBody
    /\ reply'[r] \in Replies \ {"none", "ok"}

\* It is answered, with the persisted key only.
Served(r) ==
    /\ pc'[r] = "done" /\ reply'[r] = "ok"
    /\ body'[r].ctx = None
    /\ body'[r].pubkey \in {ak, None}
    /\ kind[r] # "information" => body'[r].quote.key = ak

Outcome(r) == Unfinished(r) \/ Refused(r) \/ Served(r)

\* A handler that goes on is still serving.
LEMMA ContinueOutcome ==
    ASSUME TypeOK, NEW r \in Requests, NEW l, NEW b, Continue(r, l, b), l \notin {"idle", "done"}
    PROVE  Outcome(r)
    BY ContinueFacts DEF Outcome, Unfinished

\* An error refuses the request.
LEMMA AbortOutcome ==
    ASSUME TypeOK, NEW r \in Requests, NEW status \in Replies \ {"none", "ok"}, Abort(r, status)
    PROVE  Outcome(r)
<1>1. [NoBody EXCEPT !.ctx = None] = NoBody
    BY DEF NoBody
<1> QED
    BY <1>1 DEF Abort, Return, TypeOK, Outcome, Refused

\* A failing command refuses it.
LEMMA CommandFailsOutcome ==
    ASSUME TypeOK, NEW r \in Requests, NEW works, NEW excused,
           CommandFails(r, works, excused)
    PROVE  Outcome(r)
<1>1. PICK e \in tpm2_errors(works) : Abort(r, e.status)
    BY DEF CommandFails
<1>2. e.status \in Replies \ {"none", "ok"}
    BY DEF tpm2_errors, Replies, Errors
<1> QED
    BY <1>1, <1>2, AbortOutcome

\* What is returned keeps its parts, without the context file.
LEMMA ReturnOutcome ==
    ASSUME TypeOK, NEW r \in Requests, NEW b \in Bodies, Return(r, "ok", b),
           b.pubkey \in {ak, None},
           kind[r] # "information" => b.quote.key = ak
    PROVE  Outcome(r)
<1> DEFINE c == [b EXCEPT !.ctx = None]
<1>1. c.ctx = None /\ c.pubkey = b.pubkey /\ c.quote = b.quote
    BY DEF Bodies
<1>2. pc'[r] = "done" /\ reply'[r] = "ok" /\ body'[r] = c
    BY DEF Return, TypeOK
<1> QED
    BY <1>1, <1>2 DEF Outcome, Served

\* A failing ensure_ak refuses the request, or answers it without a key.
LEMMA AkFailsOutcome ==
    ASSUME TypeOK, NEW r \in Requests, NEW works, NEW excused, BodyStage(r),
           pc[r] \in EnsureAk, AkFails(r, works, excused)
    PROVE  Outcome(r)
<1>1. PICK e \in tpm2_errors(works) :
          \/ kind[r] = "information" /\ Return(r, "ok", body[r])
          \/ Abort(r, e.status)
    BY DEF AkFails
<1>2. e.status \in Replies \ {"none", "ok"}
    BY DEF tpm2_errors, Replies, Errors
<1>3. body[r] \in Bodies /\ body[r].pubkey = None
    BY DEF TypeOK, BodyStage, Measured, Prepared, Reported
<1> QED
    BY <1>1, <1>2, <1>3, AbortOutcome, ReturnOutcome

\* Every step of a handler ends in one of the three ways.
LEMMA ServeOutcome ==
    ASSUME TypeOK, NEW r \in Requests, Serve(r), BodyStage(r), KeyFacts(r),
           cache # None => cache = ak
    PROVE  Outcome(r)
<1> USE DEF EnsureAk
<1>1. CASE Lock(r)
    BY <1>1 DEF Lock, TypeOK, Outcome, Unfinished
<1>a. ASSUME NEW l \in Critical, NEW b, Continue(r, l, b)
      PROVE  Outcome(r)
    BY <1>a, ContinueOutcome DEF Critical
<1>b. ASSUME NEW status \in {"internal", "not_implemented"}, Abort(r, status)
      PROVE  Outcome(r)
    BY <1>b, AbortOutcome DEF Replies, Errors
<1>c. ASSUME NEW works, NEW excused, AkFails(r, works, excused), pc[r] \in EnsureAk
      PROVE  Outcome(r)
    BY <1>c, AkFailsOutcome
<1>2. CASE NewScratch(r)
    BY <1>2, <1>a, <1>b DEF NewScratch, Critical
<1>3. CASE MeasureFolder(r)
    BY <1>3, <1>a, <1>b DEF MeasureFolder, Critical
<1>4. CASE EnsureReady(r)
    BY <1>4, <1>a, <1>b DEF EnsureReady, Critical
<1>5. CASE ResetPcr(r) \/ ExtendPcr(r) \/ ReadPcr(r)
    BY <1>5, <1>a, CommandFailsOutcome DEF ResetPcr, ExtendPcr, ReadPcr, Critical
<1>6. CASE GetCap(r)
  <2>1. (IF ak # None THEN AfterEnsureAk(r) ELSE "createek") \in Critical
    BY DEF AfterEnsureAk, Critical
  <2>2. CASE Continue(r, IF ak # None THEN AfterEnsureAk(r) ELSE "createek", body[r])
    BY <1>a, <2>1, <2>2
  <2> QED
    BY <1>6, <1>c, <2>2 DEF GetCap
<1>7. CASE CreateEk(r)
    BY <1>7, <1>a, <1>c DEF CreateEk, Critical
<1>8. CASE CreateAk(r)
    BY <1>8, <1>a, <1>c DEF CreateAk, Critical
<1>10. CASE EvictControl(r)
  <2>1. AfterEnsureAk(r) \in Critical
    BY DEF AfterEnsureAk, Critical
  <2>2. CASE Continue(r, AfterEnsureAk(r), body[r])
    BY <1>a, <2>1, <2>2
  <2> QED
    BY <1>10, <1>c, <2>2 DEF EvictControl
<1>11. CASE CreateQuote(r)
  <2>1. (IF kind[r] = "all" THEN "tdx" ELSE "readpublic") \in Critical
    BY DEF Critical
  <2>2. ASSUME NEW b, Continue(r, IF kind[r] = "all" THEN "tdx" ELSE "readpublic", b)
        PROVE  Outcome(r)
    BY <1>a, <2>1, <2>2
  <2> QED
    BY <1>11, <2>2, CommandFailsOutcome DEF CreateQuote
<1>12. CASE GenerateTdxReport(r)
    BY <1>12, <1>a, <1>b DEF GenerateTdxReport, Critical
<1>9. CASE AkPubkey(r)
  <2>1. /\ pc[r] = "readpublic" /\ body[r] \in Bodies /\ body[r].pubkey = None
        /\ kind[r] # "information" => body[r].quote.key = ak
    BY <1>9 DEF AkPubkey, TypeOK, BodyStage, KeyFacts, Measured, Prepared, Reported, Quoted
  <2>2. \/ Return(r, "ok", [body[r] EXCEPT !.pubkey = ak])
        \/ Return(r, "ok", body[r])
    BY <1>9 DEF AkPubkey
  <2>3. /\ [body[r] EXCEPT !.pubkey = ak] \in Bodies
        /\ [body[r] EXCEPT !.pubkey = ak].pubkey = ak
        /\ [body[r] EXCEPT !.pubkey = ak].quote = body[r].quote
    BY <2>1 DEF Bodies, TypeOK
  <2> QED
    BY <2>1, <2>2, <2>3, ReturnOutcome
<1> QED
    BY <1>1, <1>2, <1>3, <1>4, <1>5, <1>6, <1>7, <1>8, <1>9, <1>10, <1>11, <1>12 DEF Serve

\* No step of a handler makes its request idle.
LEMMA ServeNotIdle ==
    ASSUME TypeOK, NEW r \in Requests, Serve(r)
    PROVE  pc'[r] # "idle"
<1>1. CASE Lock(r)
    BY <1>1 DEF Lock, TypeOK
<1>2. ASSUME NEW l, NEW b, Continue(r, l, b), l # "idle"
      PROVE  pc'[r] # "idle"
    BY <1>2, ContinueFacts
<1>3. ASSUME NEW status, NEW b, Return(r, status, b)
      PROVE  pc'[r] # "idle"
    BY <1>3 DEF Return, TypeOK
<1> USE DEF CommandFails, AkFails, Abort
<1>4. CASE NewScratch(r) \/ MeasureFolder(r) \/ EnsureReady(r) \/ GenerateTdxReport(r)
    BY <1>2, <1>3, <1>4 DEF NewScratch, MeasureFolder, EnsureReady, GenerateTdxReport
<1>5. CASE ResetPcr(r) \/ ExtendPcr(r) \/ ReadPcr(r) \/ GetCap(r)
    BY <1>2, <1>3, <1>5 DEF ResetPcr, ExtendPcr, ReadPcr, GetCap, AfterEnsureAk
<1>6. CASE CreateEk(r) \/ CreateAk(r)
    BY <1>2, <1>3, <1>6 DEF CreateEk, CreateAk
<1>7. CASE EvictControl(r) \/ CreateQuote(r) \/ AkPubkey(r)
    BY <1>2, <1>3, <1>7 DEF EvictControl, CreateQuote, AkPubkey, AfterEnsureAk
<1> QED
    BY <1>1, <1>4, <1>5, <1>6, <1>7 DEF Serve

-----------------------------------------------------------------------------
(* What the mapping needs besides the invariants of the transaction *)

\* A request that has not come in yet has no challenge.
IdleInv == \A r \in Requests : pc[r] = "idle" => nonce[r] = None

\* Only Submit gives a request its challenge.
THEOREM IdleHasNoChallenge == Spec => []IdleInv
<1>1. Init => IdleInv
    BY DEF Init, IdleInv
<1>2. TypeOK /\ IdleInv /\ [Next]_vars => IdleInv'
  <2> SUFFICES ASSUME TypeOK, IdleInv, [Next]_vars PROVE IdleInv'
    OBVIOUS
  <2>1. ASSUME NEW r \in Requests, Submit(r) \/ Reject(r) PROVE IdleInv'
    BY <2>1 DEF Submit, Reject, TypeOK, IdleInv
  <2>2. ASSUME NEW r \in Requests, Serve(r) PROVE IdleInv'
    <3>1. nonce' = nonce /\ \A q \in Requests \ {r} : pc'[q] = pc[q]
      BY <2>2, ServeFrame
    <3> QED
      BY <2>2, <3>1, ServeNotIdle DEF IdleInv
  <2>3. ASSUME NEW r \in Requests, Panic(r) PROVE IdleInv'
    BY <2>3 DEF Panic, TypeOK, IdleInv, inputVars
  <2>4. CASE SimStop \/ SimStart \/ Remanufacture \/ UNCHANGED vars
    BY <2>4 DEF SimStop, SimStart, Remanufacture, vars, inputVars, IdleInv
  <2>5. CASE Crash
    BY <2>5 DEF Crash, InFlight, inputVars, IdleInv
  <2> QED
    BY <2>1, <2>2, <2>3, <2>4, <2>5 DEF Next
<1> QED
  BY <1>1, <1>2, TypeCorrect, PTL DEF Spec

-----------------------------------------------------------------------------
(* The steps of the transaction are steps of the attester *)

\* The initial states map to initial states.
LEMMA InitRefines ==
    ASSUME Init
    PROVE  Abstract!Init
    BY DEF Init, Abstract!Init, Asked, Answers, Unanswered, Abstract!Unanswered,
           NoBody, Abstract!NoBody, NoQuote, Abstract!NoQuote

\* Both levels use the same constants.
LEMMA SameData ==
    /\ Abstract!NoBody = NoBody
    /\ Abstract!NoQuote = NoQuote
    /\ Abstract!Unanswered = Unanswered
    /\ Abstract!Replies = Replies
    /\ Abstract!Kinds = Kinds
    /\ \A n : Abstract!report_data_from(n) = report_data_from(n)
    BY DEF Abstract!NoBody, NoBody, Abstract!NoQuote, NoQuote, Abstract!Unanswered, Unanswered,
           Abstract!Replies, Replies, Abstract!Errors, Errors, Abstract!Kinds, Kinds,
           Abstract!report_data_from, report_data_from

\* A request that is being served is pending.
LEMMA InFlightPending ==
    ASSUME NEW r \in Requests, InFlight(r)
    PROVE  Abstract!Pending(r)
    BY SameData DEF Abstract!Pending, InFlight, Critical, EnsureAk, Asked, Answers

\* A step that moves no request but r changes at most the response of r.
LEMMA OnlyOneAnswer ==
    ASSUME NEW r \in Requests,
           \A q \in Requests \ {r} :
               pc'[q] = pc[q] /\ body'[q] = body[q] /\ reply'[q] = reply[q]
    PROVE  /\ Answers' = [Answers EXCEPT ![r] = Answers'[r]]
           /\ Asked' = [Asked EXCEPT ![r] = Asked'[r]]
<1>1. ASSUME NEW q \in Requests \ {r}
      PROVE  Answers'[q] = Answers[q] /\ Asked'[q] = Asked[q]
    BY DEF Answers, Asked
<1>2. /\ Answers' = [q \in Requests |-> Answers'[q]]
      /\ Asked' = [q \in Requests |-> Asked'[q]]
    BY DEF Answers, Asked
<1>3. /\ Answers = [q \in Requests |-> Answers[q]]
      /\ Asked = [q \in Requests |-> Asked[q]]
    BY DEF Answers, Asked
<1> HIDE DEF Answers, Asked
<1> QED
    BY <1>1, <1>2, <1>3

\* A step of the handler of r keeps the persisted key, or persists the first.
LEMMA ServeKeyStays ==
    ASSUME TypeOK, TypeOK', NEW r \in Requests, Serve(r)
    PROVE  Abstract!KeyStays
<1>1. ak' = ak \/ ak = None
    BY ServeKeys
<1>2. ak' \in Keys \cup {None}
    BY DEF TypeOK
<1> QED
    BY <1>1, <1>2 DEF Abstract!KeyStays

\* A request that comes in is asked, and refused at once when it is malformed.
LEMMA AskRefines ==
    ASSUME TypeOK, IdleInv, NEW r \in Requests, BodyStage(r), Submit(r) \/ Reject(r)
    PROVE  Abstract!Ask(r)
<1>1. /\ Answers' = [Answers EXCEPT ![r] = Answers'[r]]
      /\ Asked' = [Asked EXCEPT ![r] = Asked'[r]]
    BY OnlyOneAnswer DEF Submit, Reject, TypeOK
<1>2. pc[r] = "idle" /\ nonce[r] = None /\ body[r] = NoBody /\ body'[r] = NoBody /\ ak' = ak
    BY DEF Submit, Reject, IdleInv, BodyStage, simVars
<1>3. ~Asked[r] /\ Asked'[r] /\ Answers[r] = Unanswered
    BY <1>2 DEF Asked, Answers, Submit, Reject, TypeOK
<1>4. Asked' = [Asked EXCEPT ![r] = TRUE]
  <2>1. Asked'[r] = TRUE
    BY <1>3 DEF Asked
  <2> QED
    BY <1>1, <2>1
<1>5. \E k \in Kinds, n \in Challenges \cup {None} :
          kind' = [kind EXCEPT ![r] = k] /\ nonce' = [nonce EXCEPT ![r] = n]
  <2>1. nonce = [nonce EXCEPT ![r] = None]
    BY <1>2 DEF TypeOK
  <2> QED
    BY <2>1 DEF Submit, Reject, Kinds
<1>6. CASE Submit(r)
  <2>1. Answers'[r] = Unanswered
    BY <1>6 DEF Submit, TypeOK, Answers
  <2>2. Answers' = Answers
    <3>1. Answers = [q \in Requests |-> Answers[q]]
      BY DEF Answers
    <3>2. Answers' = [Answers EXCEPT ![r] = Answers[r]]
      BY <1>1, <1>3, <2>1
    <3> QED
      BY <3>1, <3>2
  <2> QED
    BY <1>2, <1>3, <1>4, <1>5, <2>2, SameData DEF Abstract!Ask
<1>7. CASE Reject(r)
  <2>1. Answers'[r] = [status |-> "bad_request", body |-> NoBody]
    BY <1>2, <1>7 DEF Reject, TypeOK, Answers
  <2> QED
    BY <1>1, <1>2, <1>3, <1>4, <1>5, <2>1, SameData DEF Abstract!Ask
<1> QED
    BY <1>6, <1>7

\* Requests in flight that end with the same error are refused together.
LEMMA RefuseRefines ==
    ASSUME NEW S \in SUBSET Requests, NEW status \in Replies \ {"none", "ok"},
           \A r \in S : InFlight(r) /\ Answers'[r] = [status |-> status, body |-> NoBody],
           \A r \in Requests \ S : Answers'[r] = Answers[r],
           Asked' = Asked, UNCHANGED <<kind, nonce>>, Abstract!KeyStays
    PROVE  Abstract!Refuse
<1>1. \A r \in S : Abstract!Pending(r)
    BY InFlightPending
<1>2. Answers' = [r \in Requests |-> Answers'[r]]
    BY DEF Answers
<1>3. Answers' = [r \in Requests |->
          IF r \in S THEN [status |-> status, body |-> NoBody] ELSE Answers[r]]
    BY <1>2
<1> QED
    BY <1>1, <1>3, SameData DEF Abstract!Refuse

\* A handler that returns with evidence attests: what Consistent demands, and
\* the persisted key, leave no other response.
LEMMA AttestRefines ==
    ASSUME TypeOK, TypeOK', NEW r \in Requests, Served(r), InFlight(r),
           Consistent(kind[r], nonce[r], reply'[r], body'[r]),
           Answers' = [Answers EXCEPT ![r] = Answers'[r]],
           Asked' = Asked, UNCHANGED <<kind, nonce>>, Abstract!KeyStays
    PROVE  Abstract!Attest(r)
<1> DEFINE b == body'[r]
           d == b.total
<1>1. /\ b \in Bodies /\ d \in Digests
      /\ b.value = <<d>> /\ b.ctx = None /\ b.pubkey \in {ak, None}
      /\ IF kind[r] = "information" THEN b.quote = NoQuote
         ELSE b.quote.pcr = <<d>> /\ b.quote.nonce = nonce[r] /\ b.quote.key = ak /\ ak # None
      /\ b.tdx = IF kind[r] = "all" THEN report_data_from(nonce[r]) ELSE None
    BY DEF TypeOK, Served, Consistent, Bodies
<1>2. b.quote = IF kind[r] = "information" THEN NoQuote
                ELSE [pcr |-> <<d>>, nonce |-> nonce[r], key |-> ak]
    BY <1>1 DEF Bodies, Quotes
<1>3. b = [total |-> d, value |-> b.value, ctx |-> b.ctx,
           quote |-> b.quote, tdx |-> b.tdx, pubkey |-> b.pubkey]
    BY <1>1 DEF Bodies
<1>4. b = Abstract!Response(r, d, b.pubkey)
    BY <1>1, <1>2, <1>3, SameData DEF Abstract!Response
<1>5. Answers'[r] = [status |-> "ok", body |-> b]
    BY DEF Served, Answers
<1> QED
    BY <1>1, <1>4, <1>5, InFlightPending DEF Abstract!Attest

\* A step of a handler is invisible, provisions the key, refuses or attests.
LEMMA ServeRefines ==
    ASSUME TypeOK, TypeOK', NEW r \in Requests, Serve(r), BodyStage(r), KeyFacts(r),
           cache # None => cache = ak,
           (pc[r] = "done" => Consistent(kind[r], nonce[r], reply[r], body[r]))'
    PROVE  [Abstract!Next]_(Abstract!attesterVars)
<1>1. /\ kind' = kind /\ nonce' = nonce
      /\ Answers' = [Answers EXCEPT ![r] = Answers'[r]]
      /\ Asked' = [Asked EXCEPT ![r] = Asked'[r]]
    BY ServeFrame, OnlyOneAnswer
<1>2. InFlight(r)
    BY ServeFrame DEF InFlight, Lock
<1>3. Asked' = Asked
  <2>1. Asked[r] = TRUE /\ Asked'[r] = TRUE
    BY <1>2, ServeNotIdle DEF Asked, InFlight, Critical, EnsureAk
  <2> QED
    BY <1>1, <2>1 DEF Asked
<1>4. Abstract!KeyStays
    BY ServeKeyStays
<1>5. CASE Unfinished(r)
  <2>1. Answers[r] = Unanswered /\ Answers'[r] = Unanswered
    BY <1>2, <1>5 DEF Unfinished, Answers, InFlight, Critical, EnsureAk
  <2>2. Answers' = Answers
    <3>1. Answers = [q \in Requests |-> Answers[q]]
      BY DEF Answers
    <3>2. Answers' = [Answers EXCEPT ![r] = Answers[r]]
      BY <1>1, <2>1
    <3> QED
      BY <3>1, <3>2
  <2>3. CASE ak' = ak
    BY <1>1, <1>3, <2>2, <2>3 DEF Abstract!attesterVars
  <2>4. CASE ak = None /\ ak' \in Keys
    BY <1>1, <1>3, <2>2, <2>4 DEF Abstract!Next, Abstract!Provision
  <2> QED
    BY <1>4, <2>3, <2>4 DEF Abstract!KeyStays
<1>6. CASE Refused(r)
  <2> DEFINE S == {r}
  <2>1. \A q \in Requests \ S : Answers'[q] = Answers[q]
    BY <1>1 DEF Answers
  <2>2. PICK status \in Replies \ {"none", "ok"} : status = reply'[r]
    BY <1>6 DEF Refused
  <2>3. \A q \in S : InFlight(q) /\ Answers'[q] = [status |-> status, body |-> NoBody]
    BY <1>2, <1>6, <2>2 DEF Refused, Answers
  <2>5. S \in SUBSET Requests
    OBVIOUS
  <2> HIDE DEF S
  <2>4. Abstract!Refuse
    BY <1>1, <1>3, <1>4, <2>1, <2>3, <2>5, RefuseRefines
  <2> QED
    BY <2>4 DEF Abstract!Next
<1>7. CASE Served(r)
  <2>1. Consistent(kind[r], nonce[r], reply'[r], body'[r])
    BY <1>1, <1>7 DEF Served
  <2>2. Abstract!Attest(r)
    BY <1>1, <1>2, <1>3, <1>4, <1>7, <2>1, AttestRefines
  <2> QED
    BY <2>2 DEF Abstract!Next
<1> QED
    BY <1>5, <1>6, <1>7, ServeOutcome DEF Outcome

\* A panic refuses its request.
LEMMA PanicRefines ==
    ASSUME TypeOK, NEW r \in Requests, Panic(r)
    PROVE  Abstract!Refuse
<1>1. Asked' = Asked
    BY DEF Panic, Asked, TypeOK, Critical, EnsureAk
<1> DEFINE S == {r}
<1>2. \A q \in S : InFlight(q) /\ Answers'[q] = [status |-> "internal", body |-> NoBody]
    BY DEF Panic, InFlight, Answers, TypeOK
<1>3. \A q \in Requests \ S : Answers'[q] = Answers[q]
    BY DEF Panic, Answers, TypeOK
<1>4. Abstract!KeyStays /\ UNCHANGED <<kind, nonce>>
    BY DEF Panic, Abstract!KeyStays, simVars, inputVars
<1>5. "internal" \in Replies \ {"none", "ok"}
    BY DEF Replies, Errors
<1>6. S \in SUBSET Requests
    OBVIOUS
<1> HIDE DEF S
<1> QED
    BY <1>1, <1>2, <1>3, <1>4, <1>5, <1>6, RefuseRefines

\* A crash of the server loses the requests in flight, all at once.
LEMMA CrashRefines ==
    ASSUME Crash
    PROVE  Abstract!Refuse
<1> DEFINE S == {r \in Requests : InFlight(r)}
<1>1. Asked' = Asked
    BY DEF Crash, Asked, InFlight, Critical, EnsureAk
<1>2. \A r \in S : InFlight(r) /\ Answers'[r] = [status |-> "lost", body |-> NoBody]
    BY DEF Crash, Answers
<1>3. \A r \in Requests \ S : Answers'[r] = Answers[r]
    BY DEF Crash, Answers
<1>4. Abstract!KeyStays /\ UNCHANGED <<kind, nonce>>
    BY DEF Crash, Abstract!KeyStays, simVars, inputVars
<1>5. "lost" \in Replies \ {"none", "ok"}
    BY DEF Replies, Errors
<1>6. S \in SUBSET Requests
    OBVIOUS
<1> QED
    BY <1>1, <1>2, <1>3, <1>4, <1>5, <1>6, RefuseRefines

\* While the simulator keeps its NV state, the lock-protected sequence of tool
\* processes implements the atomic attester: every response appears in one
\* step, complete, signed by the one key the service provisions, and stays.
THEOREM Refinement == ~Remanufacturing => (Spec => ImplementsAttester)
<1> SUFFICES ASSUME ~Remanufacturing PROVE Spec => ImplementsAttester
    OBVIOUS
<1> DEFINE I == TypeOK /\ TransactionInv /\ IdleInv /\ OneKeyInv
<1>1. Init => Abstract!Init
    BY InitRefines
<1>2. I /\ I' /\ [Next]_vars => [Abstract!Next]_(Abstract!attesterVars)
  <2> SUFFICES ASSUME I, I', [Next]_vars
               PROVE  [Abstract!Next]_(Abstract!attesterVars)
    OBVIOUS
  <2>1. ASSUME NEW r \in Requests, Submit(r) \/ Reject(r)
        PROVE  Abstract!Next
    <3>1. Abstract!Ask(r)
      BY <2>1, AskRefines DEF TransactionInv
    <3> QED
      BY <3>1 DEF Abstract!Next
  <2>2. ASSUME NEW r \in Requests, Serve(r)
        PROVE  [Abstract!Next]_(Abstract!attesterVars)
    <3>1. BodyStage(r) /\ KeyFacts(r) /\ (cache # None => cache = ak)
      BY DEF TransactionInv, OneKeyInv
    <3>2. (pc[r] = "done" => Consistent(kind[r], nonce[r], reply[r], body[r]))'
      BY DEF TransactionInv, EvidenceConsistent
    <3> QED
      BY <2>2, <3>1, <3>2, ServeRefines
  <2>3. ASSUME NEW r \in Requests, Panic(r)
        PROVE  Abstract!Next
    BY <2>3, PanicRefines DEF Abstract!Next
  <2>4. CASE Crash
    BY <2>4, CrashRefines DEF Abstract!Next
  \* The environment and stuttering change nothing the attester knows of.
  <2>5. CASE SimStop \/ SimStart \/ UNCHANGED vars
    <3>1. UNCHANGED <<ak, kind, nonce, pc, body, reply>>
      BY <2>5 DEF SimStop, SimStart, vars, simVars, inputVars
    <3>2. Asked' = Asked /\ Answers' = Answers
      BY <3>1 DEF Asked, Answers
    <3> QED
      BY <3>1, <3>2 DEF Abstract!attesterVars
  <2>6. ~Remanufacture
    BY DEF Remanufacture
  <2> QED
    BY <2>1, <2>2, <2>3, <2>4, <2>5, <2>6 DEF Next
<1>3. Spec => []I
    BY TypeCorrect, Transaction, OneKey, IdleHasNoChallenge, PTL
<1> QED
  BY <1>1, <1>2, <1>3, PTL DEF Spec, ImplementsAttester, Abstract!Spec

-----------------------------------------------------------------------------
(* A command that outlives its server *)

\* A late command carries what its transaction had computed.
OrphanTypes ==
    \A o \in orphans :
        /\ o.ctx \in Keys \cup {None}
        /\ o.op = "pcrextend" => o.total \in Digests

\* The transaction invariant, for the requests no late command fell into.
OrphanInv ==
    /\ TypeOK /\ HasChallenge /\ MeasuredFirst /\ MutualExclusion
    /\ OrphanTypes
    /\ \A r \in Requests \ disturbed : RequestInv(r)

\* The server's own steps keep the invariant: they do not touch a command
\* that is under way.
LEMMA ServerStep ==
    ASSUME OrphanInv, [Next]_vars, UNCHANGED disturbed
    PROVE  /\ (TypeOK /\ HasChallenge /\ MeasuredFirst /\ MutualExclusion)'
           /\ \A r \in Requests \ disturbed' : RequestInv(r)'
    BY NextTypes, NextExcludes, NextRequestInv DEF OrphanInv

\* A command that outlives its server comes from a transaction.
LEMMA CrashOrphansTypes ==
    ASSUME OrphanInv, CrashOrphans
    PROVE  OrphanTypes'
<1>1. PICK r \in Requests :
        /\ pc[r] \in Lasting
        /\ orphans' = orphans \cup
              {[op |-> pc[r], total |-> body[r].total, ctx |-> body[r].ctx]}
    BY DEF CrashOrphans
<1>2. body[r].ctx \in Keys \cup {None} /\ (pc[r] = "pcrextend" => body[r].total \in Digests)
    BY DEF OrphanInv, TypeOK, MeasuredFirst, Bodies
<1> QED
    BY <1>1, <1>2 DEF OrphanInv, OrphanTypes

\* A late command keeps the types of the simulator's state.
LEMMA OrphanLandsTypes ==
    ASSUME OrphanInv, NEW o \in orphans, OrphanLands(o)
    PROVE  (TypeOK /\ HasChallenge /\ MeasuredFirst /\ MutualExclusion /\ OrphanTypes)'
<1> USE DEF OrphanInv, inputVars, lockVars
<1>1. pcr' \in Seq(Digests)
  <2>1. \/ pcr' = <<>> \/ pcr' = pcr
        \/ o.op = "pcrextend" /\ pcr' = Append(pcr, o.total)
    BY DEF OrphanLands
  <2>2. o.op = "pcrextend" => o.total \in Digests
    BY DEF OrphanTypes
  <2>3. pcr \in Seq(Digests)
    BY DEF TypeOK
  <2>4. ASSUME NEW d \in Digests PROVE Append(pcr, d) \in Seq(Digests)
    BY <2>3
  <2> QED
    BY <2>1, <2>2, <2>3, <2>4, PcrTypes
<1>2. ak' \in Keys \cup {None} /\ slots' \in 0..MaxSlots
    BY SlotsAssumption DEF OrphanLands, OrphanTypes, TypeOK, Fits
<1>3. TypeOK'
    BY <1>1, <1>2 DEF OrphanLands, TypeOK
<1>4. (HasChallenge /\ MeasuredFirst /\ MutualExclusion)'
    BY DEF OrphanLands, HasChallenge, MeasuredFirst, MutualExclusion, InFlight
<1>5. OrphanTypes'
    BY DEF OrphanLands, OrphanTypes
<1> QED
    BY <1>3, <1>4, <1>5

\* It spoils at most the transaction of the request that holds the lock.
LEMMA OrphanLandsRequests ==
    ASSUME OrphanInv, NEW o \in orphans, OrphanLands(o), NEW r \in Requests \ disturbed'
    PROVE  RequestInv(r)'
<1>1. r \notin disturbed /\ r # holder
    BY NoneAssumption DEF OrphanLands
<1>2. RequestInv(r) /\ pc[r] \notin Critical
    BY <1>1 DEF OrphanInv, MutualExclusion
<1> QED
    BY <1>2, RequestStays DEF OrphanLands, inputVars

\* With late commands, every reachable state is well-typed, the lock is still
\* exclusive and every undisturbed transaction is intact.
THEOREM OrphanInvariance == OrphanSpec => []OrphanInv
<1>1. OrphanInit => OrphanInv
  <2> SUFFICES ASSUME OrphanInit PROVE OrphanInv
    OBVIOUS
  <2>1. TypeOK /\ HasChallenge /\ MeasuredFirst
    BY InitTypes DEF OrphanInit
  <2>2. MutualExclusion /\ OrphanTypes
    BY DEF OrphanInit, Init, MutualExclusion, Critical, EnsureAk, OrphanTypes
  <2>3. \A r \in Requests : RequestInv(r)
    BY InitRequestInv DEF OrphanInit
  <2> QED
    BY <2>1, <2>2, <2>3 DEF OrphanInv
<1>2. OrphanInv /\ [OrphanNext]_allVars => OrphanInv'
  <2> SUFFICES ASSUME OrphanInv, [OrphanNext]_allVars PROVE OrphanInv'
    OBVIOUS
  <2>1. CASE (Next /\ UNCHANGED orphanVars) \/ UNCHANGED allVars
    <3>1. [Next]_vars /\ UNCHANGED <<orphans, disturbed>>
      BY <2>1 DEF orphanVars, allVars
    <3>2. OrphanTypes'
      BY <3>1 DEF OrphanInv, OrphanTypes
    <3> QED
      BY <3>1, <3>2, ServerStep DEF OrphanInv
  <2>2. CASE CrashOrphans
    <3>1. [Next]_vars /\ UNCHANGED disturbed
      BY <2>2 DEF CrashOrphans, Next
    <3> QED
      BY <2>2, <3>1, ServerStep, CrashOrphansTypes DEF OrphanInv
  <2>3. ASSUME NEW o \in orphans, OrphanLands(o) PROVE OrphanInv'
    BY <2>3, OrphanLandsTypes, OrphanLandsRequests DEF OrphanInv
  <2> QED
    BY <2>1, <2>2, <2>3 DEF OrphanNext
<1> QED
  BY <1>1, <1>2, PTL DEF OrphanSpec

\* A command that outlives its server spoils at most the responses of the
\* requests it fell into: each transaction resets the PCR before using it.
THEOREM DamageIsContained == OrphanSpec => []DamageContained
<1>1. OrphanInv => DamageContained
    BY DEF OrphanInv, DamageContained, RequestInv
<1> QED
  BY <1>1, OrphanInvariance, PTL

\* While the simulator keeps its NV state, no step replaces the key at the
\* handle, neither one of ensure_ak nor a late evictcontrol.
THEOREM KeyIsProvisionedOnce == ~Remanufacturing => (OrphanSpec => KeyProvisionedOnce)
<1> SUFFICES ASSUME ~Remanufacturing PROVE OrphanSpec => KeyProvisionedOnce
    OBVIOUS
<1>1. OrphanInv /\ [OrphanNext]_allVars => [ak # None => ak' = ak]_allVars
  <2> SUFFICES ASSUME OrphanInv, OrphanNext, ak # None PROVE ak' = ak
    OBVIOUS
  <2> USE DEF simVars
  <2>1. CASE Next
    <3>1. ASSUME NEW r \in Requests, Serve(r) PROVE ak' = ak
      BY <3>1, ServeKeys DEF OrphanInv
    <3>2. ASSUME NEW r \in Requests, Submit(r) \/ Reject(r) \/ Panic(r) PROVE ak' = ak
      BY <3>2 DEF Submit, Reject, Panic
    <3> QED
      BY <2>1, <3>1, <3>2 DEF Next, SimStop, SimStart, Remanufacture, Crash
  <2>2. CASE CrashOrphans
    BY <2>2 DEF CrashOrphans, Crash
  <2>3. ASSUME NEW o \in orphans, OrphanLands(o) PROVE ak' = ak
    BY <2>3 DEF OrphanLands
  <2> QED
    BY <2>1, <2>2, <2>3 DEF OrphanNext
<1> QED
  BY <1>1, OrphanInvariance, PTL DEF OrphanSpec, KeyProvisionedOnce

\* A late evictcontrol persists a key only where none is, so nothing signed or
\* cached is of another key.
LEMMA OrphanLandsOneKey ==
    ASSUME OneKeyInv, NEW o \in orphans, OrphanLands(o)
    PROVE  OneKeyInv'
<1>1. ak # None => ak' = ak
    BY DEF OrphanLands
<1>2. (cache # None => cache = ak)'
    BY <1>1 DEF OrphanLands, OneKeyInv
<1>3. ASSUME NEW q \in Requests PROVE KeyFacts(q)'
    BY <1>1, <1>3 DEF OrphanLands, OneKeyInv, KeyFacts, PubkeyLast, inputVars
<1> QED
    BY <1>2, <1>3 DEF OneKeyInv

\* While the simulator keeps its NV state, a public key that is returned with a
\* quote is the key that signed it, even if a late evictcontrol provisions the key
\* in the middle of another server's ensure_ak.
THEOREM PubkeyMatchesWithOrphans == ~Remanufacturing => (OrphanSpec => []PubkeySignedQuote)
<1> SUFFICES ASSUME ~Remanufacturing PROVE OrphanSpec => []PubkeySignedQuote
    OBVIOUS
<1>1. OrphanInit => OneKeyInv
    BY InitOneKey DEF OrphanInit
<1>2. OrphanInv /\ OneKeyInv /\ [OrphanNext]_allVars => OneKeyInv'
  <2> SUFFICES ASSUME OrphanInv, OneKeyInv, [OrphanNext]_allVars PROVE OneKeyInv'
    OBVIOUS
  <2>1. CASE Next \/ CrashOrphans \/ UNCHANGED allVars
    <3>1. [Next]_vars
      BY <2>1 DEF CrashOrphans, Next, allVars
    <3> QED
      BY <3>1, NextOneKey DEF OrphanInv
  <2>2. ASSUME NEW o \in orphans, OrphanLands(o) PROVE OneKeyInv'
    BY <2>2, OrphanLandsOneKey
  <2> QED
    BY <2>1, <2>2 DEF OrphanNext
<1>3. OneKeyInv => PubkeySignedQuote
    BY OneKeyMeaning
<1> QED
  BY <1>1, <1>2, <1>3, OrphanInvariance, PTL DEF OrphanSpec
=============================================================================
