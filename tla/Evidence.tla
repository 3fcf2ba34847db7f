------------------------------ MODULE Evidence ------------------------------
(***************************************************************************)
(* The data of src/tpm.rs and src/attestation.rs that a response carries,  *)
(* and what makes one response consistent.                                 *)
(*                                                                         *)
(* A PCR is the sequence of the digests extended into it since its reset:  *)
(* extending hashes the old value with the digest, so two PCR values are   *)
(* equal exactly when these sequences are.  A signature is represented by  *)
(* the key that made it and a public key by its key.                       *)
(***************************************************************************)
EXTENDS Integers, Sequences, FiniteSets

CONSTANTS
    Requests,           \* HTTP requests, each submitted at most once
    Digests,            \* folder digests that measure_folder can return
    Bytes,              \* byte values of a challenge; 0 is among them
    Width,              \* MAX_QUALIFYING_DATA_LEN = REPORTDATA_LEN (64)
    Challenges,         \* the decoded challenges that callers use
    Keys,               \* attestation keys a simulator can create (a bound)
    None                \* "no value": no lock holder, no key, no nonce

\* What normalize_nonce accepts, decoded: 1 to MAX_QUALIFYING_DATA_LEN bytes.
Nonces == UNION {[1..n -> Bytes] : n \in 1..Width}

\* REPORTDATA, the fixed-width field of a TDREPORT.
ReportData == [1..Width -> Bytes]

ASSUME WidthAssumption == Width \in Nat \ {0}
ASSUME BytesAssumption == Bytes \subseteq Nat /\ 0 \in Bytes
ASSUME ChallengesAssumption == Challenges \subseteq Nonces
ASSUME NoneAssumption ==
    None \notin Requests \cup Keys \cup Nonces \cup Digests \cup ReportData

\* The bytes of the challenge, zero-padded to the width of REPORTDATA.
report_data_from(n) == [i \in 1..Width |-> IF i <= Len(n) THEN n[i] ELSE 0]

Kinds == {"information", "quote", "all"}

\* HTTP status classes: 200, 400, 500, 501, and a connection that was lost.
Errors == {"bad_request", "internal", "not_implemented"}
Replies == {"none", "ok", "lost"} \cup Errors

NoQuote == [pcr |-> <<>>, nonce |-> None, key |-> None]
NoBody == [total |-> None, value |-> <<>>, ctx |-> None,
           quote |-> NoQuote, tdx |-> None, pubkey |-> None]

\* The response of a request that has none yet.
Unanswered == [status |-> "none", body |-> NoBody]

Quotes == [pcr : Seq(Digests), nonce : Nonces \cup {None}, key : Keys \cup {None}]
Bodies == [total : Digests \cup {None}, value : Seq(Digests),
           ctx : Keys \cup {None}, quote : Quotes,
           tdx : ReportData \cup {None}, pubkey : Keys \cup {None}]

\* What the answer to a request of kind k with challenge n may carry.  The PCR
\* value it reports is that of a PCR reset and extended once, with the digest
\* it reports; a quote signs that very PCR value and this caller's challenge;
\* attestation_all carries a TDX report for the same challenge; an error
\* carries nothing.
Consistent(k, n, status, b) ==
    \/ status # "ok" /\ b = NoBody
    \/ /\ status = "ok"
       /\ b.total # None
       /\ b.value = <<b.total>>
       /\ IF k = "information" THEN b.quote = NoQuote
          ELSE b.quote.pcr = b.value /\ b.quote.nonce = n /\ b.quote.key # None
       /\ IF k = "all" THEN b.tdx = report_data_from(n) ELSE b.tdx = None
=============================================================================
