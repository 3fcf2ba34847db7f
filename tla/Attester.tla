------------------------------ MODULE Attester ------------------------------
(***************************************************************************)
(* What the TPM routes promise: an attestation is one indivisible step.    *)
(* There is no lock, no PCR to reset and no tool to fail here; an asked    *)
(* request is answered once, either with complete evidence signed by the   *)
(* key that the service has provisioned, or with an error that carries     *)
(* nothing.                                                                *)
(***************************************************************************)
EXTENDS Evidence

VARIABLES
    key,                \* the provisioned attestation key, or None
    kind, nonce,        \* the inputs of a request
    asked,              \* the request has been received
    answer              \* its response, or Unanswered

attesterVars == <<key, kind, nonce, asked, answer>>

Init ==
    /\ key \in Keys \cup {None}
    /\ kind = [r \in Requests |-> "information"]
    /\ nonce = [r \in Requests |-> None]
    /\ asked = [r \in Requests |-> FALSE]
    /\ answer = [r \in Requests |-> Unanswered]

\* A request with its inputs comes in; a malformed one is refused at once.
Ask(r) ==
    /\ ~asked[r]
    /\ asked' = [asked EXCEPT ![r] = TRUE]
    /\ \E k \in Kinds, n \in Challenges \cup {None} :
          /\ kind' = [kind EXCEPT ![r] = k]
          /\ nonce' = [nonce EXCEPT ![r] = n]
    /\ \/ UNCHANGED answer
       \/ answer' = [answer EXCEPT ![r] = [status |-> "bad_request", body |-> NoBody]]
    /\ UNCHANGED key

\* The one key is provisioned once and stays.  Any step may be the one that
\* finds it provisioned.
KeyStays == key' = key \/ (key = None /\ key' \in Keys)

Provision ==
    /\ key = None
    /\ key' \in Keys
    /\ UNCHANGED <<kind, nonce, asked, answer>>

Pending(r) == asked[r] /\ answer[r] = Unanswered

\* A complete response: one measurement d, one challenge, one key.
Response(r, d, pubkey) ==
    [total |-> d, value |-> <<d>>, ctx |-> None,
     quote |-> IF kind[r] = "information" THEN NoQuote
               ELSE [pcr |-> <<d>>, nonce |-> nonce[r], key |-> key],
     tdx |-> IF kind[r] = "all" THEN report_data_from(nonce[r]) ELSE None,
     pubkey |-> pubkey]

Attest(r) ==
    /\ Pending(r)
    /\ kind[r] # "information" => key # None
    /\ \E d \in Digests, pubkey \in {key, None} :
          answer' = [answer EXCEPT ![r] =
                        [status |-> "ok", body |-> Response(r, d, pubkey)]]
    /\ KeyStays
    /\ UNCHANGED <<kind, nonce, asked>>

\* Requests are refused: one with an error, or all pending ones when their
\* connections are lost.
Refuse ==
    /\ \E S \in SUBSET Requests, status \in Replies \ {"none", "ok"} :
          /\ \A r \in S : Pending(r)
          /\ answer' = [r \in Requests |->
                IF r \in S THEN [status |-> status, body |-> NoBody] ELSE answer[r]]
    /\ KeyStays
    /\ UNCHANGED <<kind, nonce, asked>>

Next == Provision \/ Refuse \/ \E r \in Requests : Ask(r) \/ Attest(r)

Spec == Init /\ [][Next]_attesterVars
=============================================================================
