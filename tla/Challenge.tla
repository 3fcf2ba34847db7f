----------------------------- MODULE Challenge -----------------------------
(***************************************************************************)
(* From the text of a challenge to the bytes that a quote and a TDX report *)
(* are bound to: QuoteTpmRequest::resolved_nonce and normalize_nonce of    *)
(* src/tpm.rs, which a challenge passes several times, and the query       *)
(* parameter of GET /attestation-with-randomnumber in src/api.rs.          *)
(*                                                                         *)
(* A text is a sequence of characters; of the hex digits there are `1`,    *)
(* `a` and `A`, of the others a blank and a letter of two bytes in UTF-8.  *)
(***************************************************************************)
EXTENDS Integers, Sequences, FiniteSets

CONSTANTS
    Width,              \* MAX_QUALIFYING_DATA_LEN = REPORTDATA_LEN (64)
    MaxTyped,           \* characters of the fields together (a bound)
    None                \* a field that is not there

Chars == {"1", "a", "A", "blank", "e_acute"}
Digits == {"1", "a", "A"}
Nibble(c) == IF c = "1" THEN 1 ELSE 10
Lower(c) == IF c = "A" THEN "a" ELSE c
Bytes == 0..255

VARIABLES
    nonce, challenge,   \* the fields of the request
    outcome             \* what the request came to

vars == <<nonce, challenge, outcome>>

Rejected(route) ==
    [route |-> route, status |-> "bad_request", text |-> <<>>, size |-> 0, quoted |-> <<>>,
     tdx |-> <<>>, tdx_text |-> <<>>]
Pending == [Rejected("none") EXCEPT !.status = "pending"]

-----------------------------------------------------------------------------
(* The library functions the code calls (external) *)

ToLower(t) == [i \in DOMAIN t |-> Lower(t[i])]

Trim(t) ==
    LET solid == {i \in DOMAIN t : t[i] # "blank"}
    IN  IF solid = {} THEN <<>>
        ELSE LET first == CHOOSE i \in solid : \A j \in solid : i <= j
                 last == CHOOSE i \in solid : \A j \in solid : i >= j
             IN  SubSeq(t, first, last)

\* str::len counts bytes.
StrLen(t) == Len(t) + Cardinality({i \in DOMAIN t : t[i] = "e_acute"})

\* hex::decode, with None for its errors, and hex::encode.
HexDecode(t) ==
    IF StrLen(t) % 2 # 0 \/ \E i \in DOMAIN t : t[i] \notin Digits THEN None
    ELSE [i \in 1..(Len(t) \div 2) |-> 16 * Nibble(t[2 * i - 1]) + Nibble(t[2 * i])]
HexDigit(n) == IF n = 1 THEN "1" ELSE "a"
HexEncode(b) ==
    [i \in 1..(2 * Len(b)) |->
        LET byte == b[(i + 1) \div 2]
        IN  HexDigit(IF i % 2 = 1 THEN byte \div 16 ELSE byte % 16)]

-----------------------------------------------------------------------------
(* src/tpm.rs *)

\* Faulty variant: the canonical text is the trimmed one.
NormalizeTrimOnly(t) ==
    LET trimmed == Trim(t)
        bytes == HexDecode(trimmed)
    IN  IF bytes = None \/ trimmed = <<>> THEN None
        ELSE IF Len(bytes) > Width THEN None ELSE trimmed

\* The canonical text of a challenge, or None.
normalize_nonce(t) ==
    LET trimmed == Trim(t)
        bytes == HexDecode(trimmed)
    IN  IF trimmed = <<>> \/ StrLen(trimmed) % 2 # 0 \/ bytes = None THEN None
        ELSE IF bytes = <<>> \/ Len(bytes) > Width THEN None
        ELSE HexEncode(bytes)

\* Faulty variant: the two fields are compared as they were sent.
ResolvedRaw(a, b) ==
    IF a # None /\ b # None /\ a # b THEN None
    ELSE IF a # None THEN normalize_nonce(a)
    ELSE IF b # None THEN normalize_nonce(b)
    ELSE None

resolved_nonce(a, b) ==
    IF a # None /\ b # None /\ ToLower(Trim(a)) # ToLower(Trim(b)) THEN None
    ELSE IF a # None THEN normalize_nonce(a)
    ELSE IF b # None THEN normalize_nonce(b)
    ELSE None

\* Faulty variant: what does not fit is cut off.
ReportDataTruncates(b) == [i \in 1..Width |-> IF i <= Len(b) THEN b[i] ELSE 0]

\* The bytes zero-padded to the width of REPORTDATA, or None if they are more.
report_data_from(b) ==
    IF Len(b) > Width THEN None
    ELSE [i \in 1..Width |-> IF i <= Len(b) THEN b[i] ELSE 0]

-----------------------------------------------------------------------------
Init ==
    /\ nonce \in {None, <<>>}
    /\ challenge \in {None, <<>>}
    /\ outcome = Pending

\* The client writes its request; `rn` of the query is kept in nonce.
Typed == (IF nonce = None THEN 0 ELSE Len(nonce)) + (IF challenge = None THEN 0 ELSE Len(challenge))

TypeNonce(c) ==
    /\ outcome = Pending
    /\ nonce # None /\ Typed < MaxTyped
    /\ nonce' = Append(nonce, c)
    /\ UNCHANGED <<challenge, outcome>>

TypeChallenge(c) ==
    /\ outcome = Pending
    /\ challenge # None /\ Typed < MaxTyped
    /\ challenge' = Append(challenge, c)
    /\ UNCHANGED <<nonce, outcome>>

\* What both TPM routes do: the handler resolves the challenge, the backend
\* normalises what it gets, create_quote gives it to tpm2_quote and reports it
\* in lower case with the size that normalize_nonce returns for it.
Canonical ==
    LET handed == resolved_nonce(nonce, challenge)
    IN  IF handed = None THEN None ELSE normalize_nonce(handed)

create_quote(route, canonical) ==
    IF normalize_nonce(canonical) = None THEN Rejected(route)
    ELSE [Rejected(route) EXCEPT
            !.status = "ok", !.text = ToLower(canonical),
            !.size = Len(HexDecode(normalize_nonce(canonical))),
            !.quoted = HexDecode(canonical)]

QuoteTpm ==
    /\ outcome = Pending
    /\ outcome' = IF Canonical = None THEN Rejected("quote") ELSE create_quote("quote", Canonical)
    /\ UNCHANGED <<nonce, challenge>>

\* POST /attestation_all decodes the canonical text once more for the TDX
\* report, and returns it with the report.
AttestationAll ==
    /\ outcome = Pending
    /\ outcome' =
         IF Canonical = None THEN Rejected("all")
         ELSE LET quote == create_quote("all", Canonical)
                  padded == report_data_from(HexDecode(Canonical))
              IN  IF quote = Rejected("all") \/ padded = None THEN Rejected("all")
                  ELSE [quote EXCEPT !.tdx = padded, !.tdx_text = Canonical]
    /\ UNCHANGED <<nonce, challenge>>

\* GET /attestation-with-randomnumber: `rn` is decoded as it is and may be
\* empty; there is no quote.
AttestationWithRandomNumber ==
    /\ outcome = Pending
    /\ challenge = None
    /\ LET decoded == IF nonce = None THEN None ELSE HexDecode(nonce)
           padded == IF decoded = None THEN None ELSE report_data_from(decoded)
       IN  outcome' = IF padded = None THEN Rejected("rn")
                      ELSE [Rejected("rn") EXCEPT !.status = "ok", !.tdx = padded]
    /\ UNCHANGED <<nonce, challenge>>

Next ==
    \/ \E c \in Chars : TypeNonce(c) \/ TypeChallenge(c)
    \/ QuoteTpm
    \/ AttestationAll
    \/ AttestationWithRandomNumber

Spec == Init /\ [][Next]_vars

-----------------------------------------------------------------------------
(* Properties *)

\* Text t is a way to write the bytes b, with blanks around it.
Writes(t, b) ==
    \E from \in 1..(Len(t) + 1) :
        LET to == from + 2 * Len(b) - 1
        IN  /\ to <= Len(t)
            /\ \A i \in DOMAIN t : (i < from \/ i > to) => t[i] = "blank"
            /\ \A i \in from..to : t[i] \in Digits
            /\ \A k \in DOMAIN b :
                 b[k] = 16 * Nibble(t[from + 2 * k - 2]) + Nibble(t[from + 2 * k - 1])

\* The challenges that a caller can mean.
SomeBytes == {16 * m + n : m \in {1, 10}, n \in {1, 10}}
Challenges == UNION {[1..n -> SomeBytes] : n \in 1..Width}

Meant == {b \in Challenges :
            /\ nonce # None \/ challenge # None
            /\ nonce # None => Writes(nonce, b)
            /\ challenge # None => Writes(challenge, b)}

\* Sizes are within the field of the TPM, REPORTDATA is full, and the text in
\* the evidence is canonical hex.
TypeOK ==
    /\ outcome.status \in {"pending", "ok", "bad_request"}
    /\ outcome.size \in 0..Width
    /\ outcome.status = "ok" /\ outcome.route # "quote" => outcome.tdx \in [1..Width -> Bytes]
    /\ \A i \in DOMAIN outcome.text : outcome.text[i] \in {"1", "a"}

\* A request is accepted exactly when its fields denote a challenge, and both
\* fields, where both are there, denote the same one, however it is written:
\* resolved_nonce compares texts and not bytes, but rejects no two spellings of
\* one challenge and accepts no two challenges.
AcceptedIffMeant ==
    outcome.route \in {"quote", "all"} => (outcome.status = "ok" <=> Meant # {})

\* The caller's challenge is what everything is bound to: the three passes
\* through normalize_nonce change nothing, the quote signs the bytes that the
\* caller wrote, the TDX report carries the same bytes, and the evidence
\* reports them in their only canonical spelling and with their number.
BoundToOneChallenge ==
    outcome.status = "ok" =>
        \A b \in Meant :
            /\ outcome.route \in {"quote", "all"} =>
                 outcome.quoted = b /\ outcome.size = Len(b) /\ outcome.text = HexEncode(b)
            /\ outcome.route = "all" =>
                 outcome.tdx = report_data_from(b) /\ outcome.tdx_text = outcome.text

\* Where both routes take a challenge, they put the same bytes in the report.
RoutesAgree ==
    outcome.route = "rn" /\ outcome.status = "ok" /\ nonce # <<>> =>
        LET canonical == normalize_nonce(nonce)
        IN  canonical # None /\ report_data_from(HexDecode(canonical)) = outcome.tdx
=============================================================================
