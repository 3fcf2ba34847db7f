------------------------------ MODULE Tdreport ------------------------------
(***************************************************************************)
(* POST /parse-report: the decoding of a TDREPORT by src/report.rs, with   *)
(* the offsets it shares with src/attestation.rs, for reports of the real  *)
(* size.  A client sends report after report; each differs from the one    *)
(* before in one byte, in its length, or in being hex at all.  A report is *)
(* its length and the set of its bytes that are not zero.                  *)
(***************************************************************************)
EXTENDS Integers, Sequences, FiniteSets, FiniteSetsExt, SequencesExt

CONSTANTS
    Lengths,            \* lengths of the reports that are sent
    MaxChanged,         \* bytes in which a report differs from zero (a bound)
    None                \* not hex, or no answer but 400

VARIABLES
    report,             \* the report, or None for what is not hex
    answer              \* the decoded fields, or None for 400

vars == <<report, answer>>

TDREPORT_LEN == 1024
REPORTDATA_LEN == 64
TDREPORT_REPORTDATA_OFFSET == 128
TDREPORT_MAC_OFFSET == 224
TDREPORT_MAC_LEN == 32
TEE_TCB_INFO_OFFSET == 256
TDINFO_OFFSET == 512

\* The bytes offset .. offset + len - 1, counted from 0.
Slice(r, offset, len) ==
    [k \in 1..len |-> IF offset + k - 1 \in r.nonzero THEN 1 ELSE 0]

\* hex::encode: two digits for each byte, the high one first.
hex_encode(bytes) ==
    [k \in 1..(2 * Len(bytes)) |->
        LET b == bytes[(k + 1) \div 2] IN IF k % 2 = 1 THEN b \div 16 ELSE b % 16]

read_hex(r, offset, len) == hex_encode(Slice(r, offset, len))

\* A little-endian number, as its digits to the base 256, most significant first.
read_u64(r, offset) == Reverse(Slice(r, offset, 8))

\* Faulty variant: the last byte of the MAC is left out.
ReportMacStructShort(r) ==
    [report_data |-> read_hex(r, TDREPORT_REPORTDATA_OFFSET, REPORTDATA_LEN),
     mac |-> read_hex(r, TDREPORT_MAC_OFFSET, TDREPORT_MAC_LEN - 1)]

ReportMacStruct(r) ==
    [report_data |-> read_hex(r, TDREPORT_REPORTDATA_OFFSET, REPORTDATA_LEN),
     mac |-> read_hex(r, TDREPORT_MAC_OFFSET, TDREPORT_MAC_LEN)]

TeeTcbInfo(r) ==
    LET tcb == TEE_TCB_INFO_OFFSET
        hash == tcb + 24 IN
    [valid |-> read_u64(r, tcb),
     tee_tcb_svn |-> read_hex(r, tcb + 8, 16),
     mrseam |-> read_hex(r, hash, 48),
     mrsignerseam |-> read_hex(r, hash + 48, 48),
     seamattributes |-> read_u64(r, hash + 96),
     tdattributes |-> read_u64(r, hash + 104),
     xfd |-> read_u64(r, hash + 112)]

\* Faulty variant: RTMR1 is read at the offset of RTMR0.
TdInfoRepeated(r) ==
    LET td == TDINFO_OFFSET IN
    [attributes |-> read_u64(r, td),
     xfam |-> read_u64(r, td + 8),
     mrtd |-> read_hex(r, td + 16, 48),
     mrconfigid |-> read_hex(r, td + 64, 48),
     mrowner |-> read_hex(r, td + 112, 48),
     mrownerconfig |-> read_hex(r, td + 160, 48),
     rtmr0 |-> read_hex(r, td + 208, 48),
     rtmr1 |-> read_hex(r, td + 208, 48),
     rtmr2 |-> read_hex(r, td + 304, 48),
     rtmr3 |-> read_hex(r, td + 352, 48),
     servtd_hash |-> read_hex(r, td + 400, 48)]

TdInfo(r) ==
    LET td == TDINFO_OFFSET IN
    [attributes |-> read_u64(r, td),
     xfam |-> read_u64(r, td + 8),
     mrtd |-> read_hex(r, td + 16, 48),
     mrconfigid |-> read_hex(r, td + 64, 48),
     mrowner |-> read_hex(r, td + 112, 48),
     mrownerconfig |-> read_hex(r, td + 160, 48),
     rtmr0 |-> read_hex(r, td + 208, 48),
     rtmr1 |-> read_hex(r, td + 256, 48),
     rtmr2 |-> read_hex(r, td + 304, 48),
     rtmr3 |-> read_hex(r, td + 352, 48),
     servtd_hash |-> read_hex(r, td + 400, 48)]

parse_tdreport(r) ==
    IF r.len # TDREPORT_LEN THEN None
    ELSE [report_mac_struct |-> ReportMacStruct(r),
          tee_tcb_info |-> TeeTcbInfo(r),
          tdinfo |-> TdInfo(r)]

\* The REPORTDATA that a verifier compares with its challenge.
tdreport_reportdata(r) ==
    IF r.len # TDREPORT_LEN THEN None
    ELSE Slice(r, TDREPORT_REPORTDATA_OFFSET, REPORTDATA_LEN)

\* The handler: a report that is not hex, or not in a JSON body, is a 400.
parse_report(r) ==
    /\ report' = r
    /\ answer' = IF r = None THEN None ELSE parse_tdreport(r)

Init == report = None /\ answer = None

SendUndecodable == parse_report(None)

SendZeros == \E n \in Lengths : parse_report([len |-> n, nonzero |-> {}])

\* One byte is changed, to or from zero.
SendChanged ==
    /\ report # None
    /\ \E i \in 0..(report.len - 1) :
        LET changed == SymDiff(report.nonzero, {i}) IN
        /\ Cardinality(changed) <= MaxChanged
        /\ parse_report([report EXCEPT !.nonzero = changed])

Next == SendUndecodable \/ SendZeros \/ SendChanged

Spec == Init /\ [][Next]_vars

-----------------------------------------------------------------------------
(* Properties *)

Structs == {"report_mac_struct", "tee_tcb_info", "tdinfo"}

\* The shape of a decoded report: every field is a sequence of digits.
Decoded ==
    LET Digits == Seq(Nat) IN
    [report_mac_struct : [report_data : Digits, mac : Digits],
     tee_tcb_info :
        [valid : Digits, tee_tcb_svn : Digits, mrseam : Digits, mrsignerseam : Digits,
         seamattributes : Digits, tdattributes : Digits, xfd : Digits],
     tdinfo :
        [attributes : Digits, xfam : Digits, mrtd : Digits, mrconfigid : Digits,
         mrowner : Digits, mrownerconfig : Digits, rtmr0 : Digits, rtmr1 : Digits,
         rtmr2 : Digits, rtmr3 : Digits, servtd_hash : Digits]]

\* The decoded fields, as <<structure, field>>.
FieldNames == UNION {{<<s, f>> : f \in DOMAIN answer[s]} : s \in Structs}

\* The fields a step from one decoded report to another shows to be different.
Affected == {f \in FieldNames : answer[f[1]][f[2]] # answer'[f[1]][f[2]]}

\* The bytes of the two reports that differ, counted from 0.
Changed == SymDiff(report.nonzero, report'.nonzero)

\* A report is decoded exactly when it has TDREPORT_LEN bytes; what is shown
\* as REPORTDATA is what a verifier compares with its challenge.
TypeOK ==
    /\ report # None => report.len \in Lengths /\ report.nonzero \subseteq 0..(report.len - 1)
    /\ answer # None <=> report # None /\ report.len = TDREPORT_LEN
    /\ answer # None =>
        /\ answer \in Decoded
        /\ answer.report_mac_struct.report_data = hex_encode(tdreport_reportdata(report))

\* Two reports that differ in one byte differ in at most one decoded field,
\* and there in one digit: no two of the twenty fields overlap.
OneByteOneField ==
    [][answer # None /\ answer' # None /\ Cardinality(Changed) = 1 =>
        /\ Cardinality(Affected) <= 1
        /\ \A f \in Affected :
            LET old == answer[f[1]][f[2]]
                new == answer'[f[1]][f[2]] IN
            Cardinality({k \in DOMAIN old : old[k] # new[k]}) = 1]_vars

\* A byte is decoded as part of the structure that the layout puts it in; the
\* reserved bytes between and inside the structures are not shown, and between
\* the first and the last field of a structure's measurements no byte is
\* missed: REPORTDATA and MAC, 144 bytes of TEE_TCB_INFO, 448 of TDINFO.
LayoutRespected ==
    [][answer # None /\ answer' # None /\ Cardinality(Changed) = 1 =>
        \A i \in Changed :
            {f[1] : f \in Affected} =
                CASE i \in 128..191 \cup 224..255 -> {"report_mac_struct"}
                  [] i \in 256..399 -> {"tee_tcb_info"}
                  [] i \in 512..959 -> {"tdinfo"}
                  [] OTHER -> {}]_vars
=============================================================================
