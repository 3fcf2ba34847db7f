----------------------------- MODULE GpuParser -----------------------------
(***************************************************************************)
(* GET /gpu-attestation, src/gpu.rs: the script is run and its standard    *)
(* output, then its standard error, are read line by line into a           *)
(* structured result.                                                      *)
(*                                                                         *)
(* A line is a record with the class that the tests of                     *)
(* parse_gpu_attestation put it in; keys, values and wording are members   *)
(* of small sets.  Standard output is taken to end with a line break.      *)
(***************************************************************************)
EXTENDS Integers, Sequences, FiniteSets, FiniteSetsExt

CONSTANTS
    Indices,            \* indices that a device header can carry
    Chains,             \* names that end in "Cert Chain"
    Fields,             \* the device-level keys that the parser knows
    Values,             \* what follows a key
    Worded,             \* the values that contain `successful`, in any case
    MaxLines,           \* lines the script prints (a bound)
    None                \* Option::None, and an index that is not a u32

\* The classes of lines.  "unknown" is a `key: value` line whose key the code
\* does not name, "bare" a line without a colon.  Either contains `successful`
\* because it reports success, or although it does not ("denied": `unsuccessful`,
\* or a success of something else), or does not contain it.  The value of
\* `Status:` has a part for OCSP after the comma, or another one, which is lost
\* and only matters when it contains the word.
ChainLine == {"status", "ocsp", "expires"}
Plain == {"unknown", "bare"}
Lines ==
    [kind : {"blank"}]
    \cup [kind : Plain, says : {"success", "denied", "other"}]
    \cup [kind : {"device"}, index : Indices \cup {None}]
    \cup [kind : {"chain"}, name : Chains]
    \cup {l \in [kind : {"status"}, value : Values, ocsp : Values \cup {None},
                 lost : Worded \cup {None}] : l.ocsp = None \/ l.lost = None}
    \cup [kind : {"ocsp", "expires"}, value : Values]
    \cup [kind : {"field"}, name : Fields, value : Values]

VARIABLES
    script,             \* what running the script comes to
    text,               \* the lines read so far
    devices,            \* result.devices
    current,            \* the device being read, or None
    current_chain,      \* the chain being read, or None
    summary,            \* result.summary
    reply               \* status of the response, with `successful` for a 200

parserVars == <<devices, current, current_chain, summary>>
vars == <<script, text, parserVars, reply>>

\* GpuCertChain::default() and GpuDevice::default() with its index.
EmptyChain == [status |-> None, ocsp |-> None, expires |-> None]
NewDevice(index) ==
    [index |-> index, fields |-> [f \in Fields |-> None], cert_chains |-> <<>>]

OptValues == Values \cup {None}
CertChain == [status : OptValues, ocsp : OptValues, expires : OptValues]
Device == [index : Nat, fields : [Fields -> OptValues],
           cert_chains : UNION {[S -> CertChain] : S \in SUBSET Chains}]

Outcomes == {"missing", "no_shell", "spawn_error", "exit_nonzero", "exit_zero"}
NoReply == [status |-> "none", successful |-> FALSE]
Replies == [status : {"none", "ok", "internal", "not_implemented"}, successful : BOOLEAN]

Init ==
    /\ script = "not_run"
    /\ text = <<>>
    /\ devices = <<>>
    /\ current = None
    /\ current_chain = None
    /\ summary = None
    /\ reply = NoReply

-----------------------------------------------------------------------------
(* run_script *)

\* A script that is no file, or that sh cannot be found for, is 501; any other
\* failure to start it and a non-zero exit are 500, whatever it printed.
RunScript(outcome) ==
    /\ script = "not_run"
    /\ script' = outcome
    /\ reply' =
         CASE outcome \in {"missing", "no_shell"} -> [NoReply EXCEPT !.status = "not_implemented"]
           [] outcome \in {"spawn_error", "exit_nonzero"} -> [NoReply EXCEPT !.status = "internal"]
           [] outcome = "exit_zero" -> NoReply
    /\ UNCHANGED <<text, parserVars>>

-----------------------------------------------------------------------------
(* parse_gpu_attestation: one action for each branch of its loop *)

Parsing == script = "exit_zero" /\ reply = NoReply

\* The iteration for line l.
Read(l) ==
    /\ Parsing
    /\ Len(text) < MaxLines
    /\ text' = Append(text, l)
    /\ UNCHANGED <<script, reply>>

\* The entry that get_mut finds for the chain being read.
HasEntry ==
    current # None /\ current_chain # None /\ current_chain \in DOMAIN current.cert_chains

BlankLine(l) ==
    /\ l.kind = "blank"
    /\ Read(l)
    /\ UNCHANGED parserVars

\* The device read so far, if there is one, becomes part of the result.
Pushed == IF current = None THEN devices ELSE Append(devices, current)

\* Faulty variant: an index that does not parse is kept as None.
DeviceHeaderUnparsed(l) ==
    /\ l.kind = "device"
    /\ Read(l)
    /\ devices' = Pushed
    /\ current' = NewDevice(l.index)
    /\ current_chain' = None
    /\ UNCHANGED summary

\* `- Device <n>:` starts a device; an index that does not parse is replaced
\* by the number of devices before it.
DeviceHeader(l) ==
    /\ l.kind = "device"
    /\ Read(l)
    /\ devices' = Pushed
    /\ current' = NewDevice(IF l.index = None THEN Len(Pushed) ELSE l.index)
    /\ current_chain' = None
    /\ UNCHANGED summary

\* Faulty variant: insert instead of entry().or_default().
ChainHeaderResets(l) ==
    /\ l.kind = "chain"
    /\ Read(l)
    /\ current_chain' = l.name
    /\ current' =
         IF current = None THEN None
         ELSE [current EXCEPT !.cert_chains =
                 [c \in DOMAIN @ \cup {l.name} |-> IF c = l.name THEN EmptyChain ELSE @[c]]]
    /\ UNCHANGED <<devices, summary>>

\* `<name> Cert Chain:` makes the chain current and creates its entry in the
\* current device unless it is there already.
ChainHeader(l) ==
    /\ l.kind = "chain"
    /\ Read(l)
    /\ current_chain' = l.name
    /\ current' =
         IF current = None THEN None
         ELSE [current EXCEPT !.cert_chains =
                 [c \in DOMAIN @ \cup {l.name} |-> IF c \in DOMAIN @ THEN @[c] ELSE EmptyChain]]
    /\ UNCHANGED <<devices, summary>>

\* What line l sets in the entry of its chain.  The value of `Status:` may hold
\* the OCSP result too (split_status_ocsp); without it that stays as it is.
SetEntry(chain, l) ==
    CASE l.kind = "status" ->
           [chain EXCEPT !.status = l.value, !.ocsp = IF l.ocsp = None THEN @ ELSE l.ocsp]
      [] l.kind = "ocsp" -> [chain EXCEPT !.ocsp = l.value]
      [] l.kind = "expires" -> [chain EXCEPT !.expires = l.value]

ChainField(l) ==
    /\ l.kind \in ChainLine
    /\ HasEntry
    /\ Read(l)
    /\ current' = [current EXCEPT !.cert_chains[current_chain] = SetEntry(@, l)]
    /\ UNCHANGED <<devices, current_chain, summary>>

DeviceField(l) ==
    /\ l.kind = "field"
    /\ current # None
    /\ Read(l)
    /\ current' = [current EXCEPT !.fields[l.name] = l.value]
    /\ UNCHANGED <<devices, current_chain, summary>>

\* Whatever no earlier branch took, a known key with no chain or device to
\* belong to included, becomes the summary.
SummaryLine(l) ==
    /\ \/ l.kind \in Plain
       \/ l.kind \in ChainLine /\ ~HasEntry
       \/ l.kind = "field" /\ current = None
    /\ Read(l)
    /\ summary' = l
    /\ UNCHANGED <<devices, current, current_chain>>

\* The whole line, lower-cased, contains `successful`.
HasWord(l) ==
    \/ l.kind \in Plain /\ l.says # "other"
    \/ l.kind \in ChainLine \cup {"field"} /\ l.value \in Worded
    \/ l.kind = "status" /\ (l.ocsp \in Worded \/ l.lost \in Worded)

\* Any summary line that has the word makes the attestation successful.
Successful(s) == s # None /\ HasWord(s)

\* After the loop the last device is pushed and the response is sent.
Finish ==
    /\ Parsing
    /\ devices' = Pushed
    /\ current' = None
    /\ reply' = [status |-> "ok", successful |-> Successful(summary)]
    /\ UNCHANGED <<script, text, current_chain, summary>>

ReadLine(l) ==
    \/ BlankLine(l)
    \/ DeviceHeader(l)
    \/ ChainHeader(l)
    \/ ChainField(l)
    \/ DeviceField(l)
    \/ SummaryLine(l)

Next ==
    \/ \E o \in Outcomes : RunScript(o)
    \/ \E l \in Lines : ReadLine(l)
    \/ Finish

Spec == Init /\ [][Next]_vars

-----------------------------------------------------------------------------
(* A reference: what a text says, without an order of reading it *)

Last(S) == Max(S \cup {0})
Kind(t, i) == t[i].kind

\* The line of the device header, and of the chain header under it, that line
\* i stands below; 0 if there is none.
DeviceOf(t, i) == Last({h \in 1..i : Kind(t, h) = "device"})
ChainOf(t, i) == Last({h \in DeviceOf(t, i)..i : h > 0 /\ Kind(t, h) = "chain"})

\* The value of the last line of a set of lines.
LastValue(t, S) == IF S = {} THEN None ELSE t[Max(S)].value

RefChain(t, part) ==
    LET ocsp == {i \in part : Kind(t, i) = "ocsp" \/ (Kind(t, i) = "status" /\ t[i].ocsp # None)}
    IN  [status |-> LastValue(t, {i \in part : Kind(t, i) = "status"}),
         ocsp |-> IF ocsp = {} THEN None
                  ELSE IF Kind(t, Max(ocsp)) = "ocsp" THEN t[Max(ocsp)].value
                  ELSE t[Max(ocsp)].ocsp,
         expires |-> LastValue(t, {i \in part : Kind(t, i) = "expires"})]

\* The device whose header is line h of t, the k-th one.
RefDevice(t, h, k) ==
    LET below == {i \in 1..Len(t) : DeviceOf(t, i) = h}
        names == {t[i].name : i \in {j \in below : Kind(t, j) = "chain"}}
    IN  [index |-> IF t[h].index = None THEN k - 1 ELSE t[h].index,
         fields |-> [f \in Fields |->
            LastValue(t, {i \in below : Kind(t, i) = "field" /\ t[i].name = f})],
         cert_chains |-> [c \in names |->
            RefChain(t, {i \in below : ChainOf(t, i) # 0 /\ t[ChainOf(t, i)].name = c})]]

RefDevices(t) ==
    LET headers == {h \in 1..Len(t) : Kind(t, h) = "device"}
    IN  [k \in 1..Cardinality(headers) |->
            LET h == CHOOSE h \in headers : Cardinality({g \in headers : g <= h}) = k
            IN  RefDevice(t, h, k)]

\* Line i belongs to no device.
Loose(t, i) ==
    \/ Kind(t, i) \in Plain
    \/ Kind(t, i) = "field" /\ DeviceOf(t, i) = 0
    \/ Kind(t, i) \in ChainLine /\ (DeviceOf(t, i) = 0 \/ ChainOf(t, i) = 0)

\* The last line that belongs to no device.
RefSummary(t) ==
    LET loose == {i \in 1..Len(t) : Loose(t, i)}
    IN  IF loose = {} THEN None ELSE t[Max(loose)]

\* The script's verdict comes last: after a line that belongs nowhere for
\* another reason (an unknown key, a known one out of place), or that holds the
\* word `successful` without meaning it, there is a line without a colon.
VerdictLast(t) ==
    \A i \in 1..Len(t) :
        Loose(t, i) /\ (Kind(t, i) # "bare" \/ t[i].says = "denied") =>
            \E j \in (i + 1)..Len(t) : Kind(t, j) = "bare"

\* The script's own verdict: its last line without a colon reports success.
ReportsSuccess(t) ==
    LET bare == {i \in 1..Len(t) : Kind(t, i) = "bare"}
    IN  bare # {} /\ t[Max(bare)].says = "success"

-----------------------------------------------------------------------------
(* Properties *)

\* The types of the parser's variables and of the response.
TypeOK ==
    /\ script \in Outcomes \cup {"not_run"}
    /\ text \in Seq(Lines)
    /\ devices \in Seq(Device)
    /\ current \in Device \cup {None}
    /\ current_chain \in Chains \cup {None}
    /\ summary \in Lines \cup {None}
    /\ reply \in Replies

\* The result of the line-by-line parser is what the whole text says: the
\* lines under a device header make that device, the last line of a key wins,
\* lines under a chain header go to that chain, a repeated header continues
\* the chain, and the last line that belongs nowhere is the summary.  Where the
\* script's verdict comes last, `successful` is that verdict, and the lines
\* before it that the parser does not understand are ignored as documented.
ResultMatchesText ==
    reply.status = "ok" =>
        /\ devices = RefDevices(text)
        /\ summary = RefSummary(text)
        /\ VerdictLast(text) => reply.successful = ReportsSuccess(text)
=============================================================================
