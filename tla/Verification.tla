---------------------------- MODULE Verification ----------------------------
(***************************************************************************)
(* POST /verify-report and POST /verify_all: verify_tdx_report of          *)
(* src/attestation.rs with the kernel module kmod/tdx_verify.c behind it,  *)
(* verify_all, verify_quote and the Scratch directories of src/tpm.rs.     *)
(* None of this takes the TPM lock, so any number of verifications run at  *)
(* the same time and share the scratch counter and the temporary           *)
(* directory, which outlives a crash of the server.                        *)
(*                                                                         *)
(* The evidence of a request is named by the request; whether its report   *)
(* and its quote are authentic is an input.                                *)
(***************************************************************************)
EXTENDS Integers, FiniteSets

CONSTANTS
    Requests,           \* verification requests, each sent at most once
    Pids,               \* process ids the server can get
    None                \* "no value"

ASSUME NoneAssumption == None \notin Requests \cup Pids
ASSUME RequestsAssumption == IsFiniteSet(Requests)

\* Scratch counters and directory names in use (a bound: one per request).
Counters == 0..Cardinality(Requests)
DirNames == Pids \X Counters

VARIABLES
    \* the server process
    pid, counter,       \* process id and SCRATCH_COUNTER
    \* the temporary directory
    dirs,               \* scratch directories that exist
    files,              \* whose bytes the three files of a directory hold
    \* the kernel
    loaded,             \* the tdx_verify module is loaded
    \* the requests
    input,              \* route and what the body holds
    pc, dir,            \* next step, scratch directory or None
    mac,                \* what TDCALL[TDG.MR.VERIFYREPORT] said of the report
    checked,            \* whose files tpm2_checkquote was run on, or None
    reply               \* the response

fsVars == <<dirs, files>>
processVars == <<pid, counter>>
vars == <<processVars, fsVars, loaded, input, pc, dir, mac, checked, reply>>

Reports == {"missing", "not_hex", "wrong_length", "genuine", "tampered"}
Quotes == {"undecodable", "genuine", "tampered"}
Inputs == [route : {"verify_report", "verify_all"}, report : Reports, quote : Quotes]
Labels == {"new", "ioctl", "count", "mkdir", "decode", "sig", "msg", "ak",
           "checkquote", "done"}
Statuses == {"none", "ok", "bad_request", "internal", "not_implemented", "lost"}
Replies == [status : Statuses, trusted : BOOLEAN]
Files == {"sig", "msg", "ak"}

NoFiles == [f \in Files |-> None]
NoReply == [status |-> "none", trusted |-> FALSE]
InFlight(r) == pc[r] \notin {"new", "done"}

-----------------------------------------------------------------------------
Init ==
    /\ pid \in Pids
    /\ counter = 0
    /\ dirs = {}
    /\ files = [d \in DirNames |-> NoFiles]
    /\ loaded \in BOOLEAN
    /\ input \in [Requests -> Inputs]
    /\ pc = [r \in Requests |-> "new"]
    /\ dir = [r \in Requests |-> None]
    /\ mac = [r \in Requests |-> "unchecked"]
    /\ checked = [r \in Requests |-> None]
    /\ reply = [r \in Requests |-> NoReply]

Goto(r, label) ==
    /\ pc' = [pc EXCEPT ![r] = label]
    /\ UNCHANGED reply

Answer(r, status, trusted) ==
    /\ pc' = [pc EXCEPT ![r] = "done"]
    /\ reply' = [reply EXCEPT ![r] = [status |-> status, trusted |-> trusted]]

\* Returning from verify_quote drops Scratch; a failing removal is ignored.
DropScratch(r) ==
    /\ dir' = [dir EXCEPT ![r] = None]
    /\ \/ dirs' = dirs \ {dir[r]} /\ files' = [files EXCEPT ![dir[r]] = NoFiles]
       \/ UNCHANGED fsVars

AnswerAndDrop(r, status, trusted) == Answer(r, status, trusted) /\ DropScratch(r)

\* The handler decodes the body; both routes look at the report first.
Receive(r) ==
    /\ pc[r] = "new"
    /\ \/ input[r].report \in {"missing", "not_hex"} /\ Answer(r, "bad_request", FALSE)
       \/ input[r].report \notin {"missing", "not_hex"} /\ Goto(r, "ioctl")
    /\ UNCHANGED <<processVars, fsVars, loaded, input, dir, mac, checked>>

-----------------------------------------------------------------------------
(* verify_tdx_report *)

\* The TDX module recomputes the MAC; it may also refuse a genuine report.
TdcallVerdicts(r) ==
    IF input[r].report = "genuine" THEN {"accepted", "rejected"} ELSE {"rejected"}

\* What follows a verdict of the TDX module.
AfterTdx(r, verdict) ==
    IF input[r].route = "verify_all" THEN Goto(r, "count")
    ELSE Answer(r, "ok", verdict = "accepted")

\* Faulty variant: the request struct starts with status = TDX_SUCCESS and a
\* failed ioctl is not noticed.
IoctlErrorIgnored(r) ==
    /\ pc[r] = "ioctl"
    /\ IF input[r].route = "verify_all" THEN Goto(r, "count") ELSE Answer(r, "ok", TRUE)
    /\ UNCHANGED <<processVars, fsVars, loaded, input, dir, mac, checked>>

\* The device is opened and the ioctl copies the report into a page of its
\* own, runs the TDCALL and copies the status out.  The status starts as
\* u64::MAX, and any fault on the way is an error of the request.
VerifyTdxReport(r) ==
    /\ pc[r] = "ioctl"
    /\ \/ /\ input[r].report = "wrong_length"
          /\ Answer(r, "bad_request", FALSE)
          /\ UNCHANGED mac
       \/ /\ input[r].report # "wrong_length" /\ ~loaded
          /\ Answer(r, "not_implemented", FALSE)
          /\ UNCHANGED mac
       \/ /\ input[r].report # "wrong_length" /\ loaded
          /\ \/ \E verdict \in TdcallVerdicts(r) :
                   /\ mac' = [mac EXCEPT ![r] = verdict]
                   /\ AfterTdx(r, verdict) \/ Answer(r, "internal", FALSE)
             \/ Answer(r, "internal", FALSE) /\ UNCHANGED mac
    /\ UNCHANGED <<processVars, fsVars, loaded, input, dir, checked>>

-----------------------------------------------------------------------------
(* verify_quote *)

\* Faulty variant: the counter is read but not advanced atomically.
CountNotAdvanced(r) ==
    /\ pc[r] = "count"
    /\ dir' = [dir EXCEPT ![r] = <<pid, counter>>]
    /\ counter' \in {counter, counter + 1}
    /\ Goto(r, "mkdir")
    /\ UNCHANGED <<pid, fsVars, loaded, input, mac, checked>>

\* Faulty variant: the counter is advanced for the test and for the name.
CountTwice(r) ==
    /\ pc[r] = "count"
    /\ dir' = [dir EXCEPT ![r] = <<pid, counter + 1>>]
    /\ counter' = counter + 2
    /\ Goto(r, "mkdir")
    /\ UNCHANGED <<pid, fsVars, loaded, input, mac, checked>>

\* Scratch::new: fetch_add gives a name that no other request of this
\* process gets ...
CountScratch(r) ==
    /\ pc[r] = "count"
    /\ dir' = [dir EXCEPT ![r] = <<pid, counter>>]
    /\ counter' = counter + 1
    /\ Goto(r, "mkdir")
    /\ UNCHANGED <<pid, fsVars, loaded, input, mac, checked>>

\* ... and create_dir_all accepts a directory that is already there.
MakeScratch(r) ==
    /\ pc[r] = "mkdir"
    /\ \/ /\ dirs' = dirs \cup {dir[r]}
          /\ Goto(r, "decode")
          /\ UNCHANGED dir
       \/ /\ Answer(r, "internal", FALSE)
          /\ dir' = [dir EXCEPT ![r] = None]
          /\ UNCHANGED dirs
    /\ UNCHANGED <<processVars, files, loaded, input, mac, checked>>

DecodeBlobs(r) ==
    /\ pc[r] = "decode"
    /\ \/ /\ input[r].quote = "undecodable"
          /\ AnswerAndDrop(r, "bad_request", FALSE)
       \/ /\ input[r].quote # "undecodable"
          /\ Goto(r, "sig")
          /\ UNCHANGED <<fsVars, dir>>
    /\ UNCHANGED <<processVars, loaded, input, mac, checked>>

AfterWrite(f) == CASE f = "sig" -> "msg" [] f = "msg" -> "ak" [] f = "ak" -> "checkquote"

\* Faulty variant: a file that is already there is kept.
WriteKeepsOld(r) ==
    /\ pc[r] \in Files
    /\ files' = [files EXCEPT ![dir[r]][pc[r]] = IF @ = None THEN r ELSE @]
    /\ Goto(r, AfterWrite(pc[r]))
    /\ UNCHANGED <<processVars, dirs, loaded, input, dir, mac, checked>>

\* fs::write truncates what an earlier process left in the file.
WriteFile(r) ==
    /\ pc[r] \in Files
    /\ \/ /\ files' = [files EXCEPT ![dir[r]][pc[r]] = r]
          /\ Goto(r, AfterWrite(pc[r]))
          /\ UNCHANGED <<dirs, dir>>
       \/ AnswerAndDrop(r, "internal", FALSE)
    /\ UNCHANGED <<processVars, loaded, input, mac, checked>>

\* tpm2_checkquote reads the three files.  It accepts only when they belong
\* together and the quote is genuine; any other exit, a killed tool's too, is
\* "not trusted".  A tool that is missing is 501, one that cannot run is 500.
Checkquote(r) ==
    /\ pc[r] = "checkquote"
    /\ LET found == files[dir[r]]
           valid == found = [f \in Files |-> r] /\ input[r].quote = "genuine" IN
       \/ /\ checked' = [checked EXCEPT ![r] = found]
          /\ \E tpm \in {valid, FALSE} : AnswerAndDrop(r, "ok", tpm /\ mac[r] = "accepted")
       \/ /\ \E s \in {"internal", "not_implemented"} : AnswerAndDrop(r, s, FALSE)
          /\ UNCHANGED checked
    /\ UNCHANGED <<processVars, loaded, input, mac>>

-----------------------------------------------------------------------------
(* The environment *)

\* insmod / rmmod of the helper module; an open device pins it.
ToggleModule ==
    /\ loaded' = ~loaded
    /\ UNCHANGED <<processVars, fsVars, input, pc, dir, mac, checked, reply>>

\* The server is killed and restarted, possibly with the same process id (in
\* a container it always has).  Its scratch directories stay behind.
Crash ==
    /\ \E r \in Requests : InFlight(r)
    /\ pid' \in Pids
    /\ counter' = 0
    /\ dir' = [r \in Requests |-> None]
    /\ pc' = [r \in Requests |-> IF InFlight(r) THEN "done" ELSE pc[r]]
    /\ reply' = [r \in Requests |->
                    IF InFlight(r) THEN [status |-> "lost", trusted |-> FALSE] ELSE reply[r]]
    /\ UNCHANGED <<fsVars, loaded, input, mac, checked>>

Next ==
    \/ \E r \in Requests :
        \/ Receive(r) \/ VerifyTdxReport(r) \/ CountScratch(r) \/ MakeScratch(r)
        \/ DecodeBlobs(r) \/ WriteFile(r) \/ Checkquote(r)
    \/ ToggleModule \/ Crash

Spec == Init /\ [][Next]_vars

-----------------------------------------------------------------------------
(* Properties *)

\* The types of all variables.
TypeOK ==
    /\ pid \in Pids
    /\ counter \in Counters
    /\ dirs \subseteq DirNames
    /\ files \in [DirNames -> [Files -> Requests \cup {None}]]
    /\ loaded \in BOOLEAN
    /\ input \in [Requests -> Inputs]
    /\ pc \in [Requests -> Labels]
    /\ dir \in [Requests -> DirNames \cup {None}]
    /\ mac \in [Requests -> {"unchecked", "accepted", "rejected"}]
    /\ checked \in [Requests -> [Files -> Requests \cup {None}] \cup {None}]
    /\ reply \in [Requests -> Replies]

\* A request answered "trusted" had its own report accepted by the TDX module
\* in this very request, and for verify_all its quote was genuine; errors on
\* the way, a missing device and a crash never turn into trust.
TrustedMeansVerified ==
    \A r \in Requests : reply[r].trusted =>
        /\ reply[r].status = "ok"
        /\ mac[r] = "accepted" /\ input[r].report = "genuine"
        /\ input[r].route = "verify_all" => input[r].quote = "genuine"

\* tpm2_checkquote only ever sees the signature, message and key of one and
\* the same request, although scratch directories are shared with dead
\* processes of the same process id.
ChecksOwnEvidence ==
    \A r \in Requests : checked[r] \in {None, [f \in Files |-> r]}

\* Requests at work never share a scratch directory, and nobody removes it
\* under them.
ScratchPrivate ==
    \A r \in Requests : dir[r] # None =>
        /\ pc[r] # "mkdir" => dir[r] \in dirs
        /\ \A q \in Requests \ {r} : dir[q] # dir[r]

\* What the documentation of verify_all says: a missing 'tdx' field or a
\* malformed blob is an untrusted result, not an error.
MalformedIsUntrusted ==
    \A r \in Requests :
        /\ input[r].route = "verify_all"
        /\ input[r].report = "missing" \/ input[r].quote = "undecodable"
        => reply[r].status # "bad_request"
=============================================================================
