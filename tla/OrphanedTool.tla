---------------------------- MODULE OrphanedTool ----------------------------
(***************************************************************************)
(* TpmBackend with one more fault: tpm2() of src/tpm.rs starts a process,  *)
(* and a server that is killed while it waits for one leaves that process  *)
(* running.  Its command reaches the simulator later, perhaps inside a     *)
(* transaction of the server that was started in the meantime, which the   *)
(* mutex of TpmState knows nothing of.                                     *)
(***************************************************************************)
EXTENDS TpmBackend

VARIABLES
    orphans,            \* commands of killed servers that are still under way
    disturbed           \* history: an orphan took effect while it held the lock

orphanVars == <<orphans, disturbed>>
allVars == <<vars, orphanVars>>

\* The commands that change what later transactions can see.
Lasting == {"startup", "pcrreset", "pcrextend", "evictcontrol"}

OrphanInit == Init /\ orphans = {} /\ disturbed = {}

\* The server is killed while one of its tools runs: the tool ends with it, or
\* goes on, with the scratch files the server did not remove.
CrashOrphans ==
    /\ Crash
    /\ \E r \in Requests :
        /\ pc[r] \in Lasting
        /\ orphans' = orphans \cup
              {[op |-> pc[r], total |-> body[r].total, ctx |-> body[r].ctx]}
    /\ UNCHANGED disturbed

\* An orphan's command reaches the simulator, and works or fails there.
OrphanLands(o) ==
    /\ orphans' = orphans \ {o}
    /\ started' = (started \/ (o.op = "startup" /\ up))
    /\ pcr' = CASE Ready /\ o.op = "pcrreset" -> <<>>
                [] Ready /\ o.op = "pcrextend" -> Append(pcr, o.total)
                [] OTHER -> pcr
    /\ \/ /\ o.op = "evictcontrol" /\ Fits(slots, 1) /\ ak = None
          /\ ak' = o.ctx
          /\ slots' \in {slots, slots + 1}
       \/ ~(o.op = "evictcontrol" /\ Fits(slots, 1) /\ ak = None) /\ UNCHANGED <<ak, slots>>
    /\ disturbed' = disturbed \cup ({holder} \ {None})
    /\ UNCHANGED <<up, minted, lockVars, cache, pc, inputVars,
                   body, reply, faulted>>

OrphanNext ==
    \/ Next /\ UNCHANGED orphanVars
    \/ CrashOrphans
    \/ \E o \in orphans : OrphanLands(o)

OrphanSpec == OrphanInit /\ [][OrphanNext]_allVars

-----------------------------------------------------------------------------
(* Properties *)

\* The damage of a late command ends with the transaction it falls into: its
\* response apart, every response is consistent, since each transaction resets
\* the PCR before it uses it.
DamageContained ==
    \A r \in Requests :
        pc[r] = "done" /\ r \notin disturbed
            => Consistent(kind[r], nonce[r], reply[r], body[r])

\* The key at the handle is never replaced, although a late evictcontrol and
\* the ensure_ak of a new server may both try to provision one: everything
\* that was ever signed or cached stays valid.
KeyProvisionedOnce == [][ak # None => ak' = ak]_allVars
=============================================================================
