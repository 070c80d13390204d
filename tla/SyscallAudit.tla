---------------------------- MODULE SyscallAudit ----------------------------
(***************************************************************************)
(* bpf/syscall_audit.bpf.c: the tracepoint program audit_syscall, its uid  *)
(* whitelist and the syscall_events ring buffer, and the callback that     *)
(* turns a record into an alert (src/monitor.cpp).                         *)
(*                                                                         *)
(* A call is one execution of the program.  Programs of different CPUs     *)
(* interleave at each helper.  Of a record the model keeps the call it     *)
(* describes: uid, syscall number and arguments are functions of it.       *)
(***************************************************************************)
EXTENDS Naturals, Sequences, FiniteSets

CONSTANTS
  Calls,          \* system calls entered while the monitor runs
  NrOf, UidOf,    \* their number and the caller's uid
  uid_whitelist,  \* the map: a function from some uids to 0 or 1
  AuditCap        \* records syscall_events holds

ASSUME AuditAssumption == AuditCap \in Nat

VARIABLES
  apc,      \* per call: "new", "lookup", "reserve", "fill", "done"
  arb,      \* syscall_events: [call, busy], oldest first
  dropped,  \* history: calls whose reserve failed
  missed,   \* history: calls made while the program was not attached
  alerts    \* calls reported on stderr, in order

auditVars == <<apc, arb, dropped, missed, alerts>>

AuditInit ==
  /\ apc = [k \in Calls |-> "new"]
  /\ arb = <<>> /\ dropped = {} /\ missed = {} /\ alerts = <<>>

Move(k, where) == apc' = [apc EXCEPT ![k] = where]

is_suspicious(nr) == nr \in {"execve", "execveat", "ptrace",
                             "process_vm_readv", "process_vm_writev"}

\* Names with an underscore are the definition that follows with one bug
\* planted in it; each breaks a property, and no specification uses them.
Whitelisted_anyValue(uid) == uid \in DOMAIN uid_whitelist
\* wl && *wl
Whitelisted(uid) == uid \in DOMAIN uid_whitelist /\ uid_whitelist[uid] # 0

\* attached: whether audit_link exists when the call is made.
audit_syscall(k, attached) ==
  /\ apc[k] = "new"
  /\ Move(k, IF attached /\ is_suspicious(NrOf[k]) THEN "lookup" ELSE "done")
  /\ missed' = IF attached THEN missed ELSE missed \cup {k}
  /\ UNCHANGED <<arb, dropped, alerts>>

LookupWhitelist(k) ==
  /\ apc[k] = "lookup"
  /\ Move(k, IF Whitelisted(UidOf[k]) THEN "done" ELSE "reserve")
  /\ UNCHANGED <<arb, dropped, missed, alerts>>

AuditFull_offByOne == Len(arb) > AuditCap
AuditFull == Len(arb) >= AuditCap

AuditReserve(k) ==
  /\ apc[k] = "reserve"
  /\ \/ /\ ~AuditFull
        /\ arb' = Append(arb, [call |-> k, busy |-> TRUE])
        /\ Move(k, "fill") /\ UNCHANGED dropped
     \/ /\ AuditFull
        /\ dropped' = dropped \cup {k}
        /\ Move(k, "done") /\ UNCHANGED arb
  /\ UNCHANGED <<missed, alerts>>

Submitted_head(k) == [arb EXCEPT ![1].busy = FALSE]
Submitted(k) == [i \in DOMAIN arb |-> IF arb[i].call = k THEN [arb[i] EXCEPT !.busy = FALSE] ELSE arb[i]]

\* The fields, then bpf_ringbuf_submit.
AuditSubmit(k) ==
  /\ apc[k] = "fill"
  /\ arb' = Submitted(k)
  /\ Move(k, "done")
  /\ UNCHANGED <<dropped, missed, alerts>>

\* What a poll finds: nothing behind an unsubmitted record.
AuditReadable == arb # <<>> /\ ~Head(arb).busy

handle_syscall_event ==
  /\ AuditReadable
  /\ alerts' = Append(alerts, Head(arb).call)
  /\ arb' = Tail(arb)
  /\ UNCHANGED <<apc, dropped, missed>>

AuditProgram(k) == LookupWhitelist(k) \/ AuditReserve(k) \/ AuditSubmit(k)

-----------------------------------------------------------------------------
AuditTypeOK ==
  /\ apc \in [Calls -> {"new", "lookup", "reserve", "fill", "done"}]
  /\ arb \in Seq([call : Calls, busy : BOOLEAN]) /\ Len(arb) <= AuditCap
  /\ dropped \subseteq Calls /\ missed \subseteq Calls /\ alerts \in Seq(Calls)

\* The comment at uid_whitelist (syscall_audit.bpf.c:26): a uid in the map is
\* ignored, but 0, "root", is always monitored.
Ignored(uid) == uid \in DOMAIN uid_whitelist /\ uid # 0

\* Where Whitelisted is not what the comment says: it tests the value of the
\* entry and not the uid, so a uid stored with value 0 is reported and root
\* stored with another value is not.
Disputed(uid) == uid \in DOMAIN uid_whitelist /\ (uid_whitelist[uid] = 0 <=> uid # 0)

MustReport == {k \in Calls : is_suspicious(NrOf[k]) /\ ~Ignored(UidOf[k])}
=============================================================================
