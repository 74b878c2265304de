--------------------------- MODULE StateSnapshot ----------------------------
(***************************************************************************)
(* Snapshots of an agent's state files (clinic kernel/state_snapshot.py):  *)
(* take_snapshot, verify_snapshot and restore_snapshot, file by file,      *)
(* while the agent may write its files, the stored copies may be damaged   *)
(* and the process may die between any two steps.                          *)
(*                                                                         *)
(* A file is its content; a SHA-256 is the content it is of.  The order of *)
(* the files is left open.  Every source exists (take_snapshot raises      *)
(* otherwise, before it writes the manifest, as if it died).               *)
(***************************************************************************)
EXTENDS Naturals, FiniteSets

CONSTANTS Files, Contents,
          Absent,               \* a stored copy that is not there
          MaxWrites, MaxOps     \* bounds

ASSUME AbsentAssumption == Absent \notin Contents

VARIABLES live,         \* source files
          stored,       \* the copies in the snapshot directory
          manifest,     \* [there, hash], with [origin, quiet] as history
          proc,         \* the operation under way
          quiet,        \* no write of the agent since it began (history)
          writes, ops

vars == <<live, stored, manifest, proc, quiet, writes, ops>>

Idle == [pc |-> "idle"]

Init == /\ live \in [Files -> Contents]
        /\ stored = [f \in Files |-> Absent]
        /\ manifest = [there |-> FALSE, hash |-> live, origin |-> live, quiet |-> FALSE]
        /\ proc = Idle
        /\ quiet = FALSE
        /\ writes = 0 /\ ops = 0

Begin(p) == /\ proc.pc = "idle" /\ ops < MaxOps
            /\ ops' = ops + 1
            /\ proc' = p
            /\ quiet' = TRUE

-----------------------------------------------------------------------------
(* take_snapshot *)

take_begin ==
  /\ Begin([pc |-> "copy", todo |-> Files, hash |-> live, origin |-> live])
  /\ UNCHANGED <<live, stored, manifest, writes>>

\* shutil.copy2(src, stored), ...
take_copy(f) ==
  /\ proc.pc = "copy" /\ f \in proc.todo
  /\ stored' = [stored EXCEPT ![f] = live[f]]
  /\ proc' = [pc |-> "hash", file |-> f, todo |-> proc.todo, hash |-> proc.hash,
              origin |-> proc.origin]
  /\ UNCHANGED <<live, manifest, quiet, writes, ops>>

\* ... then the hash of the source as it is by now.
take_hash ==
  /\ proc.pc = "hash"
  /\ proc' = [pc |-> "copy", todo |-> proc.todo \ {proc.file},
              hash |-> [proc.hash EXCEPT ![proc.file] = live[proc.file]],
              origin |-> proc.origin]
  /\ UNCHANGED <<live, stored, manifest, quiet, writes, ops>>

take_manifest ==
  /\ proc.pc = "copy" /\ proc.todo = {}
  /\ manifest' = [there |-> TRUE, hash |-> proc.hash, origin |-> proc.origin, quiet |-> quiet]
  /\ proc' = Idle
  /\ UNCHANGED <<live, stored, quiet, writes, ops>>

-----------------------------------------------------------------------------
(* restore_snapshot *)

restore_begin ==
  /\ manifest.there
  /\ Begin([pc |-> "verify", todo |-> Files])
  /\ UNCHANGED <<live, stored, manifest, writes>>

\* verify_snapshot(against_live=False); a mismatch refuses the restore.
Intact(f) == stored[f] = manifest.hash[f]

restore_verify(f) ==
  /\ proc.pc = "verify" /\ f \in proc.todo
  /\ proc' = IF ~Intact(f) THEN Idle
             ELSE IF proc.todo = {f} THEN [pc |-> "write", todo |-> Files]
             ELSE [pc |-> "verify", todo |-> proc.todo \ {f}]
  /\ UNCHANGED <<live, stored, manifest, quiet, writes, ops>>

\* shutil.copy2(stored, source); a copy gone since raises.
restore_copy(f) ==
  /\ proc.pc = "write" /\ f \in proc.todo /\ stored[f] # Absent
  /\ live' = [live EXCEPT ![f] = stored[f]]
  /\ proc' = IF proc.todo = {f} THEN [pc |-> "prove", todo |-> Files]
             ELSE [pc |-> "write", todo |-> proc.todo \ {f}]
  /\ UNCHANGED <<stored, manifest, quiet, writes, ops>>

\* Mutant: it is proved that the copies, not the sources, are as they should be.
Restored_Stored(f) == stored[f] = manifest.hash[f]
\* verify_snapshot(against_live=True)
Restored(f) == live[f] = manifest.hash[f]

restore_prove(f) ==
  /\ proc.pc = "prove" /\ f \in proc.todo
  /\ proc' = IF ~Restored(f) THEN Idle
             ELSE IF proc.todo = {f} THEN [pc |-> "restored"]
             ELSE [pc |-> "prove", todo |-> proc.todo \ {f}]
  /\ UNCHANGED <<live, stored, manifest, quiet, writes, ops>>

restore_return ==
  /\ proc.pc = "restored"
  /\ proc' = Idle
  /\ UNCHANGED <<live, stored, manifest, quiet, writes, ops>>

-----------------------------------------------------------------------------
(* The rest of the world *)

agent_write ==
  /\ writes < MaxWrites /\ writes' = writes + 1
  /\ \E f \in Files, c \in Contents : live' = [live EXCEPT ![f] = c]
  /\ quiet' = FALSE
  /\ UNCHANGED <<stored, manifest, proc, ops>>

\* A stored copy is changed or lost behind the module's back.
damage ==
  /\ writes < MaxWrites /\ writes' = writes + 1
  /\ \E f \in Files, c \in Contents \cup {Absent} : stored' = [stored EXCEPT ![f] = c]
  /\ UNCHANGED <<live, manifest, proc, quiet, ops>>

die == /\ proc.pc # "idle"
       /\ proc' = Idle
       /\ UNCHANGED <<live, stored, manifest, quiet, writes, ops>>

Take == take_begin \/ (\E f \in Files : take_copy(f)) \/ take_hash \/ take_manifest

Restore == \/ restore_begin \/ restore_return
           \/ \E f \in Files : restore_verify(f) \/ restore_copy(f) \/ restore_prove(f)

Next == Take \/ Restore \/ agent_write \/ damage \/ die

Spec == Init /\ [][Next]_vars
-----------------------------------------------------------------------------
(* Properties *)

TakeProc == [pc : {"copy"}, todo : SUBSET Files, hash : [Files -> Contents],
             origin : [Files -> Contents]]
HashProc == [pc : {"hash"}, file : Files, todo : SUBSET Files, hash : [Files -> Contents],
             origin : [Files -> Contents]]
RestoreProc == [pc : {"verify", "write", "prove"}, todo : SUBSET Files]
OtherProc == [pc : {"idle", "restored"}]

TypeOK ==
  /\ live \in [Files -> Contents]
  /\ stored \in [Files -> Contents \cup {Absent}]
  /\ manifest \in [there : BOOLEAN, hash : [Files -> Contents], origin : [Files -> Contents],
                   quiet : BOOLEAN]
  /\ proc \in TakeProc \cup HashProc \cup RestoreProc \cup OtherProc
  /\ quiet \in BOOLEAN
  /\ writes \in Nat /\ ops \in Nat

\* A manifest whose files the agent left alone is of one moment of its state.
ManifestIsAMoment == manifest.there /\ manifest.quiet => manifest.hash = manifest.origin

\* "prove the restore: an unverified restore silently contaminates every later
\* experiment" (state_snapshot.py).  Whatever was taken, cut short, overwritten
\* or damaged before and meanwhile: a restore that returns has put the agent
\* back into the very state it was in when the snapshot was taken, if the agent
\* left its files alone both times.
RestoreIsProved ==
  proc.pc = "restored" /\ quiet /\ manifest.quiet => live = manifest.origin

\* What verification and proof rest on while they go through the files.
ProofSoFar ==
  /\ proc.pc = "prove" /\ quiet => \A f \in Files \ proc.todo : live[f] = manifest.hash[f]
  /\ proc.pc = "restored" => manifest.there /\ (quiet => live = manifest.hash)
  /\ proc.pc \in {"verify", "write", "prove"} => manifest.there
  /\ proc.pc \in {"copy", "hash"} /\ quiet =>
        live = proc.origin /\ \A f \in Files \ proc.todo : proc.hash[f] = proc.origin[f]

IInv == TypeOK /\ ManifestIsAMoment /\ ProofSoFar
=============================================================================
