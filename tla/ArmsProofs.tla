----------------------------- MODULE ArmsProofs -----------------------------
(* Proofs about the arms that run SWE-agent live.                          *)
(*                                                                         *)
(* LiveSingle, for any specs, any recorded prefix and any behaviour of the *)
(* model and of SWE-agent, without bound on the queries.  RouteB1, for any *)
(* cells and bounds: an arm whose capture leaked never passes for a valid  *)
(* one, and a verdict rests on what the runs of its labels did.            *)
EXTENDS LiveSingle, RouteB1, SequenceTheorems, TLAPS

V1Steps == {"materialize_prefix_observed_failure",
            "block_edit_until_failure_reproduced_or_explained", "require_post_patch_target_recheck",
            "require_post_patch_guard_recheck", "block_submit_on_guard_regression"}
V2Steps == {"interrupt_repeated_failure_loop", "require_explicit_failure_reproduction",
            "require_alternative_hypothesis_before_next_patch", "require_targeted_post_patch_recheck"}

Commands == {"submit", "edit", "check", "other", "edit_check", "guard", "check_guard", "broaden",
             "check_broaden"}

\* The specs are those of the two protocols, each with prescriptions of its own.
OfProtocols ==
  \A s \in Specs :
    /\ s \in [protocol : {"v1", "v2"}, arm : {"control", "treatment"}, execute : BOOLEAN,
              ack : BOOLEAN, config : BOOLEAN, replay : Seq(Commands), allow_empty : BOOLEAN,
              observe : BOOLEAN, steps : SUBSET (V1Steps \cup V2Steps), limit : Nat]
    /\ s.steps \subseteq IF s.protocol = "v1" THEN V1Steps ELSE V2Steps

Event == [event : {"before", "after"}, blocked : BOOLEAN, would : BOOLEAN]
Families == {"none"} \cup {action_family(a) : a \in Commands}
Hook == [failed : BOOLEAN, broadened : BOOLEAN, patched : BOOLEAN, rechecked : BOOLEAN,
         guarded : BOOLEAN, regressed : BOOLEAN,
         family : Families, streak : Nat, index : Nat,
         events : Seq(Event)]
Entry == [cmd : Commands, seen : [failing : BOOLEAN, regression : BOOLEAN], live : BOOLEAN,
          place : Nat]

-----------------------------------------------------------------------------
(* The invariant.                                                          *)

Typed ==
  /\ spec \in Specs
  /\ live_pc \in {"start", "running", "queried", "started", "report", "done"}
  /\ model \in [query_count : Nat, events : Seq({"replay", "generation"})]
  /\ live_hook \in Hook
  /\ act \in [cmd : Commands \cup {"none"}, live : BOOLEAN]
  /\ live_pc \in {"queried", "started"} => act.cmd \in Commands
  /\ attached \in BOOLEAN /\ log \in Seq(Entry)

\* Before the run nothing happened; without hook the hook is as it began.
Begins == /\ live_pc = "start" => ~attached /\ log = << >>
          /\ ~hook_attached => live_hook = HookInit
          /\ live_pc \in {"running", "queried", "started"} => attached

\* The model replays the prefix, query by query, and only then delegates.
ModelReplays ==
  /\ Len(model.events) = model.query_count
  /\ \A i \in 1..Len(model.events) : (model.events[i] = "replay") <=> (i <= Len(spec.replay))
  /\ live_pc \in {"queried", "started"} /\ act.live => model.query_count > Len(spec.replay)
  /\ \A i \in 1..Len(log) : log[i].live => log[i].place > Len(spec.replay)

\* Two events of each action executed, and one of the action at hand.
HookCounts ==
  hook_attached =>
    \/ live_pc # "started" /\ Len(live_hook.events) = 2 * Len(log) /\ live_hook.index = Len(log)
    \/ /\ live_pc \in {"started", "report", "done"}
       /\ Len(live_hook.events) = 2 * Len(log) + 1 /\ live_hook.index = Len(log) + 1

\* What the hook's flags say of the actions executed so far.
FlagsOfBoth(h, past) ==
  /\ h.failed <=> \E j \in 1..Len(past) : IsCheck(past[j].cmd) /\ past[j].seen.failing
  /\ h.patched <=> \E j \in 1..Len(past) : IsEdit(past[j].cmd)

FlagsOfV1(h, past) ==
  /\ h.rechecked <=> \E e, k \in 1..Len(past) :
        e <= k /\ IsEdit(past[e].cmd) /\ IsCheck(past[k].cmd) /\ ~IsGuard(past[k].cmd)
  /\ h.guarded <=> \E e, k \in 1..Len(past) :
        e <= k /\ IsEdit(past[e].cmd) /\ IsGuard(past[k].cmd)
  /\ h.regressed <=> \E j \in 1..Len(past) : IsGuard(past[j].cmd) /\ past[j].seen.regression

\* The streak is the longest run of one family that the past ends with.
FlagsOfV2(h, past) ==
  /\ h.rechecked <=> \E e, k \in 1..Len(past) :
        e <= k /\ IsEdit(past[e].cmd) /\ IsCheck(past[k].cmd)
  /\ h.broadened <=> \E j, i \in 1..Len(past) :
        i <= j /\ IsBroadening(past[j].cmd) /\ IsCheck(past[i].cmd) /\ past[i].seen.failing
  /\ h.streak <= Len(past) /\ (Len(past) > 0 => h.streak > 0)
  /\ \A j \in 1..Len(past) : j > Len(past) - h.streak => action_family(past[j].cmd) = h.family
  /\ \A j \in 1..Len(past) : j = Len(past) - h.streak => action_family(past[j].cmd) # h.family

Flags(p, h, past) == /\ FlagsOfBoth(h, past)
                     /\ p = "v1" => FlagsOfV1(h, past)
                     /\ p = "v2" => FlagsOfV2(h, past)

FlagsRemember == hook_attached => Flags(spec.protocol, live_hook, log)

\* A block is the last thing the hook did, and the adapter was told or SWE-agent
\* swallowed it.
BlocksEnd ==
  hook_attached =>
    \A i \in 1..Len(live_hook.events) : live_hook.events[i].blocked =>
       /\ i = Len(live_hook.events) /\ i = 2 * Len(log) + 1
       /\ live_pc \in {"report", "done"} /\ (constraint_block_event \/ Swallows)

Reported ==
  /\ live_pc # "done" => ~arm_report.allow
  /\ arm_report.allow => live_arm_complete /\ gates /\ arm_report.decision = "run_completed"

LInv == /\ Typed /\ Begins /\ ModelReplays /\ HookCounts /\ FlagsRemember
        /\ JudgedOnThePast /\ BlocksEnd /\ Reported

-----------------------------------------------------------------------------
(* The flags.                                                              *)

\* A sequence with one more element is the old one and the element.
LEMMA Appended ==
  ASSUME NEW S, NEW q \in Seq(S), NEW e \in S
  PROVE  /\ Append(q, e) \in Seq(S) /\ Len(Append(q, e)) = Len(q) + 1 /\ Len(q) \in Nat
         /\ \A j \in 1..Len(q) : Append(q, e)[j] = q[j]
         /\ Append(q, e)[Len(q) + 1] = e
         /\ \A j \in 1..Len(q) + 1 : j \in 1..Len(q) \/ j = Len(q) + 1
  BY AppendProperties, LenProperties

\* What a constraint asks of the past, the hook's flags answer.
LEMMA JudgedByFlags ==
  ASSUME OfProtocols, spec \in Specs, NEW h \in Hook, NEW past \in Seq(Entry),
         NEW a \in Commands, Flags(spec.protocol, h, past)
  PROVE  Violates(h, a) # {} <=> ~Permitted(spec, past, a)
<1> DEFINE n == Len(past)
<1>n. n \in Nat
  BY LenProperties
<1>p. /\ spec.protocol \in {"v1", "v2"}
      /\ spec.steps \subseteq IF spec.protocol = "v1" THEN V1Steps ELSE V2Steps
  BY DEF OfProtocols
<1>s. h.failed <=> Shown(past, n)
  BY DEF Flags, FlagsOfBoth, Shown
<1>e. h.patched <=> Patched(past)
  BY DEF Flags, FlagsOfBoth, Patched
<1>1. CASE spec.protocol = "v1"
  <2>1. h.rechecked <=> \E e, k \in 1..n :
           e <= k /\ IsEdit(past[e].cmd) /\ IsCheck(past[k].cmd) /\ ~IsGuard(past[k].cmd)
    BY <1>1 DEF Flags, FlagsOfV1
  <2>2. h.guarded <=> \E e, k \in 1..n : e <= k /\ IsEdit(past[e].cmd) /\ IsGuard(past[k].cmd)
    BY <1>1 DEF Flags, FlagsOfV1
  <2>3. h.regressed <=> \E j \in 1..n : IsGuard(past[j].cmd) /\ past[j].seen.regression
    BY <1>1 DEF Flags, FlagsOfV1
  <2>4. ASSUME NEW c \in spec.steps
        PROVE  c \in Violates_v1(h, a) <=> ~Meets(spec, c, past, a)
    <3>0. c \in V1Steps
      BY <1>1, <1>p
    <3>1. CASE c = "block_edit_until_failure_reproduced_or_explained"
      BY <3>1, <1>s DEF Violates_v1, Meets
    <3>2. CASE c = "require_post_patch_target_recheck"
      BY <3>2, <1>1, <1>e, <2>1 DEF Violates_v1, Meets, Rechecked
    <3>3. CASE c = "require_post_patch_guard_recheck"
      BY <3>3, <1>e, <2>2 DEF Violates_v1, Meets, Rechecked
    <3>4. CASE c = "block_submit_on_guard_regression"
      BY <3>4, <1>e, <2>3 DEF Violates_v1, Meets
    <3>5. CASE c = "materialize_prefix_observed_failure"
      BY <3>5 DEF Violates_v1, Meets
    <3> QED
      BY <3>0, <3>1, <3>2, <3>3, <3>4, <3>5 DEF V1Steps
  <2>5. Violates_v1(h, a) \subseteq spec.steps
    BY DEF Violates_v1
  <2> QED
    BY <1>1, <2>4, <2>5 DEF Violates, Permitted
<1>2. CASE spec.protocol = "v2"
  <2>1. h.rechecked <=> \E e, k \in 1..n : e <= k /\ IsEdit(past[e].cmd) /\ IsCheck(past[k].cmd)
    BY <1>2 DEF Flags, FlagsOfV2
  <2>2. h.broadened <=> \E j \in 1..n : IsBroadening(past[j].cmd) /\ Shown(past, j)
    <3>1. h.broadened <=> \E j, i \in 1..n :
             i <= j /\ IsBroadening(past[j].cmd) /\ IsCheck(past[i].cmd) /\ past[i].seen.failing
      BY <1>2 DEF Flags, FlagsOfV2
    <3> QED
      BY <3>1, <1>n DEF Shown
  <2>3. /\ h.streak <= n /\ (n > 0 => h.streak > 0) /\ h.streak \in Nat
        /\ \A j \in 1..n : j > n - h.streak => action_family(past[j].cmd) = h.family
        /\ \A j \in 1..n : j = n - h.streak => action_family(past[j].cmd) # h.family
    BY <1>2 DEF Flags, FlagsOfV2, Hook
  <2>4. (action_family(a) = h.family /\ h.streak >= 3) <=>
           (n >= 3 /\ \A j \in (n - 2)..n : action_family(past[j].cmd) = action_family(a))
    <3>1. ASSUME action_family(a) = h.family, h.streak >= 3
          PROVE  n >= 3 /\ \A j \in (n - 2)..n : action_family(past[j].cmd) = action_family(a)
      BY <3>1, <2>3, <1>n
    <3>2. ASSUME n >= 3, \A j \in (n - 2)..n : action_family(past[j].cmd) = action_family(a)
          PROVE  action_family(a) = h.family /\ h.streak >= 3
      <4>1. n \in (n - 2)..n /\ n \in 1..n /\ n > n - h.streak
        BY <3>2, <2>3, <1>n
      <4>2. action_family(a) = h.family
        BY <4>1, <3>2, <2>3
      <4>3. h.streak < 3 => n - h.streak \in (n - 2)..n /\ n - h.streak \in 1..n
        BY <3>2, <2>3, <1>n
      <4>4. ~(h.streak < 3)
        BY <4>2, <4>3, <3>2, <2>3
      <4> QED
        BY <4>2, <4>4, <2>3
    <3> QED
      BY <3>1, <3>2
  <2>5. ASSUME NEW c \in spec.steps
        PROVE  c \in Violates_v2(h, a) <=> ~Meets(spec, c, past, a)
    <3>0. c \in V2Steps
      BY <1>2, <1>p
    <3>1. CASE c = "interrupt_repeated_failure_loop"
      BY <3>1, <2>4 DEF Violates_v2, Meets
    <3>2. CASE c = "require_explicit_failure_reproduction"
      BY <3>2, <1>s DEF Violates_v2, Meets
    <3>3. CASE c = "require_alternative_hypothesis_before_next_patch"
      BY <3>3, <2>2 DEF Violates_v2, Meets
    <3>4. CASE c = "require_targeted_post_patch_recheck"
      BY <3>4, <1>2, <1>e, <2>1 DEF Violates_v2, Meets, Rechecked
    <3> QED
      BY <3>0, <3>1, <3>2, <3>3, <3>4 DEF V2Steps
  <2>6. Violates_v2(h, a) \subseteq spec.steps
    BY DEF Violates_v2
  <2> QED
    BY <1>2, <2>5, <2>6 DEF Violates, Permitted
<1> QED
  BY <1>1, <1>2, <1>p

\* The hook's update after an action keeps the flags true of the longer past, under v1 ...
LEMMA FlagsKept_v1 ==
  ASSUME NEW h \in Hook, NEW past \in Seq(Entry), NEW e \in Entry,
         Flags("v1", h, past)
  PROVE  Flags("v1", after_action_v1(h, e.cmd, e.seen), Append(past, e))
<1> DEFINE n == Len(past)
           g == after_action_v1(h, e.cmd, e.seen)
           q == Append(past, e)
<1>q. /\ Len(q) = n + 1 /\ n \in Nat
      /\ \A j \in 1..n : q[j] = past[j]
      /\ q[n + 1] = e
      /\ \A j \in 1..n + 1 : j \in 1..n \/ j = n + 1
  BY Appended
<1>g. /\ g.failed <=> h.failed \/ (IsCheck(e.cmd) /\ e.seen.failing)
      /\ g.patched <=> h.patched \/ IsEdit(e.cmd)
      /\ g.rechecked <=> h.rechecked \/ (g.patched /\ IsCheck(e.cmd) /\ ~IsGuard(e.cmd))
      /\ g.guarded <=> h.guarded \/ (g.patched /\ IsGuard(e.cmd))
      /\ g.regressed <=> h.regressed \/ (IsGuard(e.cmd) /\ e.seen.regression)
  BY DEF after_action_v1, Hook, Entry, IsEdit, IsCheck, IsGuard
<1>f. FlagsOfBoth(h, past) /\ FlagsOfV1(h, past)
  BY DEF Flags
<1> HIDE DEF g, q
<1>1. g.failed <=> \E j \in 1..n + 1 : IsCheck(q[j].cmd) /\ q[j].seen.failing
  <2>1. h.failed <=> \E j \in 1..n : IsCheck(past[j].cmd) /\ past[j].seen.failing
    BY <1>f DEF FlagsOfBoth
  <2> QED
    BY <2>1, <1>q, <1>g
<1>2. g.patched <=> \E j \in 1..n + 1 : IsEdit(q[j].cmd)
  <2>1. h.patched <=> \E j \in 1..n : IsEdit(past[j].cmd)
    BY <1>f DEF FlagsOfBoth
  <2> QED
    BY <2>1, <1>q, <1>g
<1>3. g.rechecked <=> \E i, k \in 1..n + 1 :
         i <= k /\ IsEdit(q[i].cmd) /\ IsCheck(q[k].cmd) /\ ~IsGuard(q[k].cmd)
  <2>1. h.rechecked <=> \E i, k \in 1..n :
           i <= k /\ IsEdit(past[i].cmd) /\ IsCheck(past[k].cmd) /\ ~IsGuard(past[k].cmd)
    BY <1>f DEF FlagsOfV1
  <2> QED
    BY <2>1, <1>2, <1>q, <1>g
<1>4. g.guarded <=> \E i, k \in 1..n + 1 : i <= k /\ IsEdit(q[i].cmd) /\ IsGuard(q[k].cmd)
  <2>1. h.guarded <=> \E i, k \in 1..n : i <= k /\ IsEdit(past[i].cmd) /\ IsGuard(past[k].cmd)
    BY <1>f DEF FlagsOfV1
  <2> QED
    BY <2>1, <1>2, <1>q, <1>g
<1>5. g.regressed <=> \E j \in 1..n + 1 : IsGuard(q[j].cmd) /\ q[j].seen.regression
  <2>1. h.regressed <=> \E j \in 1..n : IsGuard(past[j].cmd) /\ past[j].seen.regression
    BY <1>f DEF FlagsOfV1
  <2> QED
    BY <2>1, <1>q, <1>g
<1>6. FlagsOfBoth(g, q)
  BY <1>1, <1>2, <1>q DEF FlagsOfBoth
<1>7. FlagsOfV1(g, q)
  BY <1>3, <1>4, <1>5, <1>q DEF FlagsOfV1
<1>8. Flags("v1", g, q)
  BY <1>6, <1>7 DEF Flags
<1> QED
  BY <1>8 DEF g, q

\* ... and under v2.
LEMMA FlagsKept_v2 ==
  ASSUME NEW h \in Hook, NEW past \in Seq(Entry), NEW e \in Entry,
         Flags("v2", h, past)
  PROVE  Flags("v2", after_action_v2(h, e.cmd, e.seen), Append(past, e))
<1> DEFINE n == Len(past)
           g == after_action_v2(h, e.cmd, e.seen)
           q == Append(past, e)
<1>q. /\ Len(q) = n + 1 /\ n \in Nat
      /\ \A j \in 1..n : q[j] = past[j]
      /\ q[n + 1] = e
      /\ \A j \in 1..n + 1 : j \in 1..n \/ j = n + 1
  BY Appended
<1>g. /\ g.failed <=> h.failed \/ (IsCheck(e.cmd) /\ e.seen.failing)
      /\ g.patched <=> h.patched \/ IsEdit(e.cmd)
      /\ g.rechecked <=> h.rechecked \/ (g.patched /\ IsCheck(e.cmd))
      /\ g.broadened <=> h.broadened \/ (g.failed /\ IsBroadening(e.cmd))
  BY DEF after_action_v2, Hook, Entry, IsEdit, IsCheck, IsBroadening
<1>h. /\ g.family = action_family(e.cmd)
      /\ action_family(e.cmd) = h.family => g.streak = h.streak + 1
      /\ action_family(e.cmd) # h.family => g.streak = 1
      /\ h.streak \in Nat
  BY DEF after_action_v2, Hook
<1>f. FlagsOfBoth(h, past) /\ FlagsOfV2(h, past)
  BY DEF Flags
<1> HIDE DEF g, q
<1>1. g.failed <=> \E j \in 1..n + 1 : IsCheck(q[j].cmd) /\ q[j].seen.failing
  <2>1. h.failed <=> \E j \in 1..n : IsCheck(past[j].cmd) /\ past[j].seen.failing
    BY <1>f DEF FlagsOfBoth
  <2> QED
    BY <2>1, <1>q, <1>g
<1>2. g.patched <=> \E j \in 1..n + 1 : IsEdit(q[j].cmd)
  <2>1. h.patched <=> \E j \in 1..n : IsEdit(past[j].cmd)
    BY <1>f DEF FlagsOfBoth
  <2> QED
    BY <2>1, <1>q, <1>g
<1>3. g.rechecked <=> \E i, k \in 1..n + 1 : i <= k /\ IsEdit(q[i].cmd) /\ IsCheck(q[k].cmd)
  <2>1. h.rechecked <=> \E i, k \in 1..n : i <= k /\ IsEdit(past[i].cmd) /\ IsCheck(past[k].cmd)
    BY <1>f DEF FlagsOfV2
  <2> QED
    BY <2>1, <1>2, <1>q, <1>g
<1>4. g.broadened <=> \E j, i \in 1..n + 1 :
         i <= j /\ IsBroadening(q[j].cmd) /\ IsCheck(q[i].cmd) /\ q[i].seen.failing
  <2>1. h.broadened <=> \E j, i \in 1..n :
           i <= j /\ IsBroadening(past[j].cmd) /\ IsCheck(past[i].cmd) /\ past[i].seen.failing
    BY <1>f DEF FlagsOfV2
  <2>2. \A j, i \in 1..n + 1 : i <= j => j = n + 1 \/ (j \in 1..n /\ i \in 1..n)
    BY <1>q
  <2>3. (\E j, i \in 1..n + 1 :
           i <= j /\ IsBroadening(q[j].cmd) /\ IsCheck(q[i].cmd) /\ q[i].seen.failing)
        => h.broadened \/ (g.failed /\ IsBroadening(e.cmd))
    BY <2>1, <2>2, <1>1, <1>q
  <2>4. h.broadened => \E j, i \in 1..n + 1 :
           i <= j /\ IsBroadening(q[j].cmd) /\ IsCheck(q[i].cmd) /\ q[i].seen.failing
    BY <2>1, <1>q
  <2>5. ASSUME g.failed, IsBroadening(e.cmd)
        PROVE  \E j, i \in 1..n + 1 :
                 i <= j /\ IsBroadening(q[j].cmd) /\ IsCheck(q[i].cmd) /\ q[i].seen.failing
    <3>1. PICK i \in 1..n + 1 : IsCheck(q[i].cmd) /\ q[i].seen.failing
      BY <2>5, <1>1
    <3>2. n + 1 \in 1..n + 1 /\ i <= n + 1
      BY <3>1, <1>q
    <3> QED
      BY <2>5, <3>1, <3>2, <1>q
  <2> QED
    BY <2>3, <2>4, <2>5, <1>g
<1>5. /\ h.streak <= n /\ (n > 0 => h.streak > 0)
      /\ \A j \in 1..n : j > n - h.streak => action_family(past[j].cmd) = h.family
      /\ \A j \in 1..n : j = n - h.streak => action_family(past[j].cmd) # h.family
  BY <1>f DEF FlagsOfV2
<1>l. g.streak \in Nat /\ g.streak > 0 /\ g.streak <= Len(q)
  BY <1>5, <1>h, <1>q
<1>c. ASSUME NEW j \in 1..Len(q), j > Len(q) - g.streak
      PROVE  action_family(q[j].cmd) = g.family
  <2>1. CASE j = n + 1
    BY <2>1, <1>h, <1>q
  <2>2. CASE j \in 1..n
    <3>1. action_family(e.cmd) = h.family /\ j > n - h.streak
      BY <2>2, <1>c, <1>h, <1>q
    <3> QED
      BY <2>2, <3>1, <1>5, <1>h, <1>q
  <2> QED
    BY <2>1, <2>2, <1>q
<1>d. ASSUME NEW j \in 1..Len(q), j = Len(q) - g.streak
      PROVE  action_family(q[j].cmd) # g.family
  <2>1. j \in 1..n
    BY <1>d, <1>l, <1>q
  <2>2. CASE action_family(e.cmd) = h.family
    <3>1. j = n - h.streak
      BY <2>2, <1>d, <1>h, <1>q
    <3> QED
      BY <2>1, <2>2, <3>1, <1>5, <1>h, <1>q
  <2>3. CASE action_family(e.cmd) # h.family
    <3>1. j = n /\ n > 0
      BY <2>1, <2>3, <1>d, <1>h, <1>q
    <3>2. j > n - h.streak
      BY <3>1, <1>5, <1>h, <1>q
    <3> QED
      BY <2>1, <2>3, <3>2, <1>5, <1>h, <1>q
  <2> QED
    BY <2>2, <2>3
<1>6. FlagsOfBoth(g, q)
  BY <1>1, <1>2, <1>q DEF FlagsOfBoth
<1>7. FlagsOfV2(g, q)
  <2>1. g.rechecked <=> \E i, k \in 1..Len(q) :
           i <= k /\ IsEdit(q[i].cmd) /\ IsCheck(q[k].cmd)
    BY <1>3, <1>q
  <2>2. g.broadened <=> \E j, i \in 1..Len(q) :
           i <= j /\ IsBroadening(q[j].cmd) /\ IsCheck(q[i].cmd) /\ q[i].seen.failing
    BY <1>4, <1>q
  <2> QED
    BY <2>1, <2>2, <1>l, <1>c, <1>d DEF FlagsOfV2
<1>8. Flags("v2", g, q)
  BY <1>6, <1>7 DEF Flags
<1> QED
  BY <1>8 DEF g, q

-----------------------------------------------------------------------------
(* What the hook does around an action.                                    *)

\* Before an action the hook counts it and notes its judgement; the flags stay.
LEMMA BeforeKeeps ==
  ASSUME NEW h \in Hook, NEW a \in Commands
  PROVE  /\ before_action(h, a) \in Hook
         /\ before_action(h, a).index = h.index + 1
         /\ before_action(h, a).events =
               Append(h.events, [event |-> "before", blocked |-> blocked(h, a),
                                 would |-> would_have_blocked(h, a)])
         /\ \A p, past : Flags(p, h, past) => Flags(p, before_action(h, a), past)
<1> DEFINE e == [event |-> "before", blocked |-> blocked(h, a),
                 would |-> would_have_blocked(h, a)]
           g == before_action(h, a)
<1>1. g = [h EXCEPT !.events = Append(h.events, e), !.index = h.index + 1]
  BY DEF before_action
<1>2. e \in Event
  BY DEF Event, blocked, would_have_blocked
<1>3. Append(h.events, e) \in Seq(Event)
  BY <1>2, Appended DEF Hook
<1> HIDE DEF e, g
<1>i. h.index + 1 \in Nat
  BY DEF Hook
<1>4. g \in Hook
  BY <1>1, <1>3, <1>i DEF Hook
<1>7. g.index = h.index + 1 /\ g.events = Append(h.events, e)
  BY <1>1 DEF Hook
<1>5. /\ g.failed = h.failed /\ g.patched = h.patched /\ g.rechecked = h.rechecked
      /\ g.guarded = h.guarded /\ g.regressed = h.regressed /\ g.broadened = h.broadened
      /\ g.streak = h.streak /\ g.family = h.family
  BY <1>1 DEF Hook
<1>6. ASSUME NEW p, NEW past, Flags(p, h, past)
      PROVE  Flags(p, g, past)
  BY <1>5, <1>6 DEF Flags, FlagsOfBoth, FlagsOfV1, FlagsOfV2
<1> QED
  BY <1>4, <1>6, <1>7 DEF e, g

\* After an action it notes what was observed.
LEMMA AfterKeeps ==
  ASSUME NEW h \in Hook, NEW a \in Commands,
         NEW seen \in [failing : BOOLEAN, regression : BOOLEAN]
  PROVE  /\ after_action(h, a, seen) \in Hook
         /\ after_action(h, a, seen).index = h.index
         /\ after_action(h, a, seen).events = Append(h.events, Observed)
<1>1. Append(h.events, Observed) \in Seq(Event)
  BY Appended DEF Hook, Observed, Event
<1>3. action_family(a) \in Families
  BY DEF Families
<1> DEFINE v1 == after_action_v1(h, a, seen)
           v2 == after_action_v2(h, a, seen)
<1>4. v1.index = h.index /\ v1.events = Append(h.events, Observed)
  BY DEF after_action_v1, Hook
<1>5. v2.index = h.index /\ v2.events = Append(h.events, Observed)
  BY DEF after_action_v2, Hook
<1>6. v1 \in Hook
  <2> DEFINE patched == h.patched \/ IsEdit(a)
             failed == h.failed \/ (IsCheck(a) /\ seen.failing)
             rechecked == h.rechecked \/ (patched /\ IsCheck(a) /\ ~IsGuard(a))
             guarded == h.guarded \/ (patched /\ IsGuard(a))
             regressed == h.regressed \/ (IsGuard(a) /\ seen.regression)
             events == Append(h.events, Observed)
  <2>1. v1 = [h EXCEPT !.failed = failed, !.patched = patched, !.rechecked = rechecked,
                       !.guarded = guarded, !.regressed = regressed, !.events = events]
    BY DEF after_action_v1
  <2>2. /\ failed \in BOOLEAN /\ patched \in BOOLEAN /\ rechecked \in BOOLEAN
        /\ guarded \in BOOLEAN /\ regressed \in BOOLEAN /\ events \in Seq(Event)
    BY <1>1 DEF Hook
  <2> HIDE DEF v1, failed, patched, rechecked, guarded, regressed, events
  <2>3. v1 = [failed |-> failed, broadened |-> h.broadened, patched |-> patched,
              rechecked |-> rechecked, guarded |-> guarded, regressed |-> regressed,
              family |-> h.family, streak |-> h.streak, index |-> h.index, events |-> events]
    BY <2>1 DEF Hook
  <2> QED
    BY <2>2, <2>3 DEF Hook
<1>7. v2 \in Hook
  <2> DEFINE failed == h.failed \/ (IsCheck(a) /\ seen.failing)
             streak == IF action_family(a) = h.family THEN h.streak + 1 ELSE 1
             family == action_family(a)
             broadened == h.broadened \/ (failed /\ IsBroadening(a))
             patched == h.patched \/ IsEdit(a)
             rechecked == h.rechecked \/ ((h.patched \/ IsEdit(a)) /\ IsCheck(a))
             events == Append(h.events, Observed)
  <2>1. v2 = [h EXCEPT !.streak = streak, !.family = family, !.failed = failed,
                       !.broadened = broadened, !.patched = patched, !.rechecked = rechecked,
                       !.events = events]
    BY DEF after_action_v2
  <2>2. /\ failed \in BOOLEAN /\ patched \in BOOLEAN /\ rechecked \in BOOLEAN
        /\ broadened \in BOOLEAN /\ events \in Seq(Event)
    BY <1>1 DEF Hook
  <2>3. family \in Families /\ streak \in Nat
    BY <1>3 DEF Hook
  <2> HIDE DEF v2, failed, streak, family, broadened, patched, rechecked, events
  <2>4. v2 = [failed |-> failed, broadened |-> broadened, patched |-> patched,
              rechecked |-> rechecked, guarded |-> h.guarded, regressed |-> h.regressed,
              family |-> family, streak |-> streak, index |-> h.index, events |-> events]
    BY <2>1 DEF Hook
  <2>5. h.guarded \in BOOLEAN /\ h.regressed \in BOOLEAN /\ h.index \in Nat
    BY DEF Hook
  <2> QED
    BY <2>2, <2>3, <2>4, <2>5 DEF Hook
<1> QED
  BY <1>4, <1>5, <1>6, <1>7 DEF after_action

\* A longer log has the same past before each of its actions.
LEMMA PastIsKept ==
  ASSUME NEW q \in Seq(Entry), NEW e \in Entry
  PROVE  /\ \A i \in 1..Len(q) + 1 : SubSeq(Append(q, e), 1, i - 1) = SubSeq(q, 1, i - 1)
         /\ SubSeq(q, 1, Len(q)) = q
<1>1. Len(q) \in Nat /\ Append(q, e) \in Seq(Entry) /\ Len(Append(q, e)) = Len(q) + 1
  BY Appended
<1>2. SubSeq(q, 1, Len(q)) = q
  BY SubSeqFull
<1>3. ASSUME NEW i \in 1..Len(q) + 1
      PROVE  SubSeq(Append(q, e), 1, i - 1) = SubSeq(q, 1, i - 1)
  <2>1. /\ Len(SubSeq(q, 1, i - 1)) = i - 1 /\ SubSeq(q, 1, i - 1) \in Seq(Entry)
        /\ \A j \in 1..i - 1 : SubSeq(q, 1, i - 1)[j] = q[j]
    BY <1>1, <1>3
  <2>2. /\ Len(SubSeq(Append(q, e), 1, i - 1)) = i - 1
        /\ SubSeq(Append(q, e), 1, i - 1) \in Seq(Entry)
        /\ \A j \in 1..i - 1 : SubSeq(Append(q, e), 1, i - 1)[j] = Append(q, e)[j]
    BY <1>1, <1>3
  <2>3. \A j \in 1..i - 1 : Append(q, e)[j] = q[j]
    BY <1>1, <1>3, Appended
  <2> QED
    BY <2>1, <2>2, <2>3, SeqEqual
<1> QED
  BY <1>2, <1>3

-----------------------------------------------------------------------------
(* The invariant is inductive.                                             *)

LEMMA InitLInv == OfProtocols /\ LiveInit => LInv
<1> SUFFICES ASSUME OfProtocols, LiveInit
             PROVE  LInv
  OBVIOUS
<1>1. HookInit \in Hook /\ HookInit.events = << >>
  BY EmptySeq DEF HookInit, Hook, Families
<1>2. Typed
  BY <1>1, EmptySeq DEF LiveInit, Typed, NoAction
<1>3. Begins /\ ModelReplays /\ HookCounts /\ BlocksEnd /\ JudgedOnThePast
  BY <1>1 DEF LiveInit, Begins, ModelReplays, HookCounts, BlocksEnd, JudgedOnThePast, hook_attached
<1>4. FlagsRemember /\ Reported
  BY DEF LiveInit, FlagsRemember, hook_attached, Reported, NoLiveReport
<1> QED
  BY <1>2, <1>3, <1>4 DEF LInv

\* A step of the run that touches neither the model, the hook nor the log.
LEMMA AsideKeeps ==
  ASSUME LInv, UNCHANGED <<spec, model, live_hook, act, attached, log, constraint_block_event>>,
         \/ live_pc' = "report" /\ live_pc \notin {"report", "done"}
         \/ live_pc' = "done" /\ live_pc = "report"
         \/ live_pc = "queried" /\ live_pc' = "running"
         \/ live_pc = "queried" /\ live_pc' = "started" /\ ~hook_attached
  PROVE  /\ Typed' /\ Begins' /\ ModelReplays' /\ HookCounts' /\ FlagsRemember'
         /\ JudgedOnThePast' /\ BlocksEnd'
<1>1. Typed'
  BY DEF LInv, Typed
<1>2. Begins'
  BY DEF LInv, Begins, hook_attached
<1>3. ModelReplays'
  BY DEF LInv, ModelReplays
<1>4. HookCounts'
  BY DEF LInv, HookCounts, hook_attached
<1>5. FlagsRemember'
  BY DEF LInv, FlagsRemember, hook_attached
<1>6. JudgedOnThePast'
  BY DEF LInv, JudgedOnThePast, hook_attached, Before
<1>7. BlocksEnd'
  BY DEF LInv, BlocksEnd, hook_attached
<1> QED
  BY <1>1, <1>2, <1>3, <1>4, <1>5, <1>6, <1>7

LEMMA AttachKeeps ==
  ASSUME LInv, attach
  PROVE  /\ Typed' /\ Begins' /\ ModelReplays' /\ HookCounts' /\ FlagsRemember'
         /\ JudgedOnThePast' /\ BlocksEnd'
<1>1. /\ UNCHANGED <<spec, model, live_hook, act, log, constraint_block_event>>
      /\ live_pc = "start" /\ live_pc' = "running" /\ attached' = TRUE
  BY DEF attach
<1>2. live_hook = HookInit /\ log = << >> /\ ~attached
  BY <1>1 DEF LInv, Begins, hook_attached
<1>3. HookInit.events = << >> /\ HookInit.index = 0
  BY DEF HookInit
<1>4. Typed' /\ Begins' /\ ModelReplays'
  BY <1>1 DEF LInv, Typed, Begins, ModelReplays, hook_attached
<1>5. HookCounts' /\ BlocksEnd' /\ JudgedOnThePast'
  BY <1>1, <1>2, <1>3 DEF HookCounts, BlocksEnd, JudgedOnThePast, hook_attached
<1>6. Flags(spec.protocol, HookInit, << >>)
  BY DEF Flags, FlagsOfBoth, FlagsOfV1, FlagsOfV2, HookInit
<1>7. FlagsRemember'
  BY <1>1, <1>2, <1>6 DEF FlagsRemember
<1> QED
  BY <1>4, <1>5, <1>7

LEMMA QueryKeeps ==
  ASSUME OfProtocols, LInv, query
  PROVE  /\ Typed' /\ Begins' /\ ModelReplays' /\ HookCounts' /\ FlagsRemember'
         /\ JudgedOnThePast' /\ BlocksEnd'
<1>1. /\ UNCHANGED <<spec, live_hook, log, attached, constraint_block_event>>
      /\ live_pc = "running" /\ live_pc' = "queried"
      /\ model' = asked(model, next_phase)
  BY DEF query
<1>2. PICK a \in Actions : act' = [cmd |-> a, live |-> next_phase = "generation"]
  BY DEF query
<1>3. a \in Commands /\ next_phase \in {"replay", "generation"}
  BY <1>2 DEF Actions, Commands, next_phase
<1>4. /\ model'.query_count = model.query_count + 1
      /\ model'.events = Append(model.events, next_phase)
      /\ model.query_count \in Nat /\ model.events \in Seq({"replay", "generation"})
  BY <1>1 DEF asked, LInv, Typed
<1>5. /\ model'.events \in Seq({"replay", "generation"})
      /\ Len(model'.events) = Len(model.events) + 1
      /\ \A i \in 1..Len(model.events) : model'.events[i] = model.events[i]
      /\ model'.events[Len(model.events) + 1] = next_phase
      /\ \A i \in 1..Len(model.events) + 1 : i \in 1..Len(model.events) \/ i = Len(model.events) + 1
  BY <1>3, <1>4, Appended
<1>6. Typed'
  <2>1. model' \in [query_count : Nat, events : Seq({"replay", "generation"})]
    BY <1>1, <1>4, <1>5 DEF asked
  <2>2. act' \in [cmd : Commands \cup {"none"}, live : BOOLEAN] /\ act'.cmd \in Commands
    BY <1>2, <1>3
  <2> QED
    BY <1>1, <2>1, <2>2 DEF LInv, Typed
<1>7. Begins'
  BY <1>1 DEF LInv, Begins, hook_attached
<1>8. ModelReplays'
  <2>1. Len(spec.replay) \in Nat
    BY LenProperties DEF LInv, Typed, OfProtocols
  <2>2. Len(model.events) = model.query_count
    BY DEF LInv, ModelReplays
  <2>3. \A i \in 1..Len(model'.events) : (model'.events[i] = "replay") <=> (i <= Len(spec.replay))
    <3>1. next_phase = "replay" <=> Len(model.events) + 1 <= Len(spec.replay)
      BY <1>4, <2>1, <2>2 DEF next_phase
    <3> QED
      BY <1>5, <3>1 DEF LInv, ModelReplays
  <2>4. act'.live => model'.query_count > Len(spec.replay)
    <3>1. act'.live <=> next_phase = "generation"
      BY <1>2
    <3>2. next_phase = "generation" => ~(model.query_count < Len(spec.replay))
      BY DEF next_phase
    <3> QED
      BY <1>4, <2>1, <3>1, <3>2
  <2>5. \A i \in 1..Len(log) : log[i].live => log[i].place > Len(spec.replay)
    BY DEF LInv, ModelReplays
  <2> QED
    BY <1>1, <1>4, <1>5, <2>2, <2>3, <2>4, <2>5 DEF ModelReplays
<1>9. HookCounts' /\ BlocksEnd'
  BY <1>1 DEF LInv, HookCounts, BlocksEnd, hook_attached
<1>10. FlagsRemember'
  BY <1>1 DEF LInv, FlagsRemember, hook_attached
<1>11. JudgedOnThePast'
  <2>1. hook_attached => Len(live_hook.events) = 2 * Len(log)
    BY <1>1 DEF LInv, HookCounts
  <2>2. Len(log) \in Nat
    BY LenProperties DEF LInv, Typed
  <2>3. ASSUME hook_attached, NEW i \in 1..(Len(log) + 1), 2 * i - 1 <= Len(live_hook.events)
        PROVE  i \in 1..Len(log)
    BY <2>1, <2>2, <2>3
  <2> QED
    BY <1>1, <2>2, <2>3 DEF LInv, JudgedOnThePast, hook_attached, Before
<1> QED
  BY <1>6, <1>7, <1>8, <1>9, <1>10, <1>11

\* The hook judges an action: whether it lets it pass, or a block ends the run.
LEMMA JudgementKeeps ==
  ASSUME OfProtocols, LInv, hook_attached, live_pc = "queried",
         live_hook' = before_action(live_hook, act.cmd),
         UNCHANGED <<spec, model, act, attached, log>>,
         \/ live_pc' = "started" /\ ~blocked(live_hook, act.cmd) /\ UNCHANGED constraint_block_event
         \/ live_pc' = "report" /\ (constraint_block_event' \/ Swallows)
  PROVE  /\ Typed' /\ Begins' /\ ModelReplays' /\ HookCounts' /\ FlagsRemember'
         /\ JudgedOnThePast' /\ BlocksEnd'
<1> DEFINE n == Len(log)
           e == [event |-> "before", blocked |-> blocked(live_hook, act.cmd),
                 would |-> would_have_blocked(live_hook, act.cmd)]
<1>1. /\ live_hook \in Hook /\ act.cmd \in Commands /\ log \in Seq(Entry) /\ n \in Nat
      /\ spec \in Specs
  BY LenProperties DEF LInv, Typed
<1>2. /\ live_hook' \in Hook /\ live_hook'.index = live_hook.index + 1
      /\ live_hook'.events = Append(live_hook.events, e)
      /\ \A p, past : Flags(p, live_hook, past) => Flags(p, live_hook', past)
  BY <1>1, BeforeKeeps
<1>3. Len(live_hook.events) = 2 * n /\ live_hook.index = n
  BY DEF LInv, HookCounts
<1>4. e \in Event /\ live_hook.events \in Seq(Event)
  BY <1>1 DEF Event, blocked, would_have_blocked, Hook
<1> HIDE DEF e
<1>5. /\ Len(live_hook'.events) = 2 * n + 1
      /\ \A i \in 1..2 * n : live_hook'.events[i] = live_hook.events[i]
      /\ live_hook'.events[2 * n + 1] = e
  BY <1>2, <1>3, <1>4, Appended
<1>6. Typed'
  BY <1>2 DEF LInv, Typed
<1>7. Begins'
  BY DEF LInv, Begins, hook_attached
<1>8. ModelReplays'
  BY DEF LInv, ModelReplays
<1>9. HookCounts'
  BY <1>2, <1>3, <1>5 DEF HookCounts
<1>10. FlagsRemember'
  BY <1>2 DEF LInv, FlagsRemember, hook_attached
<1>11. JudgedOnThePast'
  <2>1. /\ e.blocked <=> (n + 1 > Len(spec.replay) /\ ~Permitted(spec, log, act.cmd) /\ ~spec.observe)
        /\ e.would <=> (n + 1 > Len(spec.replay) /\ ~Permitted(spec, log, act.cmd) /\ spec.observe)
    <3>1. Violates(live_hook, act.cmd) # {} <=> ~Permitted(spec, log, act.cmd)
      BY <1>1, JudgedByFlags DEF LInv, FlagsRemember
    <3>2. ~in_replay_prefix(live_hook) <=> n + 1 > Len(spec.replay)
      <4>1. Len(spec.replay) \in Nat
        BY <1>1, LenProperties DEF OfProtocols
      <4> QED
        BY <4>1, <1>1, <1>3 DEF in_replay_prefix
    <3> QED
      BY <3>1, <3>2 DEF e, blocked, would_have_blocked
  <2>2. SubSeq(log, 1, (n + 1) - 1) = log
    BY <1>1, SubSeqFull
  <2>3. ASSUME NEW i \in 1..n, 2 * i - 1 <= 2 * n + 1
        PROVE  2 * i - 1 <= 2 * n /\ 2 * i - 1 \in 1..2 * n
    BY <1>1, <2>3
  <2>4. spec.observe \in BOOLEAN /\ e.blocked \in BOOLEAN /\ e.would \in BOOLEAN
    BY <1>1, <1>4 DEF OfProtocols, Event
  <2>5. ASSUME NEW i \in 1..(n + 1), 2 * i - 1 <= 2 * n + 1
        PROVE  LET event == live_hook'.events[2 * i - 1]
                   cmd == IF i <= n THEN log[i].cmd ELSE act.cmd
                   bars == i > Len(spec.replay) /\ ~Permitted(spec, SubSeq(log, 1, i - 1), cmd)
               IN  event.blocked = (bars /\ ~spec.observe) /\ event.would = (bars /\ spec.observe)
    <3>1. CASE i \in 1..n
      <4>1. 2 * i - 1 \in 1..2 * n /\ 2 * i - 1 <= Len(live_hook.events)
        BY <3>1, <2>3, <2>5, <1>3
      <4>2. live_hook'.events[2 * i - 1] = live_hook.events[2 * i - 1]
        BY <4>1, <1>5
      <4> QED
        BY <4>1, <4>2 DEF LInv, JudgedOnThePast, Before
    <3>2. CASE i = n + 1
      <4>1. 2 * i - 1 = 2 * n + 1 /\ ~(i <= n)
        BY <3>2, <1>1
      <4> QED
        BY <3>2, <4>1, <2>1, <2>2, <2>4, <1>5
    <3> QED
      BY <3>1, <3>2, <1>1
  <2> QED
    BY <2>5, <1>5 DEF JudgedOnThePast, Before
<1>12. BlocksEnd'
  <2>1. \A i \in 1..2 * n : ~live_hook.events[i].blocked
    BY <1>3 DEF LInv, BlocksEnd
  <2>2. \A i \in 1..2 * n + 1 : i \in 1..2 * n \/ i = 2 * n + 1
    BY <1>1
  <2>3. e.blocked => live_pc' = "report" /\ (constraint_block_event' \/ Swallows)
    BY DEF e
  <2> QED
    BY <1>5, <2>1, <2>2, <2>3 DEF BlocksEnd
<1> QED
  BY <1>6, <1>7, <1>8, <1>9, <1>10, <1>11, <1>12

\* The action was executed: the log has it, and the hook its observation.
LEMMA ExecutedKeeps ==
  ASSUME OfProtocols, LInv, on_action_executed
  PROVE  /\ Typed' /\ Begins' /\ ModelReplays' /\ HookCounts' /\ FlagsRemember'
         /\ JudgedOnThePast' /\ BlocksEnd'
<1> DEFINE n == Len(log)
<1>1. /\ live_hook \in Hook /\ act.cmd \in Commands /\ act.live \in BOOLEAN /\ log \in Seq(Entry)
      /\ n \in Nat /\ spec \in Specs /\ model.query_count \in Nat
      /\ live_pc = "started" /\ live_pc' \in {"report", "running"}
      /\ UNCHANGED <<spec, model, act, attached, constraint_block_event>>
  BY LenProperties DEF LInv, Typed, on_action_executed
<1>2. PICK seen \in Observations :
         /\ live_hook' = IF hook_attached THEN after_action(live_hook, act.cmd, seen) ELSE live_hook
         /\ log' = Append(log, [cmd |-> act.cmd, seen |-> seen, live |-> act.live,
                                place |-> model.query_count])
  BY DEF on_action_executed
<1> DEFINE e == [cmd |-> act.cmd, seen |-> seen, live |-> act.live, place |-> model.query_count]
<1>3. seen \in [failing : BOOLEAN, regression : BOOLEAN]
  BY <1>2 DEF Observations
<1>4. /\ e \in Entry /\ e.cmd = act.cmd /\ e.seen = seen
      /\ e.live = act.live /\ e.place = model.query_count
  BY <1>1, <1>3 DEF Entry
<1> HIDE DEF e
<1>5. log' = Append(log, e)
  BY <1>2 DEF e
<1>6. /\ log' \in Seq(Entry) /\ Len(log') = n + 1
      /\ \A i \in 1..n : log'[i] = log[i]
      /\ log'[n + 1] = e
      /\ \A i \in 1..n + 1 : i \in 1..n \/ i = n + 1
  BY <1>1, <1>4, <1>5, Appended
<1>7. /\ hook_attached' <=> hook_attached
      /\ live_hook' \in Hook
      /\ hook_attached => live_hook'.index = live_hook.index /\ live_hook'.events = Append(live_hook.events, Observed)
      /\ ~hook_attached => live_hook' = live_hook
  BY <1>1, <1>2, <1>3, AfterKeeps DEF hook_attached
<1>8. hook_attached => Len(live_hook.events) = 2 * n + 1 /\ live_hook.index = n + 1
  BY <1>1 DEF LInv, HookCounts
<1>9. /\ Observed \in Event /\ live_hook.events \in Seq(Event) /\ ~Observed.blocked
  BY <1>1 DEF Hook, Observed, Event
<1>10. hook_attached =>
         /\ Len(live_hook'.events) = 2 * n + 2
         /\ \A i \in 1..2 * n + 1 : live_hook'.events[i] = live_hook.events[i]
         /\ live_hook'.events[2 * n + 2] = Observed
  <2> SUFFICES ASSUME hook_attached
               PROVE  /\ Len(live_hook'.events) = 2 * n + 2
                      /\ \A i \in 1..2 * n + 1 : live_hook'.events[i] = live_hook.events[i]
                      /\ live_hook'.events[2 * n + 2] = Observed
    OBVIOUS
  <2>1. /\ Len(live_hook'.events) = (2 * n + 1) + 1
        /\ \A i \in 1..2 * n + 1 : live_hook'.events[i] = live_hook.events[i]
        /\ live_hook'.events[(2 * n + 1) + 1] = Observed
    BY <1>7, <1>8, <1>9, Appended
  <2>2. (2 * n + 1) + 1 = 2 * n + 2
    BY <1>1
  <2> QED
    BY <2>1, <2>2
<1>11. Typed'
  BY <1>1, <1>6, <1>7 DEF LInv, Typed
<1>12. Begins'
  BY <1>1, <1>7 DEF LInv, Begins
<1>13. ModelReplays'
  <2>1. e.live => e.place > Len(spec.replay)
    BY <1>1, <1>4 DEF LInv, ModelReplays
  <2>2. \A i \in 1..Len(log') : log'[i].live => log'[i].place > Len(spec.replay)
    BY <1>6, <2>1 DEF LInv, ModelReplays
  <2> QED
    BY <1>1, <2>2 DEF LInv, ModelReplays
<1>14. HookCounts'
  <2>1. hook_attached => Len(live_hook'.events) = 2 * Len(log') /\ live_hook'.index = Len(log')
    BY <1>1, <1>6, <1>7, <1>8, <1>10
  <2> QED
    BY <1>1, <1>7, <2>1 DEF HookCounts
<1>15. FlagsRemember'
  <2>1. CASE hook_attached
    <3>1. Flags(spec.protocol, live_hook, log) /\ spec.protocol \in {"v1", "v2"}
      BY <1>1, <2>1 DEF LInv, FlagsRemember, OfProtocols
    <3>2. live_hook' = after_action(live_hook, e.cmd, e.seen)
      BY <1>2, <1>4, <2>1
    <3>3. Flags(spec.protocol, live_hook', Append(log, e))
      BY <1>1, <1>4, <3>1, <3>2, FlagsKept_v1, FlagsKept_v2 DEF after_action
    <3> QED
      BY <1>1, <1>5, <3>3 DEF FlagsRemember
  <2> QED
    BY <1>7, <2>1 DEF FlagsRemember
<1>16. JudgedOnThePast'
  <2>1. ASSUME hook_attached, NEW i \in 1..(Len(log') + 1), 2 * i - 1 <= Len(live_hook'.events)
        PROVE  /\ i \in 1..n + 1 /\ 2 * i - 1 \in 1..2 * n + 1 /\ 2 * i - 1 <= Len(live_hook.events)
               /\ live_hook'.events[2 * i - 1] = live_hook.events[2 * i - 1]
    <3>1. i \in 1..n + 1 /\ 2 * i - 1 \in 1..2 * n + 1
      BY <1>1, <1>6, <1>10, <2>1
    <3> QED
      BY <3>1, <2>1, <1>1, <1>8, <1>10
  <2>2. ASSUME NEW i \in 1..n + 1
        PROVE  /\ SubSeq(log', 1, i - 1) = SubSeq(log, 1, i - 1)
               /\ i <= Len(log')
               /\ log'[i].cmd = IF i <= n THEN log[i].cmd ELSE act.cmd
    BY <1>1, <1>4, <1>5, <1>6, PastIsKept
  <2>3. ASSUME hook_attached, NEW i \in 1..(Len(log') + 1), 2 * i - 1 <= Len(live_hook'.events)
        PROVE  LET event == live_hook'.events[2 * i - 1]
                   cmd == IF i <= Len(log') THEN log'[i].cmd ELSE act.cmd
                   bars == i > Len(spec.replay) /\ ~Permitted(spec, SubSeq(log', 1, i - 1), cmd)
               IN  event.blocked = (bars /\ ~spec.observe) /\ event.would = (bars /\ spec.observe)
    <3>1. /\ i \in 1..n + 1 /\ 2 * i - 1 <= Len(live_hook.events)
          /\ live_hook'.events[2 * i - 1] = live_hook.events[2 * i - 1]
      BY <2>1, <2>3
    <3>2. LET event == live_hook.events[2 * i - 1]
              cmd == IF i <= n THEN log[i].cmd ELSE act.cmd
              bars == i > Len(spec.replay) /\ ~Permitted(spec, SubSeq(log, 1, i - 1), cmd)
          IN  event.blocked = (bars /\ ~spec.observe) /\ event.would = (bars /\ spec.observe)
      BY <2>3, <3>1 DEF LInv, JudgedOnThePast, Before
    <3> QED
      BY <3>1, <3>2, <2>2
  <2> QED
    BY <1>1, <1>7, <2>3 DEF JudgedOnThePast, Before
<1>17. BlocksEnd'
  <2>1. hook_attached => \A i \in 1..2 * n + 1 : ~live_hook.events[i].blocked
    BY <1>1, <1>8 DEF LInv, BlocksEnd
  <2>2. \A i \in 1..2 * n + 2 : i \in 1..2 * n + 1 \/ i = 2 * n + 2
    BY <1>1
  <2> QED
    BY <1>7, <1>9, <1>10, <2>1, <2>2 DEF BlocksEnd
<1> QED
  BY <1>11, <1>12, <1>13, <1>14, <1>15, <1>16, <1>17

LEMMA ReportedKeeps ==
  ASSUME LInv, LiveNext
  PROVE  Reported'
<1>1. CASE write_live_report
  <2>1. /\ arm_report' = [decision |-> decision, passed |-> gates, allow |-> live_arm_complete /\ gates]
        /\ UNCHANGED <<spec, live_hook, run_error, constraint_block_event, run_single_started, attached>>
        /\ live_pc' = "done"
    BY <1>1 DEF write_live_report
  <2>2. live_arm_complete /\ gates => decision = "run_completed"
    BY DEF live_arm_complete, gates, decision, should_run
  <2>3. (live_arm_complete' <=> live_arm_complete) /\ (gates' <=> gates)
    BY <2>1 DEF live_arm_complete, gates, replay_ready, hook_attached
  <2> QED
    BY <2>1, <2>2, <2>3 DEF Reported
<1>2. CASE ~write_live_report
  <2>1. live_pc # "done" /\ arm_report' = arm_report
    BY <1>2 DEF LiveNext, skip_live_run, factory_fails, attach, query, run_fails, requery,
                action_started_control, on_action_started, constraint_violation,
                constraint_swallowed, on_action_executed, run_exits
  <2> QED
    BY <2>1 DEF LInv, Reported
<1> QED
  BY <1>1, <1>2

LEMMA NextKeepsLInv == OfProtocols /\ LInv /\ [LiveNext]_live_vars => LInv'
<1> SUFFICES ASSUME OfProtocols, LInv, [LiveNext]_live_vars
             PROVE  LInv'
  OBVIOUS
<1>1. CASE LiveNext
  <2>0. SUFFICES /\ Typed' /\ Begins' /\ ModelReplays' /\ HookCounts' /\ FlagsRemember'
                 /\ JudgedOnThePast' /\ BlocksEnd'
    BY <1>1, ReportedKeeps DEF LInv
  <2>1. CASE skip_live_run \/ factory_fails
    BY <2>1, AsideKeeps DEF skip_live_run, factory_fails
  <2>2. CASE run_fails \/ run_exits
    BY <2>2, AsideKeeps DEF run_fails, run_exits
  <2>3. CASE requery \/ action_started_control \/ write_live_report
    BY <2>3, AsideKeeps DEF requery, action_started_control, write_live_report
  <2>4. CASE attach
    BY <2>4, AttachKeeps
  <2>5. CASE query
    BY <2>5, QueryKeeps
  <2>6. CASE on_action_started
    BY <2>6, JudgementKeeps DEF on_action_started
  <2>7. CASE constraint_violation
    BY <2>7, JudgementKeeps DEF constraint_violation
  <2>8. CASE constraint_swallowed
    BY <2>8, JudgementKeeps DEF constraint_swallowed
  <2>9. CASE on_action_executed
    BY <2>9, ExecutedKeeps
  <2> QED
    BY <1>1, <2>1, <2>2, <2>3, <2>4, <2>5, <2>6, <2>7, <2>8, <2>9 DEF LiveNext
<1>2. CASE UNCHANGED live_vars
  <2>1. Typed' /\ Begins' /\ ModelReplays' /\ HookCounts' /\ FlagsRemember'
    BY <1>2 DEF live_vars, LInv, Typed, Begins, ModelReplays, HookCounts, FlagsRemember, hook_attached
  <2>2. JudgedOnThePast' /\ BlocksEnd'
    BY <1>2 DEF live_vars, LInv, JudgedOnThePast, BlocksEnd, hook_attached, Before
  <2>3. Reported'
    BY <1>2 DEF live_vars, LInv, Reported, live_arm_complete, gates, replay_ready, hook_attached
  <2> QED
    BY <2>1, <2>2, <2>3 DEF LInv
<1> QED
  BY <1>1, <1>2

-----------------------------------------------------------------------------
LEMMA LInvIsInvariant == ASSUME OfProtocols PROVE LiveSpec => []LInv
<1>1. LiveInit => LInv
  BY InitLInv
<1>2. LInv /\ [LiveNext]_live_vars => LInv'
  BY NextKeepsLInv
<1> QED
  BY <1>1, <1>2, PTL DEF LiveSpec

\* The i-th hook event pair judges the i-th action on exactly the actions before
\* it: the flags of ProtocolV1RuntimeState and ProtocolV2RuntimeState answer what
\* the constraints ask of the past, for any prescription, prefix and run.
THEOREM FlagsSayThePast == ASSUME OfProtocols PROVE LiveSpec => []JudgedOnThePast
<1>1. LInv => JudgedOnThePast
  BY DEF LInv
<1> QED
  BY <1>1, LInvIsInvariant, PTL

\* No action of the live model escapes the constraints of an enforcing hook while
\* every output held an action.
THEOREM LiveActionsArePermitted == ASSUME OfProtocols PROVE LiveSpec => []GenerationIsConstrained
<1>1. ASSUME OfProtocols, LInv
      PROVE  GenerationIsConstrained
  <2> SUFFICES ASSUME Enforcing, \A i \in 1..Len(log) : log[i].place = i,
                      NEW i \in 1..Len(log), log[i].live
               PROVE  Permitted(spec, Before(i), log[i].cmd)
    BY DEF GenerationIsConstrained
  <2>1. hook_attached /\ ~spec.observe /\ Len(log) \in Nat
    BY <1>1, LenProperties DEF Enforcing, LInv, Typed
  <2>2. i > Len(spec.replay)
    BY <1>1 DEF LInv, ModelReplays
  <2>3. Len(live_hook.events) \in {2 * Len(log), 2 * Len(log) + 1}
    BY <1>1, <2>1 DEF LInv, HookCounts
  <2>4. /\ 2 * i - 1 <= Len(live_hook.events) /\ 2 * i - 1 \in 1..Len(live_hook.events)
        /\ 2 * i - 1 # 2 * Len(log) + 1 /\ i \in 1..Len(log) + 1 /\ i <= Len(log)
    BY <2>1, <2>3
  <2>5. ~live_hook.events[2 * i - 1].blocked
    BY <1>1, <2>1, <2>4 DEF LInv, BlocksEnd
  <2>6. live_hook.events[2 * i - 1].blocked =
           ((i > Len(spec.replay) /\ ~Permitted(spec, Before(i), log[i].cmd)) /\ ~spec.observe)
    BY <1>1, <2>1, <2>4 DEF LInv, JudgedOnThePast
  <2> QED
    BY <2>1, <2>2, <2>5, <2>6
<1> QED
  BY <1>1, LInvIsInvariant, PTL

\* An arm is let into pair assembly only if its model replayed the whole prefix
\* before the live model was asked, the hook saw a treatment arm and no other, and
\* a block, if there was one, is one that SWE-agent swallowed: it was the end of the
\* run, and the action it forbade was not executed.
THEOREM AssembledArmsAreSound == ASSUME OfProtocols PROVE LiveSpec => []AssemblyIsSound
<1>1. ASSUME OfProtocols, LInv
      PROVE  AssemblyIsSound
  <2> SUFFICES ASSUME arm_report.allow
               PROVE  /\ \A i \in 1..Len(model.events) :
                            (model.events[i] = "replay") <=> (i <= Len(spec.replay))
                      /\ (spec.arm = "treatment") <=> (live_hook.events # << >>)
                      /\ \A i \in 1..Len(live_hook.events) :
                            live_hook.events[i].blocked =>
                               Swallows /\ i = Len(live_hook.events) /\ i = 2 * Len(log) + 1
                      /\ arm_report.decision = "run_completed"
    BY DEF AssemblyIsSound
  <2>1. live_arm_complete /\ gates /\ arm_report.decision = "run_completed"
    BY <1>1 DEF LInv, Reported
  <2>2. \A i \in 1..Len(model.events) : (model.events[i] = "replay") <=> (i <= Len(spec.replay))
    BY <1>1 DEF LInv, ModelReplays
  <2>3. ~hook_attached => live_hook.events = << >>
    BY <1>1 DEF LInv, Begins, HookInit
  <2>4. (spec.arm = "treatment") <=> (live_hook.events # << >>)
    BY <2>1, <2>3 DEF live_arm_complete, gates, hook_attached
  <2>5. ASSUME NEW i \in 1..Len(live_hook.events), live_hook.events[i].blocked
        PROVE  Swallows /\ i = Len(live_hook.events) /\ i = 2 * Len(log) + 1
    <3>1. CASE hook_attached
      BY <1>1, <2>1, <2>5, <3>1 DEF LInv, BlocksEnd, live_arm_complete
    <3>2. CASE ~hook_attached
      BY <2>3, <2>5, <3>2, EmptySeq
    <3> QED
      BY <3>1, <3>2
  <2> QED
    BY <2>1, <2>2, <2>4, <2>5
<1> QED
  BY <1>1, LInvIsInvariant, PTL

-----------------------------------------------------------------------------
(* Route B1.                                                               *)

LEMMA InitIInv == B1Init => IInv
BY DEF B1Init, IInv, TypeOK, HistoryIsPast, HookRemembers, LocalsRemember, ReportRemembers,
       NoHook, NoRun, NoReport, NoPatch, NoLabel, Executed, Submissions

\* What one query does to the hook: a leak leaves the count as it was, and a
\* hook that has attempted once stays as it is.
Hooks == [attempted : BOOLEAN, injected_count : {0, 1}, findings : BOOLEAN]

LEMMA QueryOfHook ==
  ASSUME NEW h \in Hooks, NEW leak \in BOOLEAN
  PROVE  LET after == maybe_capture_and_inject(h, leak)
         IN  /\ after \in Hooks
             /\ h.attempted => after = h
             /\ after # h /\ leak => after.attempted /\ after.injected_count = h.injected_count
             /\ after # h => h.injected_count = 0
<1>1. CASE h.injected_count = 0 /\ ~h.attempted /\ leak
  <2>1. capture(h, leak) = [h EXCEPT !.attempted = TRUE, !.findings = leak]
    BY <1>1 DEF capture, Hooks
  <2>2. QED
    BY <1>1, <2>1 DEF maybe_capture_and_inject, Hooks
<1>2. CASE h.injected_count = 0 /\ ~h.attempted /\ ~leak
  <2>1. capture(h, leak) = [h EXCEPT !.attempted = TRUE, !.findings = leak, !.injected_count = 1]
    BY <1>2 DEF capture, Hooks
  <2>2. QED
    BY <1>2, <2>1 DEF maybe_capture_and_inject, Hooks
<1>3. CASE ~(h.injected_count = 0 /\ ~h.attempted)
  BY <1>3 DEF maybe_capture_and_inject
<1>4. QED
  BY <1>1, <1>2, <1>3

LEMMA TypeKept == TypeOK /\ [B1Next]_b1_vars => TypeOK'
<1> SUFFICES ASSUME TypeOK, [B1Next]_b1_vars PROVE TypeOK'
  OBVIOUS
<1> USE DEF TypeOK, Submissions, Executed, NoHook, NoRun, NoReport, NoPatch, NoLabel, TornReport
<1>1. ASSUME NEW c \in Cells, NEW leak \in BOOLEAN, skip_run(c, leak) PROVE TypeOK'
  BY <1>1 DEF skip_run, history
<1>2. ASSUME NEW c \in Cells, NEW leak \in BOOLEAN, on_model_query(c, leak) PROVE TypeOK'
  <2>1. maybe_capture_and_inject(hook[c], leak) \in Hooks
    BY QueryOfHook DEF Hooks
  <2>2. hook' \in [Cells -> Hooks]
    BY <1>2, <2>1 DEF on_model_query, Hooks
  <2>3. leaked' \subseteq Executed /\ shown' = shown
    BY <1>2 DEF on_model_query, injector
  <2>4. QED
    BY <1>2, <2>2, <2>3 DEF on_model_query, Hooks
<1>3. ASSUME NEW c \in Cells, start(c) PROVE TypeOK'
  BY <1>3 DEF start, history
<1>4. ASSUME NEW c \in Cells, NEW exit_ok \in BOOLEAN, NEW submission \in Submissions,
             run_returns(c, exit_ok, submission)
      PROVE  TypeOK'
  BY <1>4 DEF run_returns, history
<1>5. ASSUME NEW c \in Cells, run_raises(c) PROVE TypeOK'
  BY <1>5 DEF run_raises, history
<1>6. ASSUME NEW c \in Cells, archive(c) PROVE TypeOK'
  BY <1>6 DEF archive, history
<1>7. ASSUME NEW c \in Cells, write_report(c) PROVE TypeOK'
  BY <1>7 DEF write_report, history
<1>8. ASSUME NEW c \in Cells, die(c) PROVE TypeOK'
  <2>1. pc' \in [Cells -> {"idle", "running", "over", "archived"}]
    BY <1>8 DEF die
  <2>2. hook' \in [Cells -> [attempted : BOOLEAN, injected_count : {0, 1}, findings : BOOLEAN]]
    BY <1>8 DEF die
  <2>3. run' = [run EXCEPT ![c] = NoRun] /\ UNCHANGED <<execs, started, patch, label, history>>
    BY <1>8 DEF die
  <2>4. kills' \in Nat
    BY <1>8 DEF die
  <2>5. CASE report' = report
    BY <2>1, <2>2, <2>3, <2>4, <2>5 DEF history
  <2>6. CASE report' = [report EXCEPT ![c] = TornReport]
    BY <2>1, <2>2, <2>3, <2>4, <2>6 DEF history
  <2>7. QED
    BY <1>8, <2>5, <2>6 DEF die
<1>9. ASSUME NEW c \in Cells, evaluate(c) PROVE TypeOK'
  BY <1>9 DEF evaluate, history
<1>10. CASE UNCHANGED b1_vars
  BY <1>10 DEF b1_vars, history
<1>11. QED
  BY <1>1, <1>2, <1>3, <1>4, <1>5, <1>6, <1>7, <1>8, <1>9, <1>10 DEF B1Next, Arm

\* Executions that have leaked are executions that have begun, and a new one
\* has a number that neither the report nor the locals of the cell have.
LEMMA HistoryKept == IInv /\ [B1Next]_b1_vars => HistoryIsPast'
<1> SUFFICES ASSUME IInv, [B1Next]_b1_vars PROVE HistoryIsPast'
  OBVIOUS
<1> USE DEF IInv, TypeOK, HistoryIsPast, Executed, NoRun, NoReport, TornReport
<1>1. ASSUME NEW c \in Cells, NEW leak \in BOOLEAN, skip_run(c, leak) PROVE HistoryIsPast'
  BY <1>1 DEF skip_run, history
<1>2. ASSUME NEW c \in Cells, NEW leak \in BOOLEAN, on_model_query(c, leak)
      PROVE  HistoryIsPast'
  <2>1. leaked' = leaked \/ leaked' = leaked \cup {<<c, execs[c]>>}
    BY <1>2 DEF on_model_query
  <2>2. UNCHANGED <<pc, execs, run, report>>
    BY <1>2 DEF on_model_query
  <2>3. QED
    BY <2>1, <2>2
<1>3. ASSUME NEW c \in Cells, start(c) PROVE HistoryIsPast'
  <2>1. \A d \in Cells : execs'[d] = IF d = c THEN execs[d] + 1 ELSE execs[d]
    BY <1>3 DEF start
  <2>2. \A d \in Cells : pc'[d] = IF d = c THEN "running" ELSE pc[d]
    BY <1>3 DEF start
  <2>3. UNCHANGED <<leaked, run, report>>
    BY <1>3 DEF start, history
  <2>4. \A e \in leaked : e[1] \in Cells /\ e[2] \in Nat
    OBVIOUS
  <2>5. \A e \in leaked' : e[2] <= execs'[e[1]]
    BY <2>1, <2>3, <2>4
  <2>6. ASSUME NEW d \in Cells
        PROVE  /\ run'[d].exec <= execs'[d] /\ report'[d].exec <= execs'[d]
               /\ pc'[d] = "running" => execs'[d] > report'[d].exec
    <3>1. /\ execs[d] \in Nat /\ run[d].exec \in Nat /\ report[d].exec \in Nat
          /\ run[d].exec <= execs[d] /\ report[d].exec <= execs[d]
          /\ pc[d] = "running" => execs[d] > report[d].exec
      OBVIOUS
    <3>2. QED
      BY <2>1, <2>2, <2>3, <3>1
  <2>7. QED
    BY <2>5, <2>6
<1>4. ASSUME NEW c \in Cells, NEW exit_ok \in BOOLEAN, NEW submission \in Submissions,
             run_returns(c, exit_ok, submission)
      PROVE  HistoryIsPast'
  BY <1>4 DEF run_returns, history
<1>5. ASSUME NEW c \in Cells, run_raises(c) PROVE HistoryIsPast'
  BY <1>5 DEF run_raises, history
<1>6. ASSUME NEW c \in Cells, archive(c) PROVE HistoryIsPast'
  BY <1>6 DEF archive, history
<1>7. ASSUME NEW c \in Cells, write_report(c) PROVE HistoryIsPast'
  BY <1>7 DEF write_report, history
<1>8. ASSUME NEW c \in Cells, die(c) PROVE HistoryIsPast'
  BY <1>8 DEF die, history
<1>9. ASSUME NEW c \in Cells, evaluate(c) PROVE HistoryIsPast'
  BY <1>9 DEF evaluate, history
<1>10. CASE UNCHANGED b1_vars
  BY <1>10 DEF b1_vars, history
<1>11. QED
  BY <1>1, <1>2, <1>3, <1>4, <1>5, <1>6, <1>7, <1>8, <1>9, <1>10 DEF B1Next, Arm, Submissions

Memory == HookRemembers /\ LocalsRemember /\ ReportRemembers

\* The count of zero that a leak leaves travels from the hook to the locals,
\* read or not, and from there to the report.
LEMMA MemoryKept == IInv /\ [B1Next]_b1_vars => Memory'
<1> SUFFICES ASSUME IInv, [B1Next]_b1_vars PROVE Memory'
  OBVIOUS
<1> USE DEF IInv, TypeOK, HistoryIsPast, Executed, Memory, HookRemembers, LocalsRemember,
            ReportRemembers, NoHook, NoRun, NoReport, TornReport
<1>1. ASSUME NEW c \in Cells, NEW leak \in BOOLEAN, skip_run(c, leak) PROVE Memory'
  BY <1>1 DEF skip_run, history
<1>2. ASSUME NEW c \in Cells, NEW leak \in BOOLEAN, on_model_query(c, leak) PROVE Memory'
  <2> DEFINE after == maybe_capture_and_inject(hook[c], leak)
  <2>1. pc[c] = "running" /\ UNCHANGED <<pc, execs, run, report>>
    BY <1>2 DEF on_model_query
  <2>2. \A d \in Cells : hook'[d] = IF d = c THEN after ELSE hook[d]
    BY <1>2 DEF on_model_query
  <2>3. hook[c] \in Hooks
    BY DEF Hooks
  <2>4. CASE leak /\ after # hook[c]
    <3>1. leaked' = leaked \cup {<<c, execs[c]>>}
      BY <1>2, <2>4 DEF on_model_query
    <3>2. after.attempted /\ after.injected_count = 0
      BY <2>3, <2>4, QueryOfHook
    <3>3. HookRemembers'
      BY <2>1, <2>2, <3>1, <3>2
    <3>4. LocalsRemember'
      BY <2>1, <3>1
    <3>5. ReportRemembers'
      BY <2>1, <3>1
    <3>6. QED
      BY <3>3, <3>4, <3>5
  <2>5. CASE ~leak \/ after = hook[c]
    <3>1. leaked' = leaked
      BY <1>2, <2>5 DEF on_model_query
    <3>2. hook[c].attempted => after = hook[c]
      BY <2>3, QueryOfHook
    <3>3. HookRemembers'
      BY <2>1, <2>2, <3>1, <3>2
    <3>4. QED
      BY <2>1, <3>1, <3>3
  <2>6. QED
    BY <2>4, <2>5
<1>3. ASSUME NEW c \in Cells, start(c) PROVE Memory'
  <2>1. \A d \in Cells : execs'[d] = IF d = c THEN execs[d] + 1 ELSE execs[d]
    BY <1>3 DEF start
  <2>2. \A d \in Cells : pc'[d] = IF d = c THEN "running" ELSE pc[d]
    BY <1>3 DEF start
  <2>3. UNCHANGED <<leaked, hook, run, report>>
    BY <1>3 DEF start, history
  <2>4. <<c, execs[c] + 1>> \notin leaked
    <3>1. ASSUME <<c, execs[c] + 1>> \in leaked PROVE FALSE
      <4>1. <<c, execs[c] + 1>>[2] <= execs[<<c, execs[c] + 1>>[1]]
        BY <3>1
      <4>2. QED
        BY <4>1
    <3>2. QED
      BY <3>1
  <2>5. HookRemembers'
    BY <2>1, <2>2, <2>3, <2>4
  <2>6. LocalsRemember' /\ ReportRemembers'
    BY <2>2, <2>3
  <2>7. QED
    BY <2>5, <2>6
<1>4. ASSUME NEW c \in Cells, NEW exit_ok \in BOOLEAN, NEW submission \in Submissions,
             run_returns(c, exit_ok, submission)
      PROVE  Memory'
  BY <1>4 DEF run_returns, history
<1>5. ASSUME NEW c \in Cells, run_raises(c) PROVE Memory'
  BY <1>5 DEF run_raises, history
<1>6. ASSUME NEW c \in Cells, archive(c) PROVE Memory'
  BY <1>6 DEF archive, history
<1>7. ASSUME NEW c \in Cells, write_report(c) PROVE Memory'
  BY <1>7 DEF write_report, history
<1>8. ASSUME NEW c \in Cells, die(c) PROVE Memory'
  <2>1. \A d \in Cells : pc'[d] = IF d = c THEN "idle" ELSE pc[d]
    BY <1>8 DEF die
  <2>2. UNCHANGED <<execs, leaked>>
    BY <1>8 DEF die, history
  <2>3. \A d \in Cells : d # c => hook'[d] = hook[d] /\ run'[d] = run[d]
    BY <1>8 DEF die
  <2>4. \A d \in Cells : report'[d] = report[d] \/ report'[d].state = "torn"
    BY <1>8 DEF die
  <2>5. HookRemembers' /\ LocalsRemember'
    BY <2>1, <2>2, <2>3
  <2>6. ReportRemembers'
    BY <2>2, <2>4
  <2>7. QED
    BY <2>5, <2>6
<1>9. ASSUME NEW c \in Cells, evaluate(c) PROVE Memory'
  BY <1>9 DEF evaluate, history
<1>10. CASE UNCHANGED b1_vars
  BY <1>10 DEF b1_vars, history
<1>11. QED
  <2> HIDE DEF IInv, TypeOK, HistoryIsPast, Memory
  <2>1. QED
    BY <1>1, <1>2, <1>3, <1>4, <1>5, <1>6, <1>7, <1>8, <1>9, <1>10 DEF B1Next, Arm, Submissions

LEMMA Inductive == IInv /\ [B1Next]_b1_vars => IInv'
BY TypeKept, HistoryKept, MemoryKept DEF IInv, Memory

\* Type correctness of the arms and their files, for any cells and bounds.
THEOREM B1TypeCorrect == B1Spec => []TypeOK
<1>1. IInv => TypeOK
  BY DEF IInv
<1>2. QED
  BY <1>1, InitIInv, Inductive, PTL DEF B1Spec

\* A treatment whose capture leaked is never valid evidence, whether its run
\* returned or raised, and whatever was executed, planned or killed since.
THEOREM LeaksAreVoid == B1Spec => []LeakIsVoid
<1>1. IInv => LeakIsVoid
  BY DEF IInv, TypeOK, ReportRemembers, LeakIsVoid, valid
<1>2. QED
  BY <1>1, InitIInv, Inductive, PTL DEF B1Spec
-----------------------------------------------------------------------------
(* The decision.  What a patch, a label and a report say of an execution    *)
(* agrees whenever they are of the same one.                               *)

\* Only a treatment has a hook whose capture can leak.
LeakedIsTreated == \A e \in leaked : Treated(e[1])

\* A cell's patch, and the label made of a patch, are of executions that have
\* begun; the execution under way has left neither before it is archived.
OutcomesArePast ==
  \A c \in Cells :
    /\ label[c].exec <= patch[c].exec /\ patch[c].exec <= execs[c]
    /\ label[c].there => label[c].exec > 0
    /\ pc[c] = "running" => patch[c].exec < execs[c]
    /\ pc[c] \in {"over", "archived"} =>
         \/ run[c].exec = 0 /\ run[c].submission = "none"
         \/ run[c].exec = execs[c] /\ run[c].exec > 0 /\ report[c].exec < run[c].exec
    /\ pc[c] = "over" /\ run[c].exec > 0 => patch[c].exec < run[c].exec

\* How an execution ended, in the locals, the report, the patch and the label.
OutcomesAgree ==
  \A c \in Cells :
    /\ label[c].there /\ label[c].exec = patch[c].exec => label[c].clean = patch[c].clean
    /\ report[c].state = "whole" /\ report[c].exec > 0 =>
         /\ patch[c].exec = report[c].exec => patch[c].clean = report[c].exit_ok
         /\ label[c].there /\ label[c].exec = report[c].exec => label[c].clean = report[c].exit_ok
    /\ pc[c] = "archived" /\ run[c].exec > 0 =>
         /\ patch[c].exec = run[c].exec => patch[c].clean = run[c].exit_ok
         /\ label[c].there /\ label[c].exec = run[c].exec => label[c].clean = run[c].exit_ok

VInv == IInv /\ LeakedIsTreated /\ OutcomesArePast /\ OutcomesAgree
LEMMA InitVInv == B1Init => VInv
BY InitIInv DEF B1Init, VInv, LeakedIsTreated, OutcomesArePast, OutcomesAgree, NoRun, NoReport,
                NoPatch, NoLabel

LEMMA TreatedKept == VInv /\ [B1Next]_b1_vars => LeakedIsTreated'
<1> SUFFICES ASSUME VInv, [B1Next]_b1_vars PROVE LeakedIsTreated'
  OBVIOUS
<1> USE DEF VInv, IInv, TypeOK, LeakedIsTreated
<1>1. ASSUME NEW c \in Cells, NEW leak \in BOOLEAN, skip_run(c, leak) PROVE LeakedIsTreated'
  BY <1>1 DEF skip_run, history
<1>2. ASSUME NEW c \in Cells, NEW leak \in BOOLEAN, on_model_query(c, leak) PROVE LeakedIsTreated'
  BY <1>2 DEF on_model_query, history
<1>3. ASSUME NEW c \in Cells, start(c) PROVE LeakedIsTreated'
  BY <1>3 DEF start, history
<1>4. ASSUME NEW c \in Cells, NEW exit_ok \in BOOLEAN, NEW submission \in Submissions,
             run_returns(c, exit_ok, submission) 
      PROVE  LeakedIsTreated'
  BY <1>4 DEF run_returns, history
<1>5. ASSUME NEW c \in Cells, run_raises(c) PROVE LeakedIsTreated'
  BY <1>5 DEF run_raises, history
<1>6. ASSUME NEW c \in Cells, archive(c) PROVE LeakedIsTreated'
  BY <1>6 DEF archive, history
<1>7. ASSUME NEW c \in Cells, write_report(c) PROVE LeakedIsTreated'
  BY <1>7 DEF write_report, history
<1>8. ASSUME NEW c \in Cells, die(c) PROVE LeakedIsTreated'
  BY <1>8 DEF die, history
<1>9. ASSUME NEW c \in Cells, evaluate(c) PROVE LeakedIsTreated'
  BY <1>9 DEF evaluate, history
<1>10. CASE UNCHANGED b1_vars
  BY <1>10 DEF b1_vars, history
<1>11. QED
  <2> HIDE DEF VInv, TypeOK, LeakedIsTreated
  <2>1. QED
    BY <1>1, <1>2, <1>3, <1>4, <1>5, <1>6, <1>7, <1>8, <1>9, <1>10 DEF B1Next, Arm, Submissions

LEMMA PastKept == VInv /\ [B1Next]_b1_vars => OutcomesArePast'
<1> SUFFICES ASSUME VInv, [B1Next]_b1_vars PROVE OutcomesArePast'
  OBVIOUS
<1> USE DEF VInv, IInv, TypeOK, HistoryIsPast, OutcomesArePast, NoRun, NoReport, TornReport
<1>1. ASSUME NEW c \in Cells, NEW leak \in BOOLEAN, skip_run(c, leak) PROVE OutcomesArePast'
  BY <1>1 DEF skip_run, history
<1>2. ASSUME NEW c \in Cells, NEW leak \in BOOLEAN, on_model_query(c, leak) PROVE OutcomesArePast'
  BY <1>2 DEF on_model_query, history
<1>3. ASSUME NEW c \in Cells, start(c) PROVE OutcomesArePast'
  BY <1>3 DEF start, history
<1>4. ASSUME NEW c \in Cells, NEW exit_ok \in BOOLEAN, NEW submission \in Submissions,
             run_returns(c, exit_ok, submission) 
      PROVE  OutcomesArePast'
  BY <1>4 DEF run_returns, history
<1>5. ASSUME NEW c \in Cells, run_raises(c) PROVE OutcomesArePast'
  BY <1>5 DEF run_raises, history
<1>6. ASSUME NEW c \in Cells, archive(c) PROVE OutcomesArePast'
  BY <1>6 DEF archive, history
<1>7. ASSUME NEW c \in Cells, write_report(c) PROVE OutcomesArePast'
  BY <1>7 DEF write_report, history
<1>8. ASSUME NEW c \in Cells, die(c) PROVE OutcomesArePast'
  BY <1>8 DEF die, history
<1>9. ASSUME NEW c \in Cells, evaluate(c) PROVE OutcomesArePast'
  BY <1>9 DEF evaluate, history
<1>10. CASE UNCHANGED b1_vars
  BY <1>10 DEF b1_vars, history
<1>11. QED
  <2> HIDE DEF VInv, TypeOK, OutcomesArePast
  <2>1. QED
    BY <1>1, <1>2, <1>3, <1>4, <1>5, <1>6, <1>7, <1>8, <1>9, <1>10 DEF B1Next, Arm, Submissions

LEMMA AgreementKept == VInv /\ [B1Next]_b1_vars => OutcomesAgree'
<1> SUFFICES ASSUME VInv, [B1Next]_b1_vars PROVE OutcomesAgree'
  OBVIOUS
<1> USE DEF VInv, IInv, TypeOK, HistoryIsPast, OutcomesArePast, OutcomesAgree, NoRun, NoReport, TornReport
<1>1. ASSUME NEW c \in Cells, NEW leak \in BOOLEAN, skip_run(c, leak) PROVE OutcomesAgree'
  BY <1>1 DEF skip_run, history
<1>2. ASSUME NEW c \in Cells, NEW leak \in BOOLEAN, on_model_query(c, leak) PROVE OutcomesAgree'
  BY <1>2 DEF on_model_query, history
<1>3. ASSUME NEW c \in Cells, start(c) PROVE OutcomesAgree'
  BY <1>3 DEF start, history
<1>4. ASSUME NEW c \in Cells, NEW exit_ok \in BOOLEAN, NEW submission \in Submissions,
             run_returns(c, exit_ok, submission) 
      PROVE  OutcomesAgree'
  BY <1>4 DEF run_returns, history
<1>5. ASSUME NEW c \in Cells, run_raises(c) PROVE OutcomesAgree'
  BY <1>5 DEF run_raises, history
<1>6. ASSUME NEW c \in Cells, archive(c) PROVE OutcomesAgree'
  BY <1>6 DEF archive, history
<1>7. ASSUME NEW c \in Cells, write_report(c) PROVE OutcomesAgree'
  BY <1>7 DEF write_report, history
<1>8. ASSUME NEW c \in Cells, die(c) PROVE OutcomesAgree'
  BY <1>8 DEF die, history
<1>9. ASSUME NEW c \in Cells, evaluate(c) PROVE OutcomesAgree'
  BY <1>9 DEF evaluate, history
<1>10. CASE UNCHANGED b1_vars
  BY <1>10 DEF b1_vars, history
<1>11. QED
  <2> HIDE DEF VInv, TypeOK, OutcomesAgree
  <2>1. QED
    BY <1>1, <1>2, <1>3, <1>4, <1>5, <1>6, <1>7, <1>8, <1>9, <1>10 DEF B1Next, Arm, Submissions

LEMMA VInductive == VInv /\ [B1Next]_b1_vars => VInv'
BY Inductive, TreatedKept, PastKept, AgreementKept DEF VInv

\* Of one execution, the usable controls are those whose runs fell out as their
\* labels say, and a treatment that counts is one whose capture did not leak.
LEMMA ControlsAreEvidence ==
  ASSUME VInv, Consistent, NEW a
  PROVE  Usable(a, "control") = Evidence(a, "control")
<1>1. ASSUME NEW c \in b1_assembled, c.arm = "control"
      PROVE  run_ok(c) <=> label[c].clean /\ <<c, label[c].exec>> \notin leaked
  <2>1. c \in Cells /\ label[c].exec = report[c].exec /\ label[c].there /\ report[c].state = "whole"
    BY DEF b1_assembled, Consistent
  <2>2. label[c].exec > 0
    BY <2>1 DEF VInv, OutcomesArePast
  <2>3. label[c].clean = report[c].exit_ok
    BY <2>1, <2>2 DEF VInv, OutcomesAgree
  <2>4. <<c, label[c].exec>> \notin leaked
    <3>1. SUFFICES ASSUME <<c, label[c].exec>> \in leaked PROVE FALSE
      OBVIOUS
    <3>2. Treated(<<c, label[c].exec>>[1])
      BY <3>1 DEF VInv, LeakedIsTreated
    <3>3. QED
      BY <1>1, <3>2 DEF Treated
  <2>5. QED
    BY <2>3, <2>4 DEF run_ok
<1>2. QED
  BY <1>1 DEF Usable, Evidence

LEMMA ValidIsEvidence ==
  ASSUME VInv, Consistent, NEW a, NEW c \in Usable(a, "treatment"), valid(c)
  PROVE  c \in Evidence(a, "treatment")
<1>1. /\ c \in Cells /\ label[c].exec = report[c].exec /\ label[c].there
      /\ report[c].state = "whole" /\ report[c].exit_ok /\ report[c].count = 1
  BY DEF Usable, b1_assembled, Consistent, run_ok, valid
<1>2. label[c].clean = report[c].exit_ok
  BY <1>1 DEF VInv, OutcomesArePast, OutcomesAgree
<1>3. <<c, label[c].exec>> \notin leaked
  BY <1>1 DEF VInv, IInv, ReportRemembers
<1>4. QED
  BY <1>1, <1>2, <1>3 DEF Usable, Evidence

\* A verdict rests on what the runs did: on controls that ran to their end and
\* failed, and on treatments whose captures were clean.  For any cells, though
\* arms are executed and evaluated again and die in between.
THEOREM VerdictsAreOfTheRuns == B1Spec => []VerdictIsOfTheRuns
<1>1. ASSUME VInv PROVE VerdictIsOfTheRuns
  <2>1. SUFFICES ASSUME Consistent
                 PROVE  /\ route_b1_decision = "signal_of_life" =>
                             \E a \in Anchors : /\ ControlFails(a)
                                                /\ \E c \in Evidence(a, "treatment") : label[c].resolved
                        /\ route_b1_decision = "futility_null" =>
                             \E a \in Anchors : ControlFails(a) /\ Evidence(a, "treatment") # {}
    BY DEF VerdictIsOfTheRuns
  <2>2. ASSUME NEW a \in Anchors, anchor_verdict(a) \in {"signal_of_life", "no_uplift"}
        PROVE  /\ ControlFails(a)
               /\ Evidence(a, "treatment") # {}
               /\ anchor_verdict(a) = "signal_of_life" =>
                    \E c \in Evidence(a, "treatment") : label[c].resolved
    <3> DEFINE treated == {c \in Usable(a, "treatment") : valid(c)}
    <3>1. /\ Usable(a, "control") # {} /\ \A c \in Usable(a, "control") : ~label[c].resolved
          /\ treated # {}
          /\ anchor_verdict(a) = "signal_of_life" => \E c \in treated : label[c].resolved
      BY <2>2 DEF anchor_verdict
    <3>2. ControlFails(a)
      BY <1>1, <2>1, <3>1, ControlsAreEvidence DEF ControlFails
    <3>3. treated \subseteq Evidence(a, "treatment")
      BY <1>1, <2>1, ValidIsEvidence
    <3>4. QED
      BY <3>1, <3>2, <3>3
  <2>3. route_b1_decision = "signal_of_life" =>
          \E a \in Anchors : anchor_verdict(a) = "signal_of_life"
    BY DEF route_b1_decision
  <2>4. route_b1_decision = "futility_null" => \E a \in Anchors : anchor_verdict(a) = "no_uplift"
    BY DEF route_b1_decision
  <2>5. QED
    BY <2>2, <2>3, <2>4
<1>2. QED
  BY <1>1, InitVInv, VInductive, PTL DEF B1Spec
=============================================================================
