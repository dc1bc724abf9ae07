--------------------- MODULE ReferenceSupervisorProofs ---------------------
(***************************************************************************)
(* install_inherited_fds puts every source in its place, for any number of *)
(* sources at any descriptors, duplicates among them included; the journal *)
(* survives crashes and power failures between any two steps; and the      *)
(* reference supervisor, which composes the two, keeps track of its        *)
(* children.                                                               *)
(***************************************************************************)
EXTENDS InheritedListeners, WellFoundedInduction, TLAPS

\* The facts about a child that every stage uses.
LEMMA FdFacts ==
    ASSUME InstallInv
    PROVE  /\ MaxFd \in Nat /\ Closed \notin File
           /\ table \in Table /\ forked \in Table /\ cloexec \subseteq Fd /\ kept \subseteq Fd
           /\ working \in Seq(Fd) /\ sources \in Seq(Fd) /\ slot \in Nat
           /\ n \in Nat /\ n = Len(sources) /\ \A k \in 1..n : working[k] \in Fd /\ working[k] \in Nat
           /\ \A k \in 1..n : Wanted(k) # Closed
<1>1. /\ MaxFd \in Nat /\ Closed \notin File
  BY FdAssumption
<1>2. /\ table \in Table /\ forked \in Table /\ cloexec \subseteq Fd /\ kept \subseteq Fd
      /\ working \in Seq(Fd) /\ sources \in Seq(Fd) /\ slot \in Nat
  BY DEF InstallInv, FdTypeOK
<1>3. n \in Nat /\ n = Len(sources) /\ \A k \in 1..n : Wanted(k) # Closed
  BY <1>2 DEF InstallInv, n
<1>4. \A k \in 1..n : working[k] \in Fd BY <1>2, <1>3 DEF n
<1>5. \A f \in Fd : f \in Nat BY <1>1 DEF Fd
<1> QED BY <1>1, <1>2, <1>3, <1>4, <1>5

\* Before the first child nothing is open.
LEMMA InitInstall == NoChild => InstallInv
<1> SUFFICES ASSUME NoChild PROVE InstallInv
  OBVIOUS
<1>1. n = 0 /\ Len(sources) = 0 BY DEF NoChild, n
<1>2. table \in Table /\ forked \in Table BY DEF NoChild, Table
<1>3. FdTypeOK BY <1>2 DEF NoChild, FdTypeOK
<1> QED BY <1>1, <1>3 DEF InstallInv, NoChild, ChildInheritsExactly

\* The child starts with the supervisor's table and its sources open in it.
LEMMA ForkKeeps ==
    ASSUME InstallInv, NEW t \in Table, NEW ce \in SUBSET Fd, NEW src \in Seq(Fd), Fork(t, ce, src)
    PROVE  InstallInv'
<1>1. /\ stage' = IF src = <<>> THEN "exec" ELSE "lift"
      /\ table' = t /\ forked' = t /\ cloexec' = ce /\ kept' = Fd \ ce
      /\ working' = src /\ sources' = src /\ slot' = 1
      /\ \A k \in 1..Len(src) : t[src[k]] # Closed
  BY DEF Fork, CanPass, IsOpen
<1>2. FdTypeOK' BY <1>1 DEF FdTypeOK
<1>3. n' = Len(src) /\ Len(src) \in Nat /\ (src # <<>> => Len(src) > 0) BY <1>1 DEF n
<1>4. n' = Len(sources') BY <1>1, <1>3
<1>5. \A k \in 1..n' : Wanted(k)' # Closed BY <1>1, <1>3 DEF Wanted
<1>6. \A f \in Fd : Untouched(f)' BY <1>1 DEF Untouched
<1>7. stage' = "lift" => slot' \in 1..n' /\ Lifted(slot - 1)'
  BY <1>1, <1>3 DEF Lifted, Wanted
<1>8. stage' = "exec" => Placed(n)'
  BY <1>1, <1>3 DEF Placed
<1> QED BY <1>1, <1>2, <1>4, <1>5, <1>6, <1>7, <1>8 DEF InstallInv, ChildInheritsExactly

\* What a stage does to its loop index.
LEMMA LoopFacts ==
    ASSUME InstallInv, slot \in 1..n, NEW s, Loop(s)
    PROVE  \/ slot < n /\ slot' = slot + 1 /\ slot' \in 1..n /\ slot' - 1 = slot /\ stage' = stage
           \/ slot = n /\ slot' = 1 /\ slot' \in 1..n /\ stage' = s
<1>1. slot \in Nat /\ n \in Nat BY FdFacts
<1>2. CASE slot < n BY <1>1, <1>2 DEF Loop
<1>3. CASE ~(slot < n) BY <1>1, <1>3 DEF Loop
<1> QED BY <1>2, <1>3

\* Stage 1: a duplicate takes a free descriptor, so it disturbs no source.
LEMMA LiftKeeps ==
    ASSUME InstallInv, Lift
    PROVE  InstallInv'
<1>1. PICK f \in StagingMin..MaxFd :
         /\ table[f] = Closed
         /\ table' = [table EXCEPT ![f] = table[working[slot]]]
         /\ working' = [working EXCEPT ![slot] = f]
         /\ cloexec' = cloexec \ {f}
  BY Zenon DEF Lift, IsOpen
<1>2. stage = "lift" /\ Loop("settle") /\ UNCHANGED <<forked, kept, sources>>
  BY DEF Lift, forkVars
<1>3. /\ slot \in 1..n /\ Lifted(slot - 1)
      /\ \A g \in Fd : g \notin Staged(1, slot - 1) => Untouched(g)
  BY <1>2 DEF InstallInv
<1>4. n \in Nat /\ MaxFd \in Nat /\ slot \in Nat BY FdFacts
<1>5. f \in Fd /\ f \in Nat /\ f >= StagingMin
  BY <1>1, <1>4 DEF StagingMin, Fd
<1>6. working[slot] \in Fd /\ table[working[slot]] \in File \cup {Closed}
  BY <1>3, FdFacts DEF Table
<1>7. /\ table' \in Table /\ table'[f] = table[working[slot]]
      /\ \A g \in Fd : g # f => table'[g] = table[g]
  <2> DEFINE x == table[working[slot]]
  <2>1. table \in Table /\ x \in File \cup {Closed} BY <1>6, FdFacts
  <2>2. table' = [table EXCEPT ![f] = x] BY <1>1
  <2>3. f \in Fd BY <1>5
  <2> HIDE DEF x
  <2>4. table' \in Table /\ table'[f] = x /\ \A g \in Fd : g # f => table'[g] = table[g]
    BY <2>1, <2>2, <2>3 DEF Table
  <2> QED BY <2>4 DEF x
<1>8. /\ working' \in Seq(Fd) /\ n' = n /\ working'[slot] = f
      /\ \A k \in 1..n : k # slot => working'[k] = working[k]
  BY <1>1, <1>3, <1>5, FdFacts DEF n
<1>9. FdTypeOK'
  <2>1. stage' \in {"lift", "settle"} /\ slot' \in Nat
    BY <1>2, <1>3, <1>4, LoopFacts
  <2> QED BY <2>1, <1>1, <1>2, <1>7, <1>8, FdFacts, Zenon DEF FdTypeOK
<1>10. \A k \in 1..n : Wanted(k)' = Wanted(k) /\ Wanted(k) # Closed
  BY <1>2, FdFacts DEF Wanted
<1>11. forked[f] = Closed
  <2>1. CASE f \notin Staged(1, slot - 1) BY <2>1, <1>1, <1>3, <1>5 DEF Untouched
  <2>2. CASE f \in Staged(1, slot - 1)
    <3>1. PICK k \in 1..(slot - 1) : f = working[k] BY <2>2 DEF Staged
    <3> QED BY <3>1, <1>3 DEF Lifted
  <2> QED BY <2>1, <2>2
<1>12. \A k \in 1..n : table'[working'[k]] = Wanted(k)
  <2> TAKE k \in 1..n
  <2>1. table[working[k]] = Wanted(k) BY <1>3 DEF Lifted
  <2>2. CASE k = slot BY <2>1, <2>2, <1>7, <1>8
  <2>3. CASE k # slot
    <3>1. working[k] # f BY <2>1, <1>1, <1>10
    <3>2. working[k] \in Fd BY FdFacts
    <3> QED BY <3>1, <3>2, <2>1, <2>3, <1>7, <1>8
  <2> QED BY <2>2, <2>3
<1>13. \A k \in 1..slot : working'[k] >= StagingMin /\ forked[working'[k]] = Closed
  <2> TAKE k \in 1..slot
  <2>1. CASE k = slot BY <2>1, <1>5, <1>8, <1>11
  <2>2. CASE k # slot
    <3>1. k \in 1..(slot - 1) /\ k \in 1..n BY <2>2, <1>3, <1>4
    <3> QED BY <3>1, <2>2, <1>3, <1>8 DEF Lifted
  <2> QED BY <2>1, <2>2
<1>14. StagingMin' = StagingMin BY <1>8 DEF StagingMin
<1>15. \A g \in Fd : g \notin {working'[k] : k \in 1..slot} => Untouched(g)'
  <2> TAKE g \in Fd
  <2> HAVE g \notin {working'[k] : k \in 1..slot}
  <2>1. g # f BY <1>3, <1>4, <1>8
  <2>2. g \notin Staged(1, slot - 1)
    <3> SUFFICES ASSUME NEW k \in 1..(slot - 1), g = working[k] PROVE FALSE
      BY DEF Staged
    <3>1. k \in 1..slot /\ k \in 1..n /\ k # slot BY <1>3, <1>4
    <3> QED BY <3>1, <1>8
  <2> QED BY <2>1, <2>2, <1>1, <1>2, <1>3, <1>7, Zenon DEF Untouched
<1>16. n' = Len(sources') /\ \A k \in 1..n' : Wanted(k)' # Closed
  BY <1>2, <1>8, <1>10, FdFacts, Zenon
<1>17. CASE slot < n
  <2>1. slot' \in 1..n /\ slot' - 1 = slot /\ stage' = "lift"
    BY <1>2, <1>3, <1>17, LoopFacts
  <2>2. Lifted(slot - 1)' BY <2>1, <1>2, <1>8, <1>10, <1>12, <1>13, <1>14, Zenon DEF Lifted
  <2>3. \A g \in Fd : (g \notin Staged(1, slot - 1))' => Untouched(g)'
    BY <2>1, <1>15, Zenon DEF Staged
  <2> QED BY <2>1, <2>2, <2>3, <1>8, <1>9, <1>16, Zenon DEF InstallInv, ChildInheritsExactly
<1>18. CASE slot = n
  <2>1. slot' = 1 /\ slot' \in 1..n /\ stage' = "settle"
    BY <1>2, <1>3, <1>4, <1>18, LoopFacts
  <2>2. Lifted(n)' BY <1>18, <1>2, <1>8, <1>10, <1>12, <1>13, <1>14, Zenon DEF Lifted
  <2>3. \A g \in Fd : (g \notin Staged(1, n))' => Untouched(g)'
    BY <1>8, <1>15, <1>18 DEF Staged
  <2>4. Placed(slot - 1)' BY <2>1 DEF Placed
  <2> QED
    BY <2>1, <2>2, <2>3, <2>4, <1>8, <1>9, <1>16, Zenon DEF InstallInv, ChildInheritsExactly
<1> QED BY <1>3, <1>4, <1>17, <1>18

\* Stage 2: the targets are below every duplicate, so settling one source does not
\* overwrite another.
LEMMA SettleKeeps ==
    ASSUME InstallInv, Settle
    PROVE  InstallInv'
<1> DEFINE d == Target(slot)
<1>1. /\ stage = "settle" /\ Loop("close") /\ UNCHANGED <<working, forked, kept, sources>>
      /\ table' = [table EXCEPT ![d] = table[working[slot]]] /\ cloexec' = cloexec \ {d}
  BY DEF Settle, forkVars
<1>2. /\ slot \in 1..n /\ Lifted(n) /\ Placed(slot - 1)
      /\ \A g \in Fd : g \notin Staged(1, n) /\ ~IsTarget(g) => Untouched(g)
  BY <1>1 DEF InstallInv
<1>3. n \in Nat /\ MaxFd \in Nat /\ slot \in Nat BY FdFacts
<1>4. \A k \in 1..n : /\ working[k] \in Fd /\ working[k] \in Nat /\ working[k] >= 3 + n
                       /\ table[working[k]] = Wanted(k) /\ forked[working[k]] = Closed
  BY <1>2, FdFacts, Zenon DEF Lifted, StagingMin
<1>5. d \in Fd /\ d \in Nat /\ d < 3 + n /\ d = 2 + slot
  <2>1. working[slot] <= MaxFd BY <1>2, <1>4 DEF Fd
  <2> QED BY <2>1, <1>2, <1>3, <1>4 DEF Target, Fd
<1> HIDE DEF d
<1>6. working[slot] \in Fd /\ table[working[slot]] \in File \cup {Closed}
  BY <1>2, <1>4, FdFacts DEF Table
<1>7. /\ table' \in Table /\ table'[d] = table[working[slot]]
      /\ \A g \in Fd : g # d => table'[g] = table[g]
  <2> DEFINE x == table[working[slot]]
  <2>1. table \in Table /\ x \in File \cup {Closed} BY <1>6, FdFacts
  <2>2. table' = [table EXCEPT ![d] = x] BY <1>1
  <2>3. d \in Fd BY <1>5
  <2> HIDE DEF x
  <2>4. table' \in Table /\ table'[d] = x /\ \A g \in Fd : g # d => table'[g] = table[g]
    BY <2>1, <2>2, <2>3 DEF Table
  <2> QED BY <2>4 DEF x
<1>8. n' = n /\ StagingMin' = StagingMin BY <1>1 DEF n, StagingMin
<1>9. FdTypeOK'
  <2>1. stage' \in {"settle", "close"} /\ slot' \in Nat BY <1>1, <1>2, <1>3, LoopFacts
  <2> QED BY <2>1, <1>1, <1>7, FdFacts DEF FdTypeOK
<1>10. \A k \in 1..n : Wanted(k)' = Wanted(k) /\ Wanted(k) # Closed
  BY <1>1, FdFacts DEF Wanted
<1>11. \A k \in 1..n : table'[working[k]] = Wanted(k)
  <2> TAKE k \in 1..n
  <2>1. working[k] # d BY <1>3, <1>4, <1>5
  <2> QED BY <2>1, <1>4, <1>7
<1>12. \A k \in 1..slot :
          Target(k) \in Fd /\ table'[Target(k)] = Wanted(k) /\ Target(k) \notin cloexec'
  <2> TAKE k \in 1..slot
  <2>1. CASE k = slot
    <3>1. Target(k) = d BY <2>1, Zenon DEF d
    <3>2. table'[d] = Wanted(slot) BY <1>2, <1>4, <1>7
    <3> QED BY <3>1, <3>2, <2>1, <1>1, <1>5
  <2>2. CASE k # slot
    <3>1. k \in 1..(slot - 1) BY <2>2, <1>2, <1>3
    <3>2. Target(k) \in Fd /\ table[Target(k)] = Wanted(k) /\ Target(k) \notin cloexec
      BY <3>1, <1>2 DEF Placed
    <3>3. Target(k) # d BY <2>2, <1>3, <1>5 DEF Target
    <3> QED BY <3>2, <3>3, <1>1, <1>7
  <2> QED BY <2>1, <2>2
<1>13. \A g \in Fd : g \notin Staged(1, n) /\ ~IsTarget(g) => Untouched(g)'
  <2> TAKE g \in Fd
  <2> HAVE g \notin Staged(1, n) /\ ~IsTarget(g)
  <2>1. g # d BY <1>2, <1>3, <1>5 DEF IsTarget
  <2>2. Untouched(g) BY <1>2
  <2> QED BY <2>1, <2>2, <1>1, <1>7 DEF Untouched
<1>14. n' = Len(sources') /\ \A k \in 1..n' : Wanted(k)' # Closed
  BY <1>1, <1>8, <1>10, FdFacts
<1>15. \A g \in Fd : (g \notin Staged(1, n) /\ ~IsTarget(g))' => Untouched(g)'
  BY <1>1, <1>8, <1>13, Zenon DEF Staged, IsTarget
<1>16. CASE slot < n
  <2>1. slot' \in 1..n /\ slot' - 1 = slot /\ stage' = "settle"
    BY <1>1, <1>2, <1>16, LoopFacts
  <2>2. Lifted(n)' BY <1>1, <1>4, <1>8, <1>10, <1>11 DEF Lifted, StagingMin
  <2>3. Placed(slot - 1)'
    <3> SUFFICES ASSUME NEW k \in 1..slot
                 PROVE  Target(k) \in Fd /\ table'[Target(k)] = Wanted(k)' /\ Target(k) \notin cloexec'
      BY <2>1, Zenon DEF Placed, Target
    <3>1. k \in 1..n BY <1>2, <1>3
    <3> QED BY <3>1, <1>10, <1>12
  <2> QED
    BY <2>1, <2>2, <2>3, <1>8, <1>9, <1>14, <1>15, Zenon DEF InstallInv, ChildInheritsExactly
<1>17. CASE slot = n
  <2>1. slot' = 1 /\ slot' \in 1..n /\ stage' = "close"
    BY <1>1, <1>2, <1>3, <1>17, LoopFacts
  <2>2. Placed(n)' BY <1>8, <1>10, <1>12, <1>17, Zenon DEF Placed, Target
  <2>3. (\A k \in 1..n : working[k] >= StagingMin /\ forked[working[k]] = Closed)'
    BY <1>1, <1>4, <1>8, Zenon DEF StagingMin
  <2>4. (\A g \in Fd : g \notin Staged(slot, n) /\ ~IsTarget(g) => Untouched(g) \/ Spare(g))'
    BY <2>1, <1>15 DEF Staged
  <2> QED
    BY <2>1, <2>2, <2>3, <2>4, <1>8, <1>9, <1>14, Zenon DEF InstallInv, ChildInheritsExactly
<1> QED BY <1>2, <1>3, <1>16, <1>17

\* Stage 3: closing a duplicate leaves the targets.
LEMMA CloseKeeps ==
    ASSUME InstallInv, CloseStaged
    PROVE  InstallInv'
<1> DEFINE d == working[slot]
<1>1. /\ stage = "close" /\ Loop("exec")
      /\ UNCHANGED <<working, forked, kept, sources, cloexec>>
      /\ table' = [table EXCEPT ![d] = Closed]
  BY Zenon DEF CloseStaged, forkVars
<1>2. /\ slot \in 1..n /\ Placed(n)
      /\ \A k \in 1..n : working[k] >= StagingMin /\ forked[working[k]] = Closed
      /\ \A g \in Fd : g \notin Staged(slot, n) /\ ~IsTarget(g) => Untouched(g) \/ Spare(g)
  BY <1>1, Zenon DEF InstallInv
<1>3. n \in Nat /\ MaxFd \in Nat /\ slot \in Nat BY FdFacts
<1>4. d \in Fd /\ d \in Nat /\ d >= 3 + n /\ forked[d] = Closed
  BY <1>2, FdFacts DEF StagingMin
<1> HIDE DEF d
<1>5. table' \in Table /\ table'[d] = Closed /\ \A g \in Fd : g # d => table'[g] = table[g]
  <2>1. table \in Table /\ d \in Fd BY <1>4, FdFacts
  <2>2. table' = [table EXCEPT ![d] = Closed] BY <1>1
  <2> QED BY <2>1, <2>2 DEF Table
<1>6. n' = n /\ StagingMin' = StagingMin BY <1>1, Zenon DEF n, StagingMin
<1>7. FdTypeOK'
  <2>1. stage' \in {"close", "exec"} /\ slot' \in Nat BY <1>1, <1>2, <1>3, LoopFacts
  <2> QED BY <2>1, <1>1, <1>5, FdFacts, Zenon DEF FdTypeOK
<1>8. \A k \in 1..n : Wanted(k)' = Wanted(k) /\ Wanted(k) # Closed
  BY <1>1, FdFacts, Zenon DEF Wanted
<1>9. Placed(n)'
  <2> SUFFICES ASSUME NEW k \in 1..n
               PROVE  Target(k) \in Fd /\ table'[Target(k)] = Wanted(k) /\ Target(k) \notin cloexec
    BY <1>1, <1>6, <1>8 DEF Placed, Target
  <2>1. Target(k) \in Fd /\ table[Target(k)] = Wanted(k) /\ Target(k) \notin cloexec
    BY <1>2 DEF Placed
  <2>2. Target(k) # d BY <1>3, <1>4 DEF Target
  <2> QED BY <2>1, <2>2, <1>5
<1>10. ASSUME NEW g \in Fd, ~IsTarget(g), \A k \in (slot + 1)..n : g # working[k]
       PROVE  Untouched(g)' \/ Spare(g)'
  <2>1. CASE g = d BY <2>1, <1>1, <1>4, <1>5, Zenon DEF Spare
  <2>2. CASE g # d
    <3>1. g \notin Staged(slot, n)
      <4> SUFFICES ASSUME NEW k \in slot..n, g = working[k] PROVE FALSE
        BY DEF Staged
      <4>1. CASE k = slot BY <4>1, <2>2 DEF d
      <4>2. CASE k # slot
        <5>1. k \in (slot + 1)..n BY <4>2, <1>2, <1>3
        <5> QED BY <5>1, <1>10
      <4> QED BY <4>1, <4>2
    <3>2. Untouched(g) \/ Spare(g) BY <3>1, <1>2, <1>10
    <3>3. table'[g] = table[g] BY <2>2, <1>5, Zenon
    <3> QED BY <3>2, <3>3, <1>1 DEF Untouched, Spare
  <2> QED BY <2>1, <2>2, Zenon
<1>11. n' = Len(sources') /\ \A k \in 1..n' : Wanted(k)' # Closed
  BY <1>1, <1>6, <1>8, FdFacts
<1>12. \A g \in Fd : IsTarget(g)' <=> IsTarget(g) BY <1>6, Zenon DEF IsTarget
<1>13. CASE slot < n
  <2>1. slot' = slot + 1 /\ slot' \in 1..n /\ stage' = "close"
    BY <1>1, <1>2, <1>3, <1>13, LoopFacts
  <2>2. (\A k \in 1..n : working[k] >= StagingMin /\ forked[working[k]] = Closed)'
    BY <1>1, <1>2, <1>6, Zenon
  <2>3. (\A g \in Fd : g \notin Staged(slot, n) /\ ~IsTarget(g) => Untouched(g) \/ Spare(g))'
    BY <2>1, <1>1, <1>6, <1>10, <1>12, Zenon DEF Staged
  <2> QED
    BY <2>1, <2>2, <2>3, <1>6, <1>7, <1>9, <1>11, Zenon DEF InstallInv, ChildInheritsExactly
<1>14. CASE slot = n
  <2>1. slot' = 1 /\ stage' = "exec"
    BY <1>1, <1>2, <1>3, <1>14, LoopFacts
  <2>2. \A k \in (slot + 1)..n : FALSE BY <1>3, <1>14
  <2>3. (\A g \in Fd : ~IsTarget(g) => Untouched(g) \/ Spare(g))'
    BY <2>2, <1>10, <1>12, Zenon
  <2> QED BY <2>1, <2>3, <1>7, <1>9, <1>11, Zenon DEF InstallInv, ChildInheritsExactly
<1> QED BY <1>2, <1>3, <1>13, <1>14

\* exec closes the close-on-exec descriptors: what was placed, and what the supervisor
\* leaves open, remain.
LEMMA ExecKeeps ==
    ASSUME InstallInv, Exec
    PROVE  InstallInv'
<1>1. /\ stage = "exec" /\ stage' = "done"
      /\ table' = [f \in Fd |-> IF f \in cloexec THEN Closed ELSE table[f]]
      /\ UNCHANGED <<cloexec, working, slot, forked, kept, sources>>
  BY Zenon DEF Exec, forkVars
<1>2. Placed(n) /\ \A f \in Fd : ~IsTarget(f) => Untouched(f) \/ Spare(f)
  BY <1>1, Zenon DEF InstallInv
<1>3. table' \in Table BY <1>1, FdFacts, Zenon DEF Table
<1>4. FdTypeOK' BY <1>1, <1>3, FdFacts, Zenon DEF FdTypeOK
<1>5. n' = n /\ n = Len(sources) /\ n \in Nat BY <1>1, FdFacts, Zenon DEF n
<1>6. \A k \in 1..n : Wanted(k)' = Wanted(k) /\ Wanted(k) # Closed
  BY <1>1, FdFacts, Zenon DEF Wanted
<1>7. ASSUME NEW f \in Fd
      PROVE  table'[f] = IF f - 2 \in 1..Len(sources) THEN Wanted(f - 2)
                         ELSE IF f \in kept THEN forked[f] ELSE Closed
  <2>1. table'[f] = IF f \in cloexec THEN Closed ELSE table[f] BY <1>1, Zenon
  <2>2. CASE IsTarget(f)
    <3>1. f - 2 \in 1..n BY <2>2 DEF IsTarget
    <3>2. Target(f - 2) = f BY FdFacts DEF Target, Fd
    <3>3. table[f] = Wanted(f - 2) /\ f \notin cloexec BY <3>1, <3>2, <1>2, Zenon DEF Placed
    <3> QED BY <3>1, <3>3, <2>1, <1>5
  <2>3. CASE ~IsTarget(f)
    <3>1. f - 2 \notin 1..Len(sources) BY <2>3, <1>5, Zenon DEF IsTarget
    <3>2. CASE Untouched(f) BY <3>1, <3>2, <2>1, Zenon DEF Untouched
    <3>3. CASE Spare(f) BY <3>1, <3>3, <2>1 DEF Spare
    <3> QED BY <3>2, <3>3, <2>3, <1>2
  <2> QED BY <2>2, <2>3
<1>8. \A k \in 1..Len(sources) : Target(k) \in Fd BY <1>2, <1>5, Zenon DEF Placed
<1>9. ChildInheritsExactly' BY <1>1, <1>7, <1>8 DEF ChildInheritsExactly, Wanted
<1> QED BY <1>1, <1>4, <1>5, <1>6, <1>9, Zenon DEF InstallInv

\* Every step keeps the sources safe.
LEMMA NextInstall == InstallInv /\ [FdNext]_fdVars => InstallInv'
<1> SUFFICES ASSUME InstallInv, [FdNext]_fdVars PROVE InstallInv'
  OBVIOUS
<1>1. ASSUME NEW t \in Table, NEW ce \in SUBSET Fd, NEW src \in Seq(Fd), Fork(t, ce, src)
      PROVE  InstallInv'
  BY <1>1, ForkKeeps, Zenon
<1>2. CASE LiftFails \/ ExecFails
  <2>1. stage' = "failed" /\ UNCHANGED <<table, cloexec, working, slot, forked, kept, sources>>
    BY <1>2, Zenon DEF LiftFails, ExecFails, forkVars
  <2>2. FdTypeOK' BY <2>1, FdFacts, Zenon DEF FdTypeOK
  <2>3. n' = Len(sources') /\ \A k \in 1..n' : Wanted(k)' # Closed
    BY <2>1, FdFacts, Zenon DEF n, Wanted
  <2> QED BY <2>1, <2>2, <2>3, Zenon DEF InstallInv, ChildInheritsExactly
<1>3. CASE Spawned
  <2>1. NoChild' BY <1>3 DEF Spawned, NoChild
  <2>2. n' = 0 /\ Len(sources') = 0 BY <2>1 DEF NoChild, n
  <2>3. table' \in Table /\ forked' \in Table BY <2>1 DEF NoChild, Table
  <2>4. FdTypeOK' BY <2>1, <2>3, SMTT(30) DEF NoChild, FdTypeOK
  <2> QED BY <2>1, <2>2, <2>4 DEF InstallInv, NoChild, ChildInheritsExactly
<1>4. CASE UNCHANGED fdVars
  <2>1. UNCHANGED <<stage, table, cloexec, working, slot, forked, kept, sources>>
    BY <1>4 DEF fdVars, forkVars
  <2>2. FdTypeOK' BY <2>1, FdFacts, Zenon DEF FdTypeOK, InstallInv
  <2>3. /\ n' = n /\ n' = Len(sources') /\ \A k \in 1..n' : Wanted(k)' # Closed
        /\ stage' \in {"lift", "settle", "close"} => slot' \in 1..n'
    BY <2>1, FdFacts, Zenon DEF n, Wanted, InstallInv
  <2>4. ChildInheritsExactly' BY <2>1, Zenon DEF InstallInv, ChildInheritsExactly, Wanted
  <2> USE DEF InstallInv, Wanted, Lifted, Placed, Staged, IsTarget, Untouched, Spare, StagingMin, Target
  <2>5. CASE stage = "lift" BY <2>1, <2>2, <2>3, <2>4, <2>5, SMTT(30), Z3T(30)
  <2>6. CASE stage = "settle" BY <2>1, <2>2, <2>3, <2>4, <2>6, SMTT(30), Z3T(30)
  <2>7. CASE stage = "close" BY <2>1, <2>2, <2>3, <2>4, <2>7, SMTT(30), Z3T(30)
  <2>8. CASE stage = "exec" BY <2>1, <2>2, <2>3, <2>4, <2>8, Zenon
  <2>9. CASE stage \notin {"lift", "settle", "close", "exec"}
    BY <2>1, <2>2, <2>3, <2>4, <2>9, Zenon
  <2> QED BY <2>5, <2>6, <2>7, <2>8, <2>9, Zenon
<1> QED BY <1>1, <1>2, <1>3, <1>4, LiftKeeps, SettleKeeps, CloseKeeps, ExecKeeps, Zenon DEF FdNext

\* install_inherited_fds keeps its sources safe through its three stages.
THEOREM InstallInvariance == FdSpec => []InstallInv
  BY InitInstall, NextInstall, PTL DEF FdSpec

\* Every program the supervisor starts has the listeners and the control socket in
\* order from descriptor 3 on, and nothing else that was not meant for it.
THEOREM InheritsExactly == FdSpec => []ChildInheritsExactly
<1>1. InstallInv => ChildInheritsExactly BY DEF InstallInv
<1> QED BY <1>1, InstallInvariance, PTL
-----------------------------------------------------------------------------
\* A supervisor's first start finds no journal.
LEMMA InitJournal == JournalInit => JournalInv
<1> SUFFICES ASSUME JournalInit PROVE JournalInv
  OBVIOUS
<1> USE EntryAssumption DEF JournalInit, Entry, NoEntry, Torn
<1>1. cleared \in BOOLEAN BY Zenon
<1>2. JournalTypeOK BY <1>1 DEF JournalTypeOK
<1>3. disk \cup {file} = {0} OBVIOUS
<1>4. JournalDurable BY <1>3, SMTT(30), Z3T(30) DEF JournalDurable
<1> QED BY <1>2, <1>4 DEF JournalInv

\* Each step of write_atomic, its failure at that step, the deletion, and the death of
\* the process or of the machine keep the journal whole and no older than settled.
LEMMA NextJournal == JournalInv /\ [JournalNext]_journalVars => JournalInv'
<1> SUFFICES ASSUME JournalInv, [JournalNext]_journalVars PROVE JournalInv'
  OBVIOUS
<1> USE EntryAssumption DEF JournalInv, JournalTypeOK, JournalDurable, Entry, NoEntry, Torn
<1>1. CASE OpenTmp BY <1>1 DEF OpenTmp
<1>2. CASE WriteTmp BY <1>2, Zenon DEF WriteTmp
<1>3. CASE SyncTmp BY <1>3, Zenon DEF SyncTmp
<1>4. CASE Rename BY <1>4 DEF Rename, OnDisk
<1>5. CASE FsyncDir
  <2>1. cleared' \in BOOLEAN BY <1>5, Zenon DEF FsyncDir
  <2>2. JournalTypeOK' BY <1>5, <2>1 DEF FsyncDir
  <2>3. \A e \in disk' \cup {file'} : e = last BY <1>5, Zenon DEF FsyncDir
  <2>4. settled' = last /\ last \in Nat /\ last # Torn BY <1>5 DEF FsyncDir
  <2>5. JournalDurable' BY <2>3, <2>4
  <2> QED BY <1>5, <2>2, <2>5 DEF FsyncDir
<1>6. CASE WriteFails BY <1>6, Zenon DEF WriteFails
<1>7. CASE Delete BY <1>7 DEF Delete
<1>8. CASE WriterDies BY <1>8, Zenon DEF WriterDies
<1>9. CASE PowerFails BY <1>9, Zenon DEF PowerFails
<1>10. CASE UNCHANGED journalVars BY <1>10 DEF journalVars
<1> QED
  BY <1>1, <1>2, <1>3, <1>4, <1>5, <1>6, <1>7, <1>8, <1>9, <1>10, Zenon DEF JournalNext, WriteStep

\* For any number of entries and any interleaving of faults, what a restarted supervisor
\* reads is whole and not older than the last entry write_atomic returned Ok for.
THEOREM JournalSurvives == JournalSpec => []JournalDurable
<1>1. JournalInv => JournalDurable BY DEF JournalInv
<1> QED BY <1>1, InitJournal, NextJournal, PTL DEF JournalSpec
-----------------------------------------------------------------------------
\* No step of main, of its children or of the environment touches a child's descriptors
\* but by a step of fork, install_inherited_fds, exec or the return of spawn.
LEMMA NextFds == [Next]_vars => [FdNext]_fdVars
<1> SUFFICES ASSUME [Next]_vars PROVE [FdNext]_fdVars
  BY Zenon
<1>1. ASSUME NEW c, ForkChild(c) PROVE FdNext
  <2>1. Fork(ParentTable(c), Fd \ layout.foreign, Passed(c)) BY <1>1, Zenon DEF ForkChild
  <2>2. ParentTable(c) \in Table /\ Passed(c) \in Seq(Fd) BY <2>1, Zenon DEF Fork, CanPass
  <2>3. Fd \ layout.foreign \in SUBSET Fd OBVIOUS
  <2> QED BY <2>1, <2>2, <2>3, Zenon DEF FdNext
<1>2. CASE ForkCold BY <1>1, <1>2 DEF ForkCold
<1>3. CASE ForkSuccessor BY <1>1, <1>3, Zenon DEF ForkSuccessor
<1>4. CASE SpawnReturns BY <1>4 DEF SpawnReturns, FdNext
<1>5. CASE ChildInstalls BY <1>5, Zenon DEF ChildInstalls, Install, FdNext
<1>6. CASE \/ ForkFails \/ ResumeFromJournal \/ BindTrigger \/ ReadTriggerCommand \/ ReachIncumbent
           \/ JournalSet \/ UndoReturns \/ CommitHandoff \/ CommittedNotJournaled \/ CommitReturns
           \/ Reply \/ Boot \/ AcceptTrigger \/ \E c \in Child : ChildExits(c)
  BY <1>6, Zenon DEF ForkFails, ResumeFromJournal, BindTrigger, ReadTriggerCommand, ReachIncumbent,
     JournalSet, UndoReturns, CommitHandoff, CommittedNotJournaled, CommitReturns, Reply, Boot,
     AcceptTrigger, ChildExits
<1>7. CASE HandoffErr \/ AbortHandoff BY <1>7, Zenon DEF HandoffErr, AbortHandoff, DropGuard
<1>8. CASE ReapOutgoing \/ AbandonOutgoing BY <1>8, Zenon DEF ReapOutgoing, AbandonOutgoing, ReplaceSlot
<1>9. CASE SupervisorCrash \/ MainFails \/ PowerFailure
  BY <1>9 DEF SupervisorCrash, MainFails, SupervisorGone, PowerFailure
<1>10. CASE UNCHANGED vars BY <1>10, Zenon DEF vars
<1> QED BY <1>2, <1>3, <1>4, <1>5, <1>6, <1>7, <1>8, <1>9, <1>10, Zenon DEF Next, MainNext

\* Nor the journal but by a step of write_atomic or delete, a failure of one, the end of
\* the supervisor or of the machine.
LEMMA NextFiles == [Next]_vars => [JournalNext]_journalVars
<1> SUFFICES ASSUME [Next]_vars PROVE [JournalNext]_journalVars
  OBVIOUS
<1>1. CASE ForkCold \/ ForkSuccessor BY <1>1, Zenon DEF ForkCold, ForkSuccessor, ForkChild
<1>2. CASE \/ SpawnReturns \/ ChildInstalls \/ ForkFails \/ BindTrigger \/ ReadTriggerCommand
           \/ ReachIncumbent \/ CommitHandoff \/ Reply \/ Boot \/ AcceptTrigger
           \/ \E c \in Child : ChildExits(c)
  BY <1>2 DEF SpawnReturns, ChildInstalls, ForkFails, BindTrigger, ReadTriggerCommand, ReachIncumbent,
     CommitHandoff, Reply, Boot, AcceptTrigger, ChildExits
<1>3. CASE ResumeFromJournal \/ UndoReturns \/ CommitReturns
  BY <1>3 DEF ResumeFromJournal, UndoReturns, CommitReturns, JournalClear, JournalNext
<1>4. CASE JournalSet \/ CommittedNotJournaled
  BY <1>4 DEF JournalSet, CommittedNotJournaled, JournalNext
<1>5. CASE HandoffErr \/ AbortHandoff BY <1>5, Zenon DEF HandoffErr, AbortHandoff, JournalNext
<1>6. CASE ReapOutgoing \/ AbandonOutgoing BY <1>6, Zenon DEF ReapOutgoing, AbandonOutgoing, ReplaceSlot
<1>7. CASE SupervisorCrash \/ MainFails \/ PowerFailure
  BY <1>7 DEF SupervisorCrash, MainFails, PowerFailure, JournalNext
<1>8. CASE UNCHANGED vars BY <1>8 DEF vars
<1> QED BY <1>1, <1>2, <1>3, <1>4, <1>5, <1>6, <1>7, <1>8, Zenon DEF Next, MainNext

\* The reference supervisor uses install_inherited_fds and the journal only through their
\* steps, so what they promise alone they promise in it.
THEOREM Composes == Spec => FdSpec /\ JournalSpec
<1>1. Init => NoChild /\ JournalInit BY DEF Init
<1> QED BY <1>1, NextFds, NextFiles, PTL DEF Spec, FdSpec, JournalSpec

\* Every program the reference supervisor starts has exactly the descriptors meant for it,
\* and what its next incarnation reads from the journal is whole and not older than what
\* was settled.
THEOREM SupervisorKeeps == Spec => [](InstallInv /\ ChildInheritsExactly /\ JournalDurable)
  BY Composes, InstallInvariance, InheritsExactly, JournalSurvives, PTL
-----------------------------------------------------------------------------
Status == {"none", "forked", "running", "zombie", "orphan", "gone"}

\* What main knows of its children has its type.
KidsOK ==
    /\ born \in 0..MaxChild /\ faults \in 0..MaxFault
    /\ proc \in [Child -> Status]
    /\ current \in Child \cup {None} /\ successor \in Child \cup {None}
    /\ latest \in Child \cup {None} /\ abandoned \subseteq Child

\* A fork gives the child the next number.
LEMMA ForkKids ==
    ASSUME KidsOK, SlotInv, NEW c, pc \in {"cold", "spawn"}, ForkChild(c)
    PROVE  KidsOK' /\ SlotInv'
<1> USE BoundAssumption DEF Child, None, Status, KidsOK
<1>1. /\ stage = "idle" /\ stage' # "idle" /\ born < MaxChild /\ born' = born + 1
      /\ proc' = [proc EXCEPT ![born + 1] = "forked"]
      /\ UNCHANGED <<pc, current, successor, abandoned, latest, faults>>
  BY Zenon DEF ForkChild, Fork
<1>2. born + 1 \in Child /\ proc[born + 1] = "none" BY <1>1 DEF SlotInv
<1>3. proc'[born + 1] = "forked" /\ \A d \in Child : d # born + 1 => proc'[d] = proc[d]
  BY <1>1, <1>2, Zenon
<1>4. KidsOK' BY <1>1, <1>2, SMTT(30), Z3T(30)
<1>5. SlotInv' BY <1>1, <1>2, <1>3, <1>4, SMTT(30), Z3T(30) DEF SlotInv
<1> QED BY <1>4, <1>5, Zenon

\* spawn returns a running child or none.
LEMMA SpawnKids ==
    ASSUME KidsOK, SlotInv, SpawnReturns
    PROVE  KidsOK' /\ SlotInv'
<1> USE BoundAssumption DEF Child, None, Status, KidsOK
<1>1. stage # "idle" /\ stage' = "idle" /\ UNCHANGED <<born, abandoned, faults>>
  BY Zenon DEF SpawnReturns, Spawned
<1>2. born \in Child /\ proc[born] = "forked" BY <1>1 DEF SlotInv
<1> DEFINE s == IF ~(stage = "done") THEN "gone" ELSE IF pc = "down" THEN "orphan" ELSE "running"
<1>3. proc' = [proc EXCEPT ![born] = s] BY Zenon DEF SpawnReturns
<1>4. proc'[born] = s /\ \A d \in Child : d # born => proc'[d] = proc[d]
  BY <1>2, <1>3, Zenon
<1>5. CASE pc = "down" /\ UNCHANGED <<pc, current, successor, latest>>
  BY <1>1, <1>2, <1>3, <1>4, <1>5, ZenonT(30) DEF SlotInv
<1>6. CASE /\ pc = "cold" /\ pc' = IF stage = "done" THEN "resume" ELSE "down"
           /\ current' = IF stage = "done" THEN born ELSE None
           /\ latest' = current' /\ UNCHANGED successor
  BY <1>1, <1>2, <1>3, <1>4, <1>6, Zenon DEF SlotInv
<1>7. CASE /\ pc = "spawn" /\ pc' = IF stage = "done" THEN "drive" ELSE "reply"
           /\ successor' = IF stage = "done" THEN born ELSE None
           /\ UNCHANGED <<current, latest>>
  BY <1>1, <1>2, <1>3, <1>4, <1>7, SMTT(30), Z3T(30) DEF SlotInv
<1> QED BY <1>5, <1>6, <1>7, Zenon DEF SpawnReturns

\* ChildGuard, the reap and its grace end the life of one child or leave it on record.
LEMMA ReapKids ==
    ASSUME KidsOK, SlotInv, HandoffErr \/ AbortHandoff \/ ReapOutgoing \/ AbandonOutgoing
    PROVE  KidsOK' /\ SlotInv'
<1> USE BoundAssumption DEF Child, None, Status, KidsOK
<1>1. pc \in {"drive", "reap"} /\ stage = "idle" /\ UNCHANGED <<stage, born, faults, latest>>
  BY Zenon DEF HandoffErr, AbortHandoff, ReapOutgoing, AbandonOutgoing, DropGuard, ReplaceSlot, Goto,
         fdVars, SlotInv
<1>2. /\ current \in Child /\ successor \in Child /\ current # successor
      /\ proc[current] \in {"running", "zombie"} /\ proc[successor] \in {"running", "zombie"}
  BY <1>1, Zenon DEF SlotInv
<1>3. CASE HandoffErr \/ AbortHandoff
  <2>1. /\ pc = "drive" /\ pc' \in {"reply", "undo"} /\ proc' = [proc EXCEPT ![successor] = "gone"]
        /\ successor' = None /\ UNCHANGED <<current, abandoned>>
    BY <1>3, Zenon DEF HandoffErr, AbortHandoff, DropGuard, Reaped
  <2>2. proc'[successor] = "gone" /\ \A d \in Child : d # successor => proc'[d] = proc[d]
    BY <2>1, <1>2, Zenon
  <2> QED BY <1>1, <1>2, <2>1, <2>2, Zenon DEF SlotInv
<1>4. CASE ReapOutgoing
  <2>1. /\ pc = "reap" /\ pc' = "reply" /\ proc' = [proc EXCEPT ![current] = "gone"]
        /\ current' = successor /\ successor' = None /\ UNCHANGED abandoned
    BY <1>4, Zenon DEF ReapOutgoing, ReplaceSlot, Reaped, Goto
  <2>2. proc'[current] = "gone" /\ \A d \in Child : d # current => proc'[d] = proc[d]
    BY <2>1, <1>2, Zenon
  <2> QED BY <1>1, <1>2, <2>1, <2>2, Zenon DEF SlotInv
<1>5. CASE AbandonOutgoing
  <2>1. /\ pc = "reap" /\ pc' = "reply" /\ UNCHANGED proc /\ abandoned' = abandoned \cup {current}
        /\ current' = successor /\ successor' = None
    BY <1>5, Zenon DEF AbandonOutgoing, ReplaceSlot, Goto
  <2> QED BY <1>1, <1>2, <2>1, Zenon DEF SlotInv
<1> QED BY <1>3, <1>4, <1>5, Zenon

\* The end of a child, of the supervisor or of the machine.
LEMMA FaultKids ==
    ASSUME KidsOK, SlotInv,
           \/ \E c \in Child : ChildExits(c)
           \/ SupervisorCrash \/ MainFails \/ PowerFailure
    PROVE  KidsOK' /\ SlotInv'
<1> USE BoundAssumption DEF Child, None, Status, KidsOK
<1>1. UNCHANGED <<stage, born>>
  BY Zenon DEF ChildExits, SupervisorCrash, MainFails, SupervisorGone, PowerFailure, fdVars
<1>2. ASSUME NEW c \in Child, ChildExits(c) PROVE KidsOK' /\ SlotInv'
  <2>1. PICK s \in {"zombie", "gone"} :
           /\ proc' = [proc EXCEPT ![c] = s]
           /\ proc[c] \in {"running", "orphan"} /\ (s = "zombie" <=> proc[c] = "running")
    BY <1>2, Zenon DEF ChildExits
  <2>2. UNCHANGED <<pc, current, successor, abandoned, latest, faults>> BY <1>2, Zenon DEF ChildExits
  <2>3. proc'[c] = s /\ \A d \in Child : d # c => proc'[d] = proc[d] BY <2>1, Zenon
  <2> QED BY <1>1, <2>1, <2>2, <2>3, SMTT(30), Z3T(30) DEF SlotInv
<1>3. CASE SupervisorGone
  <2>1. /\ pc' = "down" /\ faults' = faults + 1 /\ faults < MaxFault
        /\ current' = None /\ successor' = None /\ latest' = None /\ abandoned' = {}
    BY <1>3, Zenon DEF SupervisorGone
  <2>2. proc' = [c \in Child |-> IF proc[c] = "running" THEN "orphan"
                                 ELSE IF proc[c] = "zombie" THEN "gone" ELSE proc[c]]
    BY <1>3, Zenon DEF SupervisorGone
  <2>3. proc' \in [Child -> Status] BY <2>2, Zenon
  <2>4. \A c \in Child : /\ proc'[c] \notin {"running", "zombie"}
                         /\ proc'[c] = "forked" <=> proc[c] = "forked"
                         /\ proc[c] = "none" => proc'[c] = "none"
    BY <2>2, Zenon
  <2> QED BY <1>1, <2>1, <2>3, <2>4, SMTT(30), Z3T(30) DEF SlotInv
<1>4. CASE PowerFailure
  <2>1. /\ pc' = "down" /\ faults' = faults + 1 /\ faults < MaxFault /\ stage = "idle"
        /\ current' = None /\ successor' = None /\ latest' = None /\ abandoned' = {}
        /\ proc' = [c \in Child |-> IF proc[c] = "none" THEN "none" ELSE "gone"]
    BY <1>4, Zenon DEF PowerFailure
  <2> QED BY <1>1, <2>1 DEF SlotInv
<1> QED BY <1>2, <1>3, <1>4, Zenon DEF SupervisorCrash, MainFails

\* Every step of the reference supervisor keeps track of its children.
LEMMA NextKids == KidsOK /\ SlotInv /\ [Next]_vars => KidsOK' /\ SlotInv'
<1> SUFFICES ASSUME KidsOK, SlotInv, [Next]_vars PROVE KidsOK' /\ SlotInv'
  BY Zenon
<1> USE BoundAssumption DEF Child, None, Status, KidsOK
<1>1. CASE ForkCold BY <1>1, ForkKids, SMTT(30), Z3T(30) DEF ForkCold
<1>2. CASE ForkSuccessor BY <1>2, ForkKids, SMTT(30), Z3T(30) DEF ForkSuccessor
<1>3. CASE ChildInstalls
  <2>1. UNCHANGED <<pc, born, proc, current, successor, abandoned, latest, faults>>
    BY <1>3, Zenon DEF ChildInstalls, supVars
  <2>2. stage # "idle" /\ stage' # "idle"
    BY <1>3, Zenon DEF ChildInstalls, Install, Lift, LiftFails, Settle, CloseStaged, Exec, ExecFails, Loop
  <2> QED BY <2>1, <2>2, Zenon DEF SlotInv
<1>4. CASE UNCHANGED <<stage, supVars>> BY <1>4, Zenon DEF supVars, SlotInv
<1>5. CASE \/ ForkFails \/ ResumeFromJournal \/ BindTrigger \/ ReadTriggerCommand \/ ReachIncumbent
           \/ UndoReturns \/ CommitReturns \/ Reply \/ Boot \/ AcceptTrigger
  <2>1. UNCHANGED <<stage, born, proc, current, successor, abandoned, latest, faults>>
    BY <1>5, Zenon DEF ForkFails, ResumeFromJournal, BindTrigger, ReadTriggerCommand, ReachIncumbent,
       UndoReturns, CommitReturns, Reply, Boot, AcceptTrigger, OnlyPc, fdVars
  <2>2. \/ pc = "cold" /\ pc' = "down" /\ stage = "idle"
        \/ pc = "down" /\ pc' = "cold" /\ stage = "idle"
        \/ pc = "commit" /\ pc' = "reap"
        \/ /\ pc \notin {"cold", "down", "drive", "commit", "reap"}
           /\ pc' \notin {"cold", "down", "drive", "commit", "reap"}
           /\ pc # "spawn" \/ stage = "idle"
    BY <1>5, Zenon DEF ForkFails, ResumeFromJournal, BindTrigger, ReadTriggerCommand, ReachIncumbent,
       UndoReturns, CommitReturns, Reply, Boot, AcceptTrigger, Goto
  <2> QED BY <2>1, <2>2, Zenon DEF SlotInv
<1>6. CASE CommitHandoff
  <2>1. /\ pc = "drive" /\ pc' = "commit" /\ latest' = successor
        /\ UNCHANGED <<stage, born, proc, current, successor, abandoned, faults>>
    BY <1>6, Zenon DEF CommitHandoff, Goto, fdVars
  <2> QED BY <2>1, Zenon DEF SlotInv
<1> HIDE DEF Child, None, Status, KidsOK
<1> QED
  BY <1>1, <1>2, <1>3, <1>4, <1>5, <1>6, SpawnKids, ReapKids, FaultKids, Zenon
  DEF Next, MainNext, JournalSet, CommittedNotJournaled, vars, fdVars

\* At first there are no children.
LEMMA InitKids == Init => KidsOK /\ SlotInv
  BY BoundAssumption DEF Init, NoChild, KidsOK, SlotInv, Status, Child, None

\* The trigger loop's slot holds the child committed last, unreaped.
THEOREM SlotIsLatest == Spec => []SlotHoldsLatest
<1>1. KidsOK /\ SlotInv => SlotHoldsLatest BY Zenon DEF SlotInv, SlotHoldsLatest
<1> QED BY <1>1, InitKids, NextKids, PTL DEF Spec

\* The variables of main that say nothing of children keep their types.
LEMMA NextType ==
    ASSUME TypeOK, KidsOK', FdTypeOK', JournalTypeOK', [Next]_vars
    PROVE  TypeOK'
<1> USE DEF TypeOK, Next, MainNext, vars, supVars, ForkCold, ForkSuccessor, ForkChild, ForkFails,
     SpawnReturns, ChildInstalls, ResumeFromJournal, BindTrigger, AcceptTrigger, ReadTriggerCommand,
     ReachIncumbent, JournalSet, HandoffErr, AbortHandoff, DropGuard, UndoReturns, CommitHandoff,
     CommittedNotJournaled, CommitReturns, ReapOutgoing, AbandonOutgoing, ReplaceSlot, Reply, Boot,
     ChildExits, SupervisorCrash, MainFails, SupervisorGone, PowerFailure, OnlyPc
<1>1. layout' \in Layouts BY Zenon
<1>2. listenPid' \in BOOLEAN BY Zenon
<1>3. pc' \in {"down", "cold", "resume", "bind", "accept", "read", "handoff", "spawn", "drive",
               "undo", "commit", "reap", "reply"}
  BY Zenon DEF Goto
<1> QED BY <1>1, <1>2, <1>3, ZenonT(30) DEF KidsOK, Status

\* What main knows, its children's descriptors and its journal keep their invariants.
LEMMA NextInvariants ==
    TypeOK /\ InstallInv /\ JournalInv /\ KidsOK /\ SlotInv /\ [Next]_vars
        => (TypeOK /\ InstallInv /\ JournalInv /\ KidsOK /\ SlotInv)'
<1>1. /\ InstallInv /\ [Next]_vars => InstallInv'
      /\ JournalInv /\ [Next]_vars => JournalInv'
  BY NextFds, NextInstall, NextFiles, NextJournal, Zenon
<1>2. InstallInv' => FdTypeOK' BY DEF InstallInv
<1>3. JournalInv' => JournalTypeOK' BY DEF JournalInv
<1> QED BY <1>1, <1>2, <1>3, NextKids, NextType, Zenon

\* They hold when the first supervisor starts.
LEMMA InitInvariants == Init => TypeOK /\ InstallInv /\ JournalInv /\ KidsOK /\ SlotInv
<1> SUFFICES ASSUME Init PROVE TypeOK /\ InstallInv /\ JournalInv /\ KidsOK /\ SlotInv
  OBVIOUS
<1>1. InstallInv /\ JournalInv BY InitInstall, InitJournal, Zenon DEF Init
<1>2. FdTypeOK /\ JournalTypeOK BY <1>1 DEF InstallInv, JournalInv
<1>3. listenPid \in BOOLEAN BY Zenon DEF Init
<1>4. KidsOK /\ SlotInv BY InitKids, Zenon
<1>5. TypeOK BY <1>2, <1>3, <1>4 DEF Init, TypeOK, KidsOK, Status
<1> QED BY <1>1, <1>4, <1>5

\* Every child of this supervisor that is not reaped is in the slot, in the handoff under
\* way, or on record as abandoned.
THEOREM AllAccounted == Spec => []ChildrenAccounted
<1>1. TypeOK /\ KidsOK /\ SlotInv => ChildrenAccounted BY DEF SlotInv, ChildrenAccounted
<1> QED BY <1>1, InitInvariants, NextInvariants, PTL DEF Spec
-----------------------------------------------------------------------------
\* A non-empty set of naturals has a least element: induction over data, as the provers
\* can use it.
LEMMA LeastElement ==
    ASSUME NEW T \in SUBSET Nat, T # {}
    PROVE  \E i \in T : \A j \in T : i <= j
<1> DEFINE R == OpToRel(<, Nat)
<1>1. IsWellFoundedOn(R, Nat) BY NatLessThanWellFounded, Zenon
<1>2. \A i, j \in Nat : j < i => <<j, i>> \in R BY Zenon DEF OpToRel
<1> HIDE DEF R
<1>3. PICK i \in T : \A j \in T : ~(<<j, i>> \in R) BY <1>1, WFMin, Zenon
<1>4. \A j \in T : ~(j < i) BY <1>2, <1>3, Zenon
<1> QED BY <1>3, <1>4

\* A sequence with one more element.
LEMMA OneMore ==
    ASSUME NEW S, NEW u \in Seq(S), NEW e \in S
    PROVE  u \o <<e>> = [j \in 1..(Len(u) + 1) |-> IF j <= Len(u) THEN u[j] ELSE e]
OBVIOUS

\* LISTEN_FDNAMES, joined and split at the colons, is the names again when they have none.
LEMMA JoinedPlain ==
    ASSUME NEW S, nl \in Nat, NEW x \in [1..nl -> S],
           \A i \in 1..nl : Names[i] = <<x[i]>>
    PROVE  FdNames = x
<1> DEFINE Step(f) == [i \in 0..nl |-> IF i = 0 THEN <<>> ELSE f[i - 1] \o Names[i]]
           g == [i \in 0..nl |-> [j \in 1..i |-> x[j]]]
           joined == CHOOSE f : f = Step(f)
<1>1. \A i \in 0..nl : g[i] \in Seq(S) /\ Len(g[i]) = i
  OBVIOUS
<1>2. ASSUME NEW i \in 0..nl PROVE g[i] = IF i = 0 THEN <<>> ELSE g[i - 1] \o Names[i]
  <2>1. CASE i = 0 BY <1>1, <2>1
  <2>2. CASE i # 0
    <3>1. i - 1 \in 0..nl BY <2>2
    <3>2. g[i - 1] \in Seq(S) /\ Len(g[i - 1]) = i - 1 BY <1>1, <3>1, Zenon
    <3>3. Names[i] = <<x[i]>> /\ x[i] \in S /\ (i - 1) + 1 = i BY <2>2
    <3>4. g[i - 1] \o Names[i] = [j \in 1..i |-> IF j <= i - 1 THEN g[i - 1][j] ELSE x[i]]
      <4> HIDE DEF g
      <4> QED BY <3>2, <3>3, OneMore
    <3>5. g[i] = [j \in 1..i |-> x[j]] /\ g[i - 1] = [j \in 1..(i - 1) |-> x[j]] BY <3>1, Zenon
    <3>6. \A j \in 1..i : (j <= i - 1 => g[i - 1][j] = x[j]) /\ (~(j <= i - 1) => j = i)
      BY <3>1, <3>5
    <3> HIDE DEF g
    <3> QED BY <2>2, <3>4, <3>5, <3>6, Zenon
  <2> QED BY <2>1, <2>2, ZenonT(30)
<1>3. g = Step(g) BY <1>2, Zenon
<1>4. joined = Step(joined) BY <1>3, Zenon
<1>5. FdNames = joined[nl] BY Zenon DEF FdNames
<1> HIDE DEF joined
<1>6. \A i \in 0..nl : joined[i] = IF i = 0 THEN <<>> ELSE joined[i - 1] \o Names[i]
  BY <1>4, Zenon
<1>7. \A i \in 0..nl : joined[i] = g[i]
  <2> DEFINE T == {i \in 0..nl : joined[i] # g[i]}
  <2>1. SUFFICES ASSUME T # {} PROVE FALSE BY ZenonT(30)
  <2>2. T \in SUBSET Nat OBVIOUS
  <2>3. PICK i \in T : \A j \in T : i <= j BY <2>1, <2>2, LeastElement, Zenon
  <2>4. i \in 0..nl /\ joined[i] # g[i] BY <2>3
  <2>5. i # 0 BY <1>2, <1>6, <2>4, Zenon
  <2>6. i - 1 \in 0..nl /\ ~(i <= i - 1) BY <2>4, <2>5
  <2>7. joined[i - 1] = g[i - 1] BY <2>3, <2>6, Zenon
  <2> HIDE DEF T, g
  <2> QED BY <1>2, <1>6, <2>4, <2>5, <2>7, Zenon
<1> QED BY <1>5, <1>7
-----------------------------------------------------------------------------
\* extra_fd of a spawn: none, or a descriptor that was free before the socketpair.
Extra(c) == c = 0 \/ (c \in Fd /\ ParentTable(0)[c] = Closed)

\* The child before its exec was given this supervisor's listeners and, when it is a
\* successor that the supervisor waits for, its end of the socketpair.
SpawnInv ==
    stage # "idle" =>
        \E c : /\ Extra(c) /\ (pc = "spawn" => c # 0)
              /\ forked = ParentTable(c) /\ sources = Passed(c)

\* main changes where its listeners are only when it boots, with no child before its exec.
LEMMA NextSpawn ==
    ASSUME TypeOK, SlotInv, SpawnInv, [Next]_vars
    PROVE  SpawnInv'
<1>1. ASSUME UNCHANGED <<layout, forked, sources>>, stage # "idle",
             pc' = "spawn" => pc = "spawn"
      PROVE  SpawnInv'
  <2>1. PICK c : /\ Extra(c) /\ (pc = "spawn" => c # 0)
                 /\ forked = ParentTable(c) /\ sources = Passed(c)
    BY <1>1, Zenon DEF SpawnInv
  <2>2. Extra(c)' BY <1>1, <2>1, Zenon DEF Extra, ParentTable
  <2>3. forked' = ParentTable(c)' /\ sources' = Passed(c)'
    BY <1>1, <2>1 DEF ParentTable, Passed
  <2> QED BY <1>1, <2>1, <2>2, <2>3, Zenon DEF SpawnInv
<1>2. ASSUME NEW c, Extra(c), pc = "spawn" => c # 0, ForkChild(c) PROVE SpawnInv'
  <2>1. /\ forked' = ParentTable(c) /\ sources' = Passed(c) /\ UNCHANGED <<pc, layout>>
    BY <1>2, Zenon DEF ForkChild, Fork
  <2>2. Extra(c)' /\ ParentTable(c)' = ParentTable(c) /\ Passed(c)' = Passed(c)
    BY <1>2, <2>1 DEF Extra, ParentTable, Passed
  <2> QED BY <1>2, <2>1, <2>2, Zenon DEF SpawnInv
<1>3. CASE ForkCold
  BY <1>2, <1>3, Zenon DEF ForkCold, Extra
<1>4. CASE ForkSuccessor
  <2>1. PICK c \in Fd : ParentTable(0)[c] = Closed /\ ForkChild(c) BY <1>4 DEF ForkSuccessor
  <2>2. c # 0 BY <2>1, FdAssumption, SMTT(30), Z3T(30) DEF Fd
  <2> QED BY <1>2, <2>1, <2>2, Zenon DEF Extra
<1>5. CASE SpawnReturns
  BY <1>5, Zenon DEF SpawnReturns, Spawned, SpawnInv
<1>6. CASE ChildInstalls
  <2>1. /\ UNCHANGED <<layout, forked, sources, pc>> /\ stage # "idle"
    BY <1>6, Zenon DEF ChildInstalls, Install, Lift, LiftFails, Settle, CloseStaged, Exec, ExecFails,
       forkVars, supVars
  <2> QED BY <1>1, <2>1, Zenon
<1>7. ASSUME UNCHANGED fdVars, stage = "idle" PROVE SpawnInv'
  BY <1>7, Zenon DEF SpawnInv, fdVars
<1>8. ASSUME UNCHANGED <<fdVars, layout>>, pc' = "spawn" => pc \in {"spawn", "handoff"}
      PROVE  SpawnInv'
  <2>1. stage # "idle" => pc # "handoff" BY Zenon DEF SlotInv
  <2> QED BY <1>1, <1>7, <1>8, <2>1, Zenon DEF fdVars, forkVars
<1>9. CASE Boot BY <1>7, <1>9, Zenon DEF Boot
<1>10. CASE \/ ForkFails \/ ResumeFromJournal \/ BindTrigger \/ ReadTriggerCommand
            \/ ReachIncumbent \/ JournalSet \/ HandoffErr \/ AbortHandoff \/ UndoReturns
            \/ CommitHandoff \/ CommittedNotJournaled \/ CommitReturns
            \/ ReapOutgoing \/ AbandonOutgoing \/ Reply \/ AcceptTrigger
            \/ (\E c \in Child : ChildExits(c))
            \/ SupervisorCrash \/ MainFails \/ PowerFailure \/ UNCHANGED vars
  <2>1. UNCHANGED <<fdVars, layout>>
    BY <1>10, Zenon DEF ForkFails, ResumeFromJournal, BindTrigger, ReadTriggerCommand,
       ReachIncumbent, JournalSet, HandoffErr, AbortHandoff, UndoReturns, CommitHandoff,
       CommittedNotJournaled, CommitReturns, ReapOutgoing, AbandonOutgoing, Reply, AcceptTrigger,
       ChildExits, SupervisorCrash, MainFails, SupervisorGone, PowerFailure, vars, supVars,
       DropGuard, ReplaceSlot, OnlyPc
  <2>2. pc' = "spawn" => pc \in {"spawn", "handoff"}
    BY <1>10, ZenonT(30) DEF ForkFails, ResumeFromJournal, BindTrigger, ReadTriggerCommand,
       ReachIncumbent, JournalSet, HandoffErr, AbortHandoff, UndoReturns, CommitHandoff,
       CommittedNotJournaled, CommitReturns, ReapOutgoing, AbandonOutgoing, Reply, AcceptTrigger,
       ChildExits, SupervisorCrash, MainFails, SupervisorGone, PowerFailure, vars, supVars,
       DropGuard, ReplaceSlot, Goto
  <2> QED BY <1>8, <2>1, <2>2
<1> QED BY <1>3, <1>4, <1>5, <1>6, <1>9, <1>10, Zenon DEF Next, MainNext

\* The i-th source of a child is the i-th listener, and N's end of the socketpair the last.
LEMMA PassedListeners ==
    ASSUME TypeOK, NEW c, Extra(c), forked = ParentTable(c), sources = Passed(c)
    PROVE  /\ \A i \in 1..nl : i \in 1..Len(sources) /\ Wanted(i) = Listeners[i]
           /\ c # 0 => nl + 1 \in 1..Len(sources) /\ Wanted(nl + 1) = Control
<1>0. Listeners \in Seq(File \ {Foreign}) BY LayoutAssumption
<1>1. /\ nl \in Nat /\ \A i \in 1..nl : Listeners[i] \in File \ {Foreign}
      /\ Closed \notin File /\ MaxFd \in Nat
  <2>1. nl \in Nat /\ \A i \in 1..nl : Listeners[i] \in File \ {Foreign}
    BY ONLY <1>0, SMTT(30), Z3T(30) DEF nl
  <2>2. Closed \notin File /\ MaxFd \in Nat BY FdAssumption, Zenon
  <2> QED BY <2>1, <2>2, Zenon
<1>2. /\ layout.at \in [1..nl -> Fd]
      /\ \A i \in 1..nl : layout.at[i] \notin layout.private \cup layout.foreign
      /\ \A i, j \in 1..nl : layout.at[i] = layout.at[j] => i = j
  BY LayoutAssumption, Zenon DEF TypeOK
<1>3. layout.at \in Seq(Fd) /\ Len(layout.at) = nl BY ONLY <1>1, <1>2, SMTT(30), Z3T(30)
<1>4. ASSUME NEW d, NEW i \in 1..nl, layout.at[i] # d
      PROVE  ParentTable(d)[layout.at[i]] = Listeners[i]
  <2>1. {j \in 1..nl : layout.at[j] = layout.at[i]} = {i} BY <1>2, ZenonT(30)
  <2>2. (CHOOSE j \in {i} : TRUE) = i BY Zenon
  <2>3. layout.at[i] \in Fd /\ layout.at[i] \notin layout.private
        /\ layout.at[i] \notin layout.foreign BY <1>2, ZenonT(30)
  <2> QED BY <1>4, <2>1, <2>2, <2>3, Zenon DEF ParentTable
<1>5. \A i \in 1..nl : layout.at[i] # c
  <2>1. \A i \in 1..nl : layout.at[i] # 0 BY <1>1, <1>2, SMTT(30), Z3T(30) DEF Fd
  <2>2. \A i \in 1..nl : ParentTable(0)[layout.at[i]] # Closed BY <1>1, <1>4, <2>1, ZenonT(30)
  <2> QED BY <2>1, <2>2, Zenon DEF Extra
<1>6. CASE c = 0
  <2>1. sources = layout.at BY <1>3, <1>6, SMTT(30), Z3T(30) DEF Passed
  <2> QED BY <1>1, <1>3, <1>4, <1>5, <1>6, <2>1, SMTT(30), Z3T(30) DEF Wanted
<1>7. CASE c # 0
  <2>1. c \in Fd /\ sources = layout.at \o <<c>> BY <1>7, Zenon DEF Passed, Extra
  <2>2. /\ Len(sources) = nl + 1 /\ sources[nl + 1] = c
        /\ \A i \in 1..nl : sources[i] = layout.at[i]
    <3>1. sources = [j \in 1..(nl + 1) |-> IF j <= nl THEN layout.at[j] ELSE c]
      BY <1>3, <2>1, OneMore
    <3>2. sources \in Seq(Fd) BY <2>1, <1>3, SMTT(30), Z3T(30)
    <3> QED BY <1>1, <3>1, <3>2, SMTT(30), Z3T(30)
  <2>3. ParentTable(c)[c] = Control BY <2>1, Zenon DEF ParentTable
  <2> QED BY <1>1, <1>4, <1>5, <2>2, <2>3, SMTT(30), Z3T(30) DEF Wanted
<1> QED BY <1>6, <1>7, Zenon

\* Where the names are plain, the i-th entry of LISTEN_FDNAMES is the i-th name.
LEMMA PlainFdNames ==
    ASSUME PlainNames, NEW i \in 1..nl
    PROVE  <<FdNames[i]>> = Names[i]
<1> DEFINE x == [j \in 1..nl |-> Names[j][1]]
           S == {Names[j][1] : j \in 1..nl}
<1>1. nl \in Nat BY LayoutAssumption DEF nl
<1>2. x \in [1..nl -> S] BY Zenon
<1>3. \A j \in 1..nl : Names[j] = <<x[j]>> /\ x[j] \in S BY DEF PlainNames
<1> HIDE DEF S, x
<1>4. FdNames = x BY <1>1, <1>2, <1>3, JoinedPlain, ZenonT(30)
<1> QED BY <1>3, <1>4, Zenon

\* Whatever numbers the listeners had in the supervisor, a program it started that asks for
\* a listener by name is given the one configured under it, and a successor finds its
\* control socket: for plain names, any number of listeners and any layout.
THEOREM FoundByName ==
    ASSUME PlainNames
    PROVE  Spec => []ListenerByName
<1>1. ASSUME TypeOK, InstallInv, SpawnInv, stage = "done"
      PROVE  /\ \A i \in 1..nl : TakeListener(Names[i]) = IF listenPid THEN Closed ELSE Listeners[i]
             /\ pc = "spawn" => table[3 + nl] = Control
  <2>1. PICK c : /\ Extra(c) /\ (pc = "spawn" => c # 0)
                 /\ forked = ParentTable(c) /\ sources = Passed(c)
    BY <1>1, Zenon DEF SpawnInv
  <2>2. /\ \A i \in 1..nl : i \in 1..Len(sources) /\ Wanted(i) = Listeners[i]
        /\ c # 0 => nl + 1 \in 1..Len(sources) /\ Wanted(nl + 1) = Control
    BY <1>1, <2>1, PassedListeners, Zenon
  <2>3. /\ nl \in Nat /\ \A i \in 1..nl : Listeners[i] \in File \ {Foreign} /\ Closed \notin File
    BY LayoutAssumption, FdAssumption, SMTT(30), Z3T(30) DEF nl
  <2>4. ASSUME NEW k \in 1..Len(sources) PROVE table[Target(k)] = Wanted(k)
    <3>1. Target(k) \in Fd /\ Target(k) - 2 = k
      BY <1>1, FdFacts, SMTT(30), Z3T(30) DEF InstallInv, ChildInheritsExactly, Target
    <3> QED BY <1>1, <3>1, Zenon DEF InstallInv, ChildInheritsExactly
  <2>5. \A i \in 1..nl : table[Target(i)] = Listeners[i] BY <2>2, <2>4, Zenon
  <2>6. pc = "spawn" => table[3 + nl] = Control
    <3>1. Target(nl + 1) = 3 + nl BY <2>3 DEF Target
    <3> QED BY <2>1, <2>2, <2>4, <3>1, Zenon
  <2>7. ASSUME NEW i \in 1..nl
        PROVE  TakeListener(Names[i]) = IF listenPid THEN Closed ELSE Listeners[i]
    <3> DEFINE slots == {j \in 1..nl : /\ ~listenPid
                                       /\ <<FdNames[j]>> = Names[i]
                                       /\ table[Target(j)] \notin {Closed, Foreign}}
    <3>1. \A j \in 1..nl : <<FdNames[j]>> = Names[i] <=> j = i
      BY PlainFdNames, Zenon DEF PlainNames
    <3>2. slots = IF listenPid THEN {} ELSE {i} BY <2>3, <2>5, <3>1, Zenon
    <3>3. (CHOOSE j \in {i} : \A k \in {i} : k <= j) = i BY <2>3, SMTT(30), Z3T(30)
    <3>4. Inherited(Names[i]) = IF listenPid THEN Closed ELSE Listeners[i]
      BY <2>5, <3>2, <3>3, SMTT(30), Z3T(30) DEF Inherited
    <3> QED BY <2>3, <3>4, Zenon DEF TakeListener
  <2> QED BY <2>6, <2>7, Zenon
<1>2. TypeOK /\ InstallInv /\ SpawnInv => ListenerByName BY <1>1, Zenon DEF ListenerByName
<1>3. Init => SpawnInv BY DEF Init, NoChild, SpawnInv
<1> QED BY <1>2, <1>3, InitInvariants, NextInvariants, NextSpawn, PTL DEF Spec
=============================================================================
