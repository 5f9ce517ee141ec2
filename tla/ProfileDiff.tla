------------------------------ MODULE ProfileDiff ------------------------------
(***************************************************************************)
(* Profiles.diff (profiles/profiles.go) on one profile with several sample *)
(* types and several samples of one stack: what Profiles takes for the     *)
(* value of one stack.                                                     *)
(*                                                                         *)
(* The process that is scraped (external) has sites; a profile has one     *)
(* sample per site that was ever reached, the newest site first.  Sites    *)
(* that differ in what diff does not look at (the address within a line, a *)
(* label such as the size of the objects) have one stack.                  *)
(***************************************************************************)
EXTENDS Naturals, Sequences, FiniteSetsExt

CONSTANTS
  Stacks, Sites,
  StackOf,       \* site -> its stack
  ProfileTypes,  \* a set of [types, skipped, cumulative]: how many sample types
                 \* there are, and which of them diff passes over or subtracts
  MaxSteps,      \* bound: what the process does
  None

\* No profile type is passed over as a whole; None is no profile and no cache.
ASSUME ProfileDiffAssumption ==
  /\ IsFiniteSet(Sites) /\ StackOf \in [Sites -> Stacks]
  /\ \A p \in ProfileTypes :
       /\ p.types \in Nat /\ p.skipped \subseteq 1..p.types /\ p.skipped # 1..p.types
       /\ p.cumulative \subseteq (1..p.types) \ p.skipped
       /\ None \notin [1..p.types -> [Sites -> Nat]]
  /\ None \notin [Stacks -> Nat]

VARIABLES
  profileType,  \* never changed
  count,        \* sample type -> site -> its value in the process
  order,        \* the sites that were reached, the newest first
  steps,        \* how much the process did
  sampleType,   \* the sample type diff has come to, 0: no profile
  samples,      \* p.Sample: a set of [pos, stack, value], pos for the order
  cache,        \* prevCache: sample type -> None, or stack -> value
  true,         \* history: what the profile said of each site, for every type
  base,         \* history: true, of the profile that filled the cache
  uploaded,     \* history: sample type -> stack -> what the last upload said
  total         \* history: the sum of all uploads but the first, of cumulative types

diffVars == <<profileType, count, order, steps, sampleType, samples, cache,
              true, base, uploaded, total>>

SampleTypes == 1..profileType.types

Zero(S) == [i \in SampleTypes |-> [x \in S |-> 0]]

DiffInit ==
  /\ profileType \in ProfileTypes
  /\ count = Zero(Sites) /\ order = <<>> /\ steps = 0
  /\ sampleType = 0 /\ samples = {}
  /\ cache = [i \in SampleTypes |-> None]
  /\ true = Zero(Sites) /\ base = None
  /\ uploaded = Zero(Stacks) /\ total = Zero(Stacks)

\* The sum of v over the sites of a stack.
OfStack(v, st) == SumFunctionOnSet(v, {s \in Sites : StackOf[s] = st})

\* The sum over samples in sample type i.
Summed(i, S) == SumFunctionOnSet([s \in S |-> s.value[i]], S)

-----------------------------------------------------------------------------

\* A site is reached; what is not cumulative may go down as well.
Reach ==
  /\ steps < MaxSteps
  /\ steps' = steps + 1
  /\ \E s \in Sites, i \in SampleTypes :
       /\ \/ count' = [count EXCEPT ![i][s] = @ + 1]
          \/ i \notin profileType.cumulative /\ count[i][s] > 0
             /\ count' = [count EXCEPT ![i][s] = 0]
       /\ order' = IF \E n \in 1..Len(order) : order[n] = s THEN order ELSE <<s>> \o order
  /\ UNCHANGED <<profileType, sampleType, samples, cache, true, base, uploaded, total>>

ScrapeProfile ==
  /\ sampleType = 0 /\ order # <<>>
  /\ sampleType' = 1
  /\ samples' = {[pos |-> n, stack |-> StackOf[order[n]],
                  value |-> [i \in SampleTypes |-> count[i][order[n]]]] : n \in 1..Len(order)}
  /\ true' = count
  /\ UNCHANGED <<profileType, count, order, steps, cache, base, uploaded, total>>

\* Mutant: a sample replaces the one before it.
Merged_Last(i) ==
  {s \in samples : \A r \in samples : r.stack = s.stack => r.pos <= s.pos}

\* For each stack its first sample, with the sum of all in sample type i, and
\* only there.
Merged(i) ==
  LET Same(s) == {r \in samples : r.stack = s.stack} IN
  {[s EXCEPT !.value[i] = Summed(i, Same(s))] :
     s \in {f \in samples : \A r \in Same(f) : f.pos <= r.pos}}

\* Mutant: the cache keeps the largest value.
Remembered_Max(i, merged) ==
  [st \in Stacks |-> LET old == IF cache[i] = None THEN 0 ELSE cache[i][st]
                     IN  Max({old} \cup {s.value[i] : s \in {m \in merged : m.stack = st}})]

Remembered(i, merged) ==
  [st \in Stacks |->
     IF \E s \in merged : s.stack = st
     THEN (CHOOSE s \in merged : s.stack = st).value[i]
     ELSE IF cache[i] = None THEN 0 ELSE cache[i][st]]

\* A value below the previous one is taken for a reset; what the cache is filled
\* with is reported as it is.
Increase(i, s) ==
  IF cache[i] # None /\ s.value[i] >= cache[i][s.stack]
  THEN [s EXCEPT !.value[i] = @ - cache[i][s.stack]] ELSE s

\* One turn of the loop over the sample types.
DiffSampleType ==
  /\ sampleType \in SampleTypes
  /\ sampleType' = sampleType + 1
  /\ LET i == sampleType IN
       \/ /\ i \in profileType.skipped
          /\ UNCHANGED <<samples, cache>>
       \/ /\ i \notin profileType.skipped \cup profileType.cumulative
          /\ samples' = Merged(i)
          /\ UNCHANGED cache
       \/ /\ i \in profileType.cumulative
          /\ samples' = {Increase(i, s) : s \in Merged(i)}
          /\ cache' = [cache EXCEPT ![i] = Remembered(i, Merged(i))]
  /\ UNCHANGED <<profileType, count, order, steps, true, base, uploaded, total>>

\* The server adds up the samples of a stack.
UploadProfile ==
  /\ sampleType = profileType.types + 1
  /\ sampleType' = 0 /\ samples' = {}
  /\ uploaded' = [i \in SampleTypes |-> [st \in Stacks |->
       Summed(i, {s \in samples : s.stack = st})]]
  /\ IF base = None
     THEN base' = true /\ UNCHANGED total
     ELSE /\ total' = [i \in SampleTypes |-> [st \in Stacks |->
               IF i \in profileType.cumulative THEN total[i][st] + uploaded'[i][st] ELSE 0]]
          /\ UNCHANGED base
  /\ UNCHANGED <<profileType, count, order, steps, cache, true>>

DiffNext == Reach \/ ScrapeProfile \/ DiffSampleType \/ UploadProfile

DiffSpec == DiffInit /\ [][DiffNext]_diffVars

-----------------------------------------------------------------------------
(***************************************************************************)
(* Properties                                                              *)
(***************************************************************************)

\* What a stack did between the first and the last profile.
Growth(i, st) == OfStack(true[i], st) - OfStack(base[i], st)

\* What must be reported for sample type i of a stack: all growth, or the value
\* there is.
Exact(i, st) ==
  IF i \in profileType.cumulative THEN total[i][st] = Growth(i, st)
                                  ELSE uploaded[i][st] = OfStack(true[i], st)

Uploaded == base # None /\ sampleType = 0

\* Samples of one stack are merged, differences taken of the sums: the first
\* sample type that is not passed over is reported in full, in every profile.
FirstTypeExact ==
  Uploaded => \A st \in Stacks :
    Exact(Min(SampleTypes \ profileType.skipped), st)

\* The other sample types are merged when the duplicates are gone already: they
\* are reported in full only for stacks that never had two samples.
OthersExactUnlessSplit ==
  Uploaded => \A st \in Stacks :
    Cardinality({s \in Sites : StackOf[s] = st /\ \E n \in 1..Len(order) : order[n] = s}) <= 1
    => \A i \in SampleTypes : Exact(i, st)

\* What diff may leave out of a profile with several sample types.
ReportedInFull == FirstTypeExact /\ OthersExactUnlessSplit

\* Values are lost then, and the one sample that is left may be of one site now
\* and of another one later: no more is reported than happened all the same.
NeverTooMuch ==
  Uploaded => \A st \in Stacks, i \in profileType.cumulative : total[i][st] <= Growth(i, st)
=============================================================================
