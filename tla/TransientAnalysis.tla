-------------------------- MODULE TransientAnalysis --------------------------
(***************************************************************************)
(* TransientAnalysis::analyse() (src/Source/Chopping/TransientAnalysis.cpp): *)
(* the onsets of a signal that become slice boundaries.  A request is       *)
(* [target, envelope, sensitivity, floor, minimum, lookBack]; the envelope  *)
(* maps the source's frames to magnitudes, the sensitivity is in tenths.    *)
(***************************************************************************)
EXTENDS SliceModel, SequencesExt

Trim(request) == request.target.trimStart + 1 .. request.target.trimEnd - 1

\* strengths: how far the envelope rises at a frame; nothing rises at the trim's ends.
Strength(request, frame) ==
  IF frame \notin Trim(request) THEN 0
  ELSE Max({0, request.envelope[frame] - request.envelope[frame - 1]})

MaximumStrength(request) == Max({0} \cup {Strength(request, f) : f \in Trim(request)})

\* The threshold in hundredths: the floor, or what the sensitivity leaves of the maximum.
Threshold(request) ==
  Max({100 * request.floor, MaximumStrength(request) * (100 - 9 * request.sensitivity)})

\* Local maxima of the strength that reach the threshold.
Candidates(request) ==
  LET threshold == Threshold(request)
  IN IF MaximumStrength(request) <= request.floor THEN {}
     ELSE {f \in Trim(request) :
             /\ 100 * Strength(request, f) >= threshold
             /\ Strength(request, f) > Strength(request, f - 1)
             /\ Strength(request, f) >= Strength(request, f + 1)}

\* Mutant of Before: the candidates are taken in the order of the signal.
EarlierFirst(request, f, g) == f < g

\* The stronger candidate comes first, then the earlier one.
Before(request, f, g) ==
  \/ Strength(request, f) > Strength(request, g)
  \/ Strength(request, f) = Strength(request, g) /\ f < g

Distance(f, g) == IF f < g THEN g - f ELSE f - g

\* The candidate looked at last.
LastOf(request, frames) == CHOOSE f \in frames : \A g \in frames \ {f} : Before(request, g, f)

\* What is taken of some candidates, looked at in turn: one too close to another already
\* taken is passed over.
Taken(request) ==
  LET taken[frames \in SUBSET Trim(request)] ==
        IF frames = {} THEN {}
        ELSE LET last == LastOf(request, frames)
                 rest == taken[frames \ {last}]
             IN IF \E f \in rest : Distance(last, f) < request.minimum THEN rest
                ELSE rest \cup {last}
  IN taken

Onsets(request) == Taken(request)[Candidates(request)]

\* Moved back by the attack, those that leave the trim are dropped.
Markers(request) ==
  {Max({request.target.trimStart, f - request.lookBack}) : f \in Onsets(request)}
    \cap Trim(request)

Ascending(frames) == FoldSet(LAMBDA f, sorted : Inserted(sorted, f), <<>>, frames)

TransientBoundaries(request) ==
  <<request.target.trimStart>> \o Ascending(Markers(request)) \o <<request.target.trimEnd>>

(***************************************************************************)
(* Reference: what the markers are meant to be, however they are found.    *)
(***************************************************************************)

\* Markers lie at least the minimum apart, each a look-back before a rise that is not
\* below the floor; the strongest rise of all is one of the onsets; and a higher
\* sensitivity keeps every marker a lower one finds.
AnalysisMeetsReference(request) ==
  LET markers == Markers(request)
      maximum == MaximumStrength(request)
      strongest == {f \in Trim(request) : Strength(request, f) = maximum}
  IN /\ \A m, n \in markers : m # n => Distance(m, n) >= request.minimum
     /\ \A m \in markers :
          LET rise == Strength(request, m + request.lookBack)
          IN rise > 0 /\ rise >= request.floor
     /\ maximum > request.floor => strongest \cap Onsets(request) # {}
     /\ \A s \in 0 .. request.sensitivity :
          Markers([request EXCEPT !.sensitivity = s]) \subseteq markers
=============================================================================
