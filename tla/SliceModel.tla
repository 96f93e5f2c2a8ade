----------------------------- MODULE SliceModel -----------------------------
(***************************************************************************)
(* Slice sets (src/Source/Chopping/SliceModel.h, SliceModel.cpp): regions   *)
(* of a source layer's trim, the functions that cut a trim into regions and *)
(* the validation every set passes before it is kept.  A region's UUID is a *)
(* digest of the set's UUID, the region's index and its bounds, so a region *)
(* is named by its index.  Slice counts stay far below                      *)
(* maximumProvisionalSliceCount.                                            *)
(***************************************************************************)
EXTENDS Integers, Sequences, FiniteSets

\* struct SliceRegion: the half-open range [start, end).
Region(start, end) == [start |-> start, end |-> end]

\* makeBaseSet(): struct SliceSet; source is [asset, layer, trimStart, trimEnd].
BaseSet(uuid, source, algorithm) ==
  [uuid |-> uuid, asset |-> source.asset, layer |-> source.layer,
   trimStart |-> source.trimStart, trimEnd |-> source.trimEnd,
   algorithm |-> algorithm, discard |-> FALSE, regions |-> <<>>]

\* enum SliceAlgorithm, and the fields of a SliceSet.
Algorithms == {"equal", "fixedLength", "transient", "manual", "lazy"}

IsSliceSet(set) ==
  /\ set = [uuid |-> set.uuid, asset |-> set.asset, layer |-> set.layer,
            trimStart |-> set.trimStart, trimEnd |-> set.trimEnd,
            algorithm |-> set.algorithm, discard |-> set.discard, regions |-> set.regions]
  /\ set.trimStart \in Int /\ set.trimEnd \in Int
  /\ set.regions \in Seq([start : Int, end : Int])
  /\ set.algorithm \in Algorithms /\ set.discard \in BOOLEAN

\* Boundaries in ascending order with one more, where std::lower_bound puts it.
Inserted(bounds, frame) ==
  LET before == Cardinality({i \in DOMAIN bounds : bounds[i] < frame})
  IN SubSeq(bounds, 1, before) \o <<frame>> \o SubSeq(bounds, before + 1, Len(bounds))

\* Only a fixed-length set that discards its remainder may leave a gap.
MustBeContiguous(set) == ~(set.algorithm = "fixedLength" /\ set.discard)

\* validateSliceRegion()
RegionValid(region, trimStart, trimEnd) ==
  /\ 0 <= trimStart /\ trimStart < trimEnd
  /\ trimStart <= region.start
  /\ region.start < region.end
  /\ region.end <= trimEnd

\* Where the region before the i-th one ends.
PreviousEnd(set, i) == IF i = 1 THEN set.trimStart ELSE set.regions[i - 1].end

\* validateSliceSet()
SliceSetValid(set) ==
  LET n == Len(set.regions)
  IN /\ 0 <= set.trimStart /\ set.trimStart < set.trimEnd
     /\ n > 0
     /\ \A i \in 1 .. n :
          /\ RegionValid(set.regions[i], set.trimStart, set.trimEnd)
          /\ PreviousEnd(set, i) <= set.regions[i].start
          /\ MustBeContiguous(set) => set.regions[i].start = PreviousEnd(set, i)
     /\ MustBeContiguous(set) => set.regions[n].end = set.trimEnd

\* The bounds makeSliceSetFromBoundaries() accepts for a trim.
BoundariesValid(bounds, trimStart, trimEnd) ==
  /\ Len(bounds) >= 2
  /\ bounds[1] = trimStart
  /\ bounds[Len(bounds)] = trimEnd
  /\ \A i \in 1 .. Len(bounds) - 1 : bounds[i] < bounds[i + 1]

RegionsBetween(bounds) ==
  [i \in 1 .. Len(bounds) - 1 |-> Region(bounds[i], bounds[i + 1])]

\* makeSliceSetFromBoundaries()
SetFromBoundaries(uuid, source, algorithm, bounds) ==
  [BaseSet(uuid, source, algorithm) EXCEPT !.regions = RegionsBetween(bounds)]

\* generateEqualSlices(): count regions whose lengths differ by at most one.
EqualAccepts(source, count) == 0 < count /\ count <= source.trimEnd - source.trimStart

EqualBoundaries(source, count) ==
  [i \in 1 .. count + 1 |->
     source.trimStart + ((i - 1) * (source.trimEnd - source.trimStart)) \div count]

\* generateFixedLengthSlices(): whole regions of one length, then the remainder.
FixedAccepts(source, length) == 0 < length /\ length <= source.trimEnd - source.trimStart

FixedBoundaries(source, length, discard) ==
  LET trim == source.trimEnd - source.trimStart
      whole == [i \in 1 .. (trim \div length) + 1 |-> source.trimStart + (i - 1) * length]
  IN IF trim % length # 0 /\ ~discard THEN Append(whole, source.trimEnd) ELSE whole

FixedSet(uuid, source, length, discard) ==
  [SetFromBoundaries(uuid, source, "fixedLength", FixedBoundaries(source, length, discard))
     EXCEPT !.discard = discard]
=============================================================================
