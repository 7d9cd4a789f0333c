---------------------------- MODULE MCFunctions ----------------------------
(***************************************************************************)
(* Inputs for TLC.                                                         *)
(***************************************************************************)
EXTENDS PureFunctions

R(first, last, sum) == [first |-> first, last |-> last, sum |-> sum]

RangeLists ==
  {<<>>, <<R(0, 0, <<1>>)>>, <<R(0, 2, <<>>)>>, <<R(0, 0, <<1>>), R(2, 2, <<2>>)>>,
   <<R(1, 1, <<>>), R(2, 2, <<1>>)>>}

(* Not of an image of three blocks: past its end, empty, overlapping.      *)
OddLists == {<<R(1, 3, <<>>)>>, <<R(2, 1, <<>>)>>, <<R(0, 1, <<>>), R(1, 1, <<2>>)>>}

SmallMaps ==
  {[size |-> 5, bs |-> 2, blocks |-> 3, mapped |-> Covered(rs), kind |-> k, ranges |-> rs] :
     rs \in RangeLists, k \in ChecksumKinds \cup {"none"}}
  \cup {[size |-> 0, bs |-> 2, blocks |-> 0, mapped |-> 0, kind |-> "none", ranges |-> <<>>]}

Become(field, values) == {[field |-> field, value |-> v] : v \in values}

OneDamage ==
  UNION {Become("version", {<<>>, <<1, 2>>, <<1, 3>>, <<1, 4>>, <<2, 1>>, <<3, 0>>}),
         Become("size", {Missing, 4, 6, 7}), Become("bs", {Missing, 0, 1, 3}),
         Become("blocks", {Missing, 2, 4}), Become("mapped", {Missing, 0, 1, 2, 4}),
         Become("type", {"none", "md5", "sha1", "sha512"}), Become("attr", {"sha1"}),
         Become("ranges", RangeLists \cup OddLists), Become("cut", {1, 2}),
         Become("digest", {NoDigest})}

=============================================================================
