---------------------------- MODULE WeavePrefixes ----------------------------
(***************************************************************************)
(* How modern_dice/weave_search.c numbers the prefixes its jobs share: a   *)
(* prefix places the first prefix_faces faces of the second die in         *)
(* nondecreasing gaps of the first, the first face in gap 0.               *)
(* prefix_count_for_faces counts them, the loop of main picks how many     *)
(* faces to fix, and decode_prefix turns a rank into gaps by subtracting   *)
(* the number of prefixes each smaller choice stands for.  Binomials       *)
(* saturate at UINT64_MAX.                                                 *)
(*                                                                         *)
(* decode_prefix is a machine here: one step per turn of its inner loop.   *)
(* WeaveStages runs it for one prefix after the other.                     *)
(***************************************************************************)
EXTENDS Integers, FiniteSets, Sequences

CONSTANT
    Builds          \* records: DICE, SIDES, UINT64_MAX and the jobs asked for

ASSUME PrefixAssumption ==
    \A b \in Builds : {b.dice, b.sides, b.maxWord, b.jobs} \subseteq Nat \ {0}

VARIABLES
    build,          \* what this program was compiled with and started with
    prefixFaces,    \* prefix_faces
    given,          \* the rank decode_prefix was called with
    rank,           \* what is left of it
    face, gap, minimum,
    gaps,           \* the gaps decoded so far
    result          \* "running", then what decode_prefix returns

decodeVars == <<given, rank, face, gap, minimum, gaps, result>>

DICE == build.dice
SIDES == build.sides
MaxWord == build.maxWord

-----------------------------------------------------------------------------
(* binomial_coefficient(n, k): the product is tested before it is divided. *)
WouldOverflow(value, numerator) == value > MaxWord \div numerator

Binomial(n, k) ==
    LET smaller == IF k > n - k THEN n - k ELSE k
        value[i \in 0 .. smaller] ==
            IF i = 0 THEN 1
            ELSE LET numerator == n - smaller + i IN
                 IF value[i - 1] = -1 \/ WouldOverflow(value[i - 1], numerator) THEN -1
                 ELSE ((value[i - 1] * numerator) % (MaxWord + 1)) \div i
    IN  IF k > n THEN 0
        ELSE IF value[smaller] = -1 THEN MaxWord ELSE value[smaller]

PrefixCountForFaces(faces) == Binomial(SIDES + faces - 1, faces - 1)

(* The prefixes that choose g for face f: the later faces are free from g. *)
Below(f, g) == Binomial(SIDES - g + prefixFaces - f - 1, prefixFaces - f - 1)

(* main: eight prefixes for a job, and as many faces as that takes.        *)
PrefixesPerJob == 8
DesiredPrefixes ==
    IF build.jobs > MaxWord \div PrefixesPerJob THEN MaxWord ELSE build.jobs * PrefixesPerJob
ChooseFaces(desired) ==
    CHOOSE f \in 1 .. SIDES :
        /\ f = SIDES \/ PrefixCountForFaces(f) >= desired
        /\ \A e \in 1 .. f - 1 : PrefixCountForFaces(e) < desired

PrefixCount == PrefixCountForFaces(prefixFaces)
JobCount == IF build.jobs < PrefixCount THEN build.jobs ELSE PrefixCount

-----------------------------------------------------------------------------
(* decode_prefix is called for ranks below prefix_count. *)
Call(r) ==
    /\ given' = r /\ rank' = r /\ face' = 1 /\ gap' = 0 /\ minimum' = 0
    /\ gaps' = <<0>> /\ result' = "running"

DecodeInit ==
    /\ build \in Builds
    /\ prefixFaces = ChooseFaces(DesiredPrefixes)
    /\ given = 0 /\ rank = 0 /\ face = 1 /\ gap = 0 /\ minimum = 0
    /\ gaps = <<0>> /\ result = "running"

Deciding == result = "running" /\ face < prefixFaces /\ gap <= SIDES

NextFrom_One(g) == g + 1
NextFrom(g) == g

(* The rank lies below this gap: the face is placed. *)
PlaceFace ==
    /\ Deciding /\ rank < Below(face, gap)
    /\ gaps' = Append(gaps, gap)
    /\ minimum' = gap /\ gap' = NextFrom(gap) /\ face' = face + 1
    /\ UNCHANGED <<build, prefixFaces, given, rank, result>>

SkipGap ==
    /\ Deciding /\ rank >= Below(face, gap)
    /\ rank' = rank - Below(face, gap)
    /\ gap' = gap + 1
    /\ UNCHANGED <<build, prefixFaces, given, face, minimum, gaps, result>>

Return ==
    /\ result = "running" /\ ~Deciding
    /\ result' = IF face = prefixFaces /\ rank = 0 THEN "true" ELSE "false"
    /\ UNCHANGED <<build, prefixFaces, given, rank, face, gap, minimum, gaps>>

Decode == PlaceFace \/ SkipGap \/ Return

-----------------------------------------------------------------------------
(* Properties. *)

(* The prefixes of main: nondecreasing gaps, the first 0, at most SIDES. *)
Canonical(faces, sides) ==
    {g \in [1 .. faces -> 0 .. sides] :
        g[1] = 0 /\ \A i \in 2 .. faces : g[i - 1] <= g[i]}
CanonicalOf == [p \in {<<f, b.sides>> : f \in 1 .. 6, b \in Builds} |-> Canonical(p[1], p[2])]
CanonicalPrefixes == CanonicalOf[<<prefixFaces, SIDES>>]

Precedes(g, h) ==
    \E i \in DOMAIN g : g[i] < h[i] /\ \A j \in 1 .. i - 1 : g[j] = h[j]

(* decode_prefix is the inverse of the lexicographic ranking: it returns   *)
(* the one canonical prefix with exactly rank others before it.  So jobs   *)
(* that never share a rank never search the same prefix twice, and those   *)
(* that search every rank miss none.  It fails on no rank a prefix has:    *)
(* the internal error of apply_stage_two_prefix means that the number of   *)
(* prefixes was saturated.                                                 *)
DecodesRank ==
    /\ result = "true" =>
           /\ gaps \in CanonicalPrefixes
           /\ given = Cardinality({g \in CanonicalPrefixes : Precedes(g, gaps)})
    /\ result = "false" => given >= Cardinality(CanonicalPrefixes)

(* main counts no prefix too few, saturated or not: the ranks of the jobs  *)
(* cover every prefix that a word can count.                               *)
CountsCover ==
    LET prefixes == Cardinality(CanonicalPrefixes)
    IN  PrefixCount >= (IF prefixes < MaxWord THEN prefixes ELSE MaxWord)

(* Every rank a job is given stands for one prefix, and no prefix is       *)
(* without a rank.                                                         *)
PrefixesAreExact == DecodesRank /\ CountsCover
=============================================================================
