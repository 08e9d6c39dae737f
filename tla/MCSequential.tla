---------------------------- MODULE MCSequential ----------------------------
(* Three parts that one thread runs alone, side by side: a behaviour is one  *)
(* of integer arithmetic (Bignum), of rational arithmetic (Rational) or of   *)
(* the collector's hash table (Hopscotch).  The operation and its result are *)
(* shared variables; those of the other parts keep the value Idle.           *)
EXTENDS Bignum

CONSTANTS Idle,
          RealOperands    \* the rationals that Rational computes with
VARIABLES part, left, right, table, cache, map
bignumVars    == <<x, y>>
rationalVars  == <<left, right>>
hopscotchVars == <<table, cache, map>>
allVars == <<part, vars, rationalVars, hopscotchVars>>

\* The ends of the fixnums and of one, two, three and four digits of six bits.
Edges == {0, 1, 3, 16, 31, 32, 63, 64, 992, 2047, 2048, 4095, 4160, 65535, 87381, 129024, 131071, 131072}
MCOperands == Edges \cup {-n : n \in Edges} \cup {2, 5, 6, 7, 12, 13}
MCCounts == 0 .. 13

\* Integers and ratios about the ends of fixnums of five bits.
MCReals == {<<n, 1>> : n \in -6 .. 6 \cup {-17, -16, -15, 8, 9, 12, 14, 15, 16, 18}}
           \cup {<<n, 2>> : n \in {-9, -1, 1, 3, 5, 31}} \cup {<<n, 3>> : n \in {-8, -2, -1, 4}}
           \cup {<<n, 4>> : n \in {-3, 1, 7}} \cup {<<n, 6>> : n \in {-5, 1, 7}}
           \cup {<<n, 8>> : n \in {-3, 5}} \cup {<<n, 9>> : n \in {-2, 7}}
           \cup {<<5, 12>>, <<-7, 12>>, <<3, 10>>, <<-5, 18>>}
\* Ratios with F + 1, which is no fixnum though its negative is one.
MCEdgeReals == MCReals \cup {<<16, 3>>, <<3, 16>>}
MCParts == {<<0, 1>>, <<1, 1>>, <<-2, 1>>, <<1, 2>>, <<-3, 2>>, <<2, 3>>}

RA == INSTANCE Rational WITH F <- 15, Reals <- RealOperands, Parts <- MCParts,
                             Powers <- -3 .. 5 \cup {16, 17}, Bounds <- {-16, -2, -1, 0, 1, 4, 15}
ASSUME RationalParameters == RA!Sizes

\* Four keys whose address, content and mixed hashes collide in part: enough
\* for an insertion that moves two keys, and for one that moves a key, finds no
\* room all the same and resizes.
HH == INSTANCE Hopscotch WITH
        Keys <- 1 .. 4, Vals <- {1}, Sizes <- {2}, Cutoffs <- <<2, 4>>, Ranges <- <<2, 2, 4>>,
        Hash <- <<<<0, 0, 0>>, <<1, 0, 8>>, <<2, 1, 2>>, <<4, 1, 4>>>>,
        Content <- <<1, 1, 2, 2>>, MinSize <- 2, Width <- 2, Granule <- 128, PageSize <- 64

RationalInit == /\ part = "rationals" /\ RA!Init
                /\ x = Idle /\ y = Idle /\ table = Idle /\ cache = Idle /\ map = Idle
SequentialInit ==
    \/ /\ part = "integers" /\ Init
       /\ left = Idle /\ right = Idle /\ table = Idle /\ cache = Idle /\ map = Idle
    \/ RationalInit
    \/ /\ part = "hopscotch" /\ HH!Init
       /\ x = Idle /\ y = Idle /\ op = Idle /\ res = Idle /\ left = Idle /\ right = Idle

SequentialNext ==
    \/ part = "integers" /\ UNCHANGED <<part, rationalVars, hopscotchVars>> /\ Next
    \/ part = "rationals" /\ RA!Next /\ UNCHANGED <<part, bignumVars, hopscotchVars>>
    \/ part = "hopscotch" /\ HH!Next /\ UNCHANGED <<part, vars, rationalVars>>
SequentialSpec == SequentialInit /\ [][SequentialNext]_allVars
RationalSpec == RationalInit /\ [][SequentialNext]_allVars

-----------------------------------------------------------------------------
(* Properties: those of the module that runs.                               *)

\* Every operation on integers, ratios and complexes returns the number that
\* mathematics says, the rounded one where the result is a float, and in the
\* one form that its value has: a fixnum if it fits one, no digit too many, a
\* ratio in lowest terms.
ArithmeticIsExact ==
    /\ part = "integers" => ResultsAreExact /\ ResultsAreCanonical
    /\ part = "rationals" => RA!ResultsAreExact /\ RA!ResultsAreCanonical

\* *-BY-FIXNUM-TO-FIXNUM never runs into its (SB-IMPL::UNREACHABLE).
UnreachableIsNotReached == part = "rationals" => RA!UnreachableIsNotReached

\* The collector's table finds exactly what was put into it, its bins claim
\* the cells of their own keys, and memory is zero when a table is laid over it.
HopscotchIsExact ==
    part = "hopscotch" => HH!LookupIsExact /\ HH!IntegrityCheck /\ HH!MemoryIsZeroed
=============================================================================
