----------------------------- MODULE MCMemHier -----------------------------
(***************************************************************************)
(* TLC instances of MemHier.  Three lines: X and Y share L2 index 0, Z has   *)
(* index 1; all have the same in-page index, so at one colour all three      *)
(* share an L1D set, and a line's two colours are two sets.                  *)
(***************************************************************************)
EXTENDS MemHierData, TLC

CONSTANTS X, Y, Z, a, b

mcSetOf    == [l \in Line |-> (a :> 0 @@ b :> 1)]
mcColourOf == (0 :> a @@ 1 :> b)
mcL2Of     == [l \in Line |-> IF l = Z THEN 1 ELSE 0]
mcPaColour == [l \in Line |-> a]
mcPgLine   == (0 :> X @@ 1 :> Z)
mcPgLine1  == (0 :> X)

\* Only X's byte takes two values; the others stay at v0.
mcValOf == [l \in Line |-> IF l = X THEN Val ELSE {v0}]

mcFetch == {<<Y, TRUE>>}

\* Cached use of X at both colours; Y, which shares its set, is used cached and
\* uncached; Z is uncached data, and fetched both ways.
mcCached   == {<<X, a>>, <<X, b>>, <<Y, a>>}
mcUncached == {<<Y, a>>, <<Z, a>>}
mcUncFetch == {<<Z, TRUE>>, <<Z, FALSE>>}
mcAccVal   == [l \in Line |-> IF l = Z THEN {v0} ELSE Val]

mcXa  == {<<X, a>>}
mcXZa == {<<X, a>>, <<Z, a>>}

\* Under the flushes and the devices X is written at its own colour and Z, which
\* a device writes, is read at both.
mcDmaVA   == {<<X, a>>, <<Z, a>>, <<Z, b>>}

\* Devices: snooped transfers out of X, which the CPU writes, and into Z, which
\* it only reads; into X for the D3 question; page flushes both ways.
mcSnoopIn == {<<"snoop", "in", X>>}
mcXfers   == {<<"xpg", "in", X>>, <<"xpg", "out", X>>, <<"snoop", "out", X>>, <<"snoop", "in", Z>>}
mcLiveVA  == {<<X, a>>, <<Y, a>>}
mcLiveDma == {<<"snoop", "in", X>>, <<"xpg", "out", X>>}
mcDmaVal  == [l \in Line |-> IF l = Y THEN {v0} ELSE Val]
=============================================================================
