---------------------------- MODULE MCN3000Node ----------------------------
(* Small instances of N3000Node for TLC.                                    *)
EXTENDS N3000Node, TLC

CONSTANTS c1, c2, m1, m2, i1, i2, f1, s1, s2

MCCardOf == [n \in {m1, m2} |-> IF n = m1 THEN c1 ELSE c2]

Image(c, i) == [card |-> c, image |-> i]
Request(fpga, fortville) ==
    [fpga |-> fpga, fortville |-> fortville, dryRun |-> FALSE, drainSkip |-> FALSE]
DryRun(request) == [request EXCEPT !.dryRun = TRUE]
DrainSkip(request) == [request EXCEPT !.drainSkip = TRUE]
Macs(nics, f) == [nics |-> nics, firmware |-> f]

\* Both cards, with and without a NIC, a card with both NICs or one.
Both == Request(<<Image(c1, i1), Image(c2, i2)>>, NoFortville)
CardsAndNic == Request(<<Image(c1, i1), Image(c2, i2)>>, Macs(<<m2>>, f1))
CardAndNics == Request(<<Image(c1, i2)>>, Macs(<<m1, m2>>, f1))
CardAndNic == Request(<<Image(c1, i2)>>, Macs(<<m2>>, f1))

\* A missing URL, an address with no card, no firmware, an unknown MAC.  (The
\* pattern in the CRD keeps empty URLs out; verifySpec and its test do not rely
\* on it.)
Wrong ==
    { Request(<<Image(c1, NoURL)>>, NoFortville),
      Request(<<Image(c1, i1), Image(NoCard, i1)>>, NoFortville),
      Request(<<>>, Macs(<<>>, NoURL)),
      Request(<<Image(c2, i1)>>, Macs(<<m1, NoNic>>, f1)) }

MCMixed == {CardsAndNic, DrainSkip(CardAndNics)}
MCAnswered == {Both, CardAndNic, DryRun(Both)} \cup Wrong
MCRight == {Both, CardAndNic}

\* The slots of the workers are interchangeable.
SlotSymmetry == Permutations(Slots)

====
