--------------------------- MODULE MCEquitiesBooks ---------------------------
(* Instances of EquitiesBooks for TLC: purchases of two issues, a sale, one   *)
(* source event told in two ways, a reversal and its target, and drafts that  *)
(* balance only across issues.                                                *)
EXTENDS EquitiesBooks, TLC

CONSTANTS acme, beta

Own(i, q) == [issue |-> i, side |-> "ownership", quantity |-> q]
At(i, q) == [issue |-> i, side |-> "location", quantity |-> q]
Entry(id, source, reverses, lines) ==
    [id |-> id, source |-> source, reverses |-> reverses, lines |-> lines]

Drafts ==
    {Entry("buy", "e1", NoEntry, <<Own(acme, 2), At(acme, -2)>>),
     Entry("buy", "e1", NoEntry, <<Own(acme, 1), At(acme, -1)>>),
     Entry("more", "e2", NoEntry, <<Own(acme, 1), At(acme, -1), Own(beta, 1), At(beta, -1)>>),
     Entry("undo", "e3", "buy", <<Own(acme, -2), At(acme, 2)>>),
     Entry("undo", "e3", "more", <<Own(beta, -1), At(beta, 1)>>),
     Entry("swap", "e4", NoEntry, <<Own(acme, 1), Own(beta, -1)>>)}
=============================================================================
