--------------------------- MODULE MCCorporateAction ---------------------------
(* An instance of CorporateAction for TLC.  An event announced on day 2, with *)
(* the depository's deadline on day 3 and the firm's one day before.  Its     *)
(* submissions are a promise and its covers, in part, in full and twice over; *)
(* the same identifiers with other content; and some that break a rule.  The  *)
(* payments are a dividend in cash, one in shares, a split, and events that   *)
(* cannot be computed; the reports are right, short, doubled, of another      *)
(* balance, direction, asset, account, event and stage.                       *)
EXTENDS CorporateAction, TLC

CONSTANTS dtc

Ids == {"i1", "i2", "c1", "c2"}
Accounts == {"a", "b"}
Options == {1, 2, 9}
Days == {2, 3}

Voluntary == [participation |-> "voluntary", announcement |-> 2, election_deadline |-> 3,
              protect_deadline |-> 3, options |-> {1, 2}, default |-> 2,
              firm_lead_days |-> 1]

Instruct(id, account, option, quantity, received, protect) ==
    [type |-> "instruction", id |-> id, account |-> account, option |-> option,
     quantity |-> quantity, received |-> received, protect |-> protect]
CoverFor(id, covers, account, quantity, received) ==
    [type |-> "protect_cover", id |-> id, covers |-> covers, account |-> account,
     quantity |-> quantity, received |-> received]

Submissions ==
    {Instruct("i1", "a", 1, 3, 2, TRUE), Instruct("i1", "a", 1, 2, 2, TRUE),
     Instruct("i2", "b", 2, 1, 2, FALSE), Instruct("i2", "a", 1, 1, 3, FALSE),
     CoverFor("c1", "i1", "a", 2, 3), CoverFor("c2", "i1", "a", 2, 3),
     CoverFor("i2", "i1", "b", 1, 3)}
Balances == "a" :> 3

-----------------------------------------------------------------------------
NoTerms == [interest |-> Unstated, redemption |-> Unstated, cash |-> Unstated,
            stock |-> Unstated, new |-> Unstated, old |-> Unstated, price |-> Unstated]
Dividend == [id |-> "e1", type |-> "CASH_DIVIDEND", elective |-> FALSE, security |-> "s1",
             currency |-> "usd", terms |-> [NoTerms EXCEPT !.cash = 1]]
PaidEvents ==
    {Dividend,
     [Dividend EXCEPT !.elective = TRUE],
     [Dividend EXCEPT !.terms = NoTerms],
     [Dividend EXCEPT !.type = "INTEREST_PAYMENT", !.terms = [NoTerms EXCEPT !.interest = 1]],
     [Dividend EXCEPT !.type = "SPLIT", !.terms = [NoTerms EXCEPT !.new = 3, !.old = 2]],
     [Dividend EXCEPT !.type = "SPLIT", !.terms = [NoTerms EXCEPT !.new = 1, !.old = 2]],
     [Dividend EXCEPT !.type = "REINVESTMENT",
                      !.terms = [NoTerms EXCEPT !.cash = 1, !.price = 2]],
     [Dividend EXCEPT !.type = "MERGER"]}

Holds(account, eligible) ==
    [account |-> account, security |-> "s1", eligible |-> eligible, settled |-> eligible,
     delivering |-> 0, receiving |-> 0, basis |-> "units"]
Holdings ==
    {{Holds("a", 2)}, {Holds("a", 2), Holds("b", 4)}, {Holds("a", 2), Holds("b", 0)},
     {Holds("a", 3)}, {Holds("a", -2)}, {[Holds("a", 2) EXCEPT !.settled = 1]},
     {[Holds("a", 2) EXCEPT !.receiving = 1]}, {[Holds("a", 2) EXCEPT !.basis = "face_amount"]},
     {[Holds("a", 2) EXCEPT !.security = "s2"]}}

Moved(account, unit, asset, quantity, confirms) ==
    [event |-> "e1", governs |-> "e1", stage |-> "confirmation", announced |-> FALSE,
     account |-> account, unit |-> unit, asset |-> asset, direction |-> "credit",
     quantity |-> quantity, confirms |-> confirms, fails |-> {}]
Cash(account, quantity, confirms) == Moved(account, "cash", "usd", quantity, confirms)
Shares(account, quantity, confirms) == Moved(account, "shares", "s1", quantity, confirms)
Movements ==
    {Cash("a", 2, 2), Cash("a", 1, 1), Cash("b", 4, 4),
     Shares("a", 1, 2), Shares("a", 2, 4), Shares("b", 2, 4),
     [Cash("a", 2, 2) EXCEPT !.asset = "eur"],
     [Shares("a", 1, 2) EXCEPT !.asset = "s2"],
     [Shares("a", 1, 2) EXCEPT !.direction = "debit"],
     [Cash("a", 1, 1) EXCEPT !.fails = {"fail_to_receive"}],
     [Cash("a", 2, 2) EXCEPT !.event = "e2", !.governs = "e2"],
     [Cash("a", 2, 2) EXCEPT !.governs = "e2"],
     [Cash("a", 2, Unstated) EXCEPT !.stage = "preliminary_advice", !.announced = TRUE]}
=============================================================================
