-------------------------------- MODULE MCOffice --------------------------------
(* Office for TLC: a waiter and a manager, days of two minutes; two tables; one  *)
(* dish with its variants; and a menu of a dish or two.                          *)
EXTENDS Office

CONSTANTS s1, s2

Bands(rate) == <<[upTo |-> 10000, rate |-> 0, deduct |-> 0],
                 [upTo |-> None, rate |-> rate, deduct |-> 50]>>

RatesAt(employee, rate) ==
  [grace |-> 0, standardDay |-> 2, monthlyHours |-> 208, multipliers |-> [normal |-> 15],
   employee |-> employee, employer |-> 11, bands |-> Bands(rate)]

MCFirst  == RatesAt(7, 10)
MCUnread == [RatesAt(0, 0) EXCEPT !.grace = 10, !.standardDay = 8, !.employer = 0, !.bands = <<>>]
MCRates  == {MCFirst, RatesAt(8, 10), MCUnread}
MCLeaves == {[from |-> 0, to |-> 1], [from |-> 1, to |-> 1]}

\* The waiter is on shift, or nobody; he has asked for overtime, or not.
MCEntries == {<<>>, <<[staff |-> "waiter", at |-> 0, out |-> None, hours |-> 0,
                       status |-> "", overtime |-> 0]>>}
MCClaims  == {<<>>, <<NewClaim("overtime", "waiter", 87, TRUE, 0, 0)>>}

\* Zones: "bar" is another spelling of "Bar".
MCKey      == [n \in Names |-> IF n = "bar" THEN "Bar" ELSE n]
MCDefaults == <<"Patio", "Bar">>
MCPlaces   == {[t1 |-> "Patio", t2 |-> "bar"], [t1 |-> "Roof", t2 |-> "Patio"]}

\* Recipes: none, a plain one, or one of a variant before the plain one.
MCRecipe(v) ==
  [dish |-> "latte", variant |-> v, version |-> 1, active |-> TRUE, lines |-> "single"]
MCRecipes   == {<<>>, <<MCRecipe("")>>, <<MCRecipe("small"), MCRecipe("")>>}

\* Menu: a dish in KV and D1; two namesakes saved before there were ids; nothing in KV.
MCCategories == <<"Hot", "Other">>
Tea(id, tag) == Dish(id, "Hot", "tea", FALSE, tag)
MCMenus == {
  [menu    |-> [there |-> TRUE, list |-> <<Tea(<<"Hot", "tea", 0>>, 1)>>],
   mirror  |-> {Tea(<<"Hot", "tea", 0>>, 1)}, aligned |-> TRUE],
  [menu    |-> [there |-> TRUE, list |-> <<Tea(NoId, 1), Tea(NoId, 2)>>],
   mirror  |-> {Tea(Random(1), 1), Tea(Random(2), 2)}, aligned |-> FALSE],
  [menu    |-> [there |-> FALSE, list |-> <<>>],
   mirror  |-> {Tea(Random(1), 1)}, aligned |-> TRUE]}

MCRequests == [clock |-> 3, pay |-> 3, zones |-> 2, recipes |-> 3, menu |-> 2]
MCChanges  == [clock |-> 3, pay |-> 0, zones |-> 1, recipes |-> 0, menu |-> 0]

SlotSymmetry == Permutations(Slots)

=================================================================================
