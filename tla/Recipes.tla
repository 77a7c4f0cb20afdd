------------------------------- MODULE Recipes -------------------------------
(***************************************************************************)
(* The recipes of dishes and their variants (handlers/recipes.js), and     *)
(* what a sale makes of them (lib/ledger.js activeRecipeFor).  "A recipe   *)
(* row is a version": a revision archives the active row of its dish and   *)
(* variant, inserts the next, and in a third statement its lines.  Recipes *)
(* of no dish, which nothing consumes, are left out.                       *)
(***************************************************************************)
EXTENDS Desk

CONSTANTS
  Dishes,       \* dishes that have recipes
  Variants,     \* their variants, Plain among them
  Boms,         \* what the lines of a recipe may say
  FirstRecipes  \* recipes there may be at first: a set of sequences of rows

Plain  == ""
NoLines == "none"

ASSUME RecipesAssumption == Plain \in Variants /\ NoLines \notin Boms

RecipeRow == [dish : Dishes, variant : Variants, active : BOOLEAN, version : Int,
              lines : Boms \cup {NoLines}]

\* At first every recipe has its lines, and the index holds.
ASSUME FirstRecipesAssumption ==
  /\ FirstRecipes \subseteq Seq(RecipeRow)
  /\ \A rows \in FirstRecipes : \A m, n \in DOMAIN rows :
       /\ rows[n].lines \in Boms
       /\ /\ rows[m].active /\ rows[n].active
          /\ rows[m].dish = rows[n].dish /\ rows[m].variant = rows[n].variant
          => m = n

VARIABLES
  recipes,  \* recipes with their recipe_items: a sequence of rows
  sales,    \* history: the sales, each with the recipe it took (0: none), the lines it
            \* used, and the recipes that were due ({}: not to be told)
  book      \* history: book[d, v]: the row that was written last for variant v of dish d
            \* and not archived by hand, or 0

recipeRows == <<recipes, sales, book>>

Pair(d, v) == <<"recipe", d, v>>

\* The active rows of dish d.
ActiveOf(d) == {n \in DOMAIN recipes : recipes[n].dish = d /\ recipes[n].active}

\* idx_recipes_active_variant (schema.sql:511-513): what may be one row at most.
ActiveAs(d, v) == {n \in ActiveOf(d) : recipes[n].variant = v}

\* The first of some rows, 0 if there are none.
FirstOf(rows) == IF rows = {} THEN 0 ELSE CHOOSE n \in rows : \A m \in rows : n <= m

RecipesInit ==
  /\ recipes \in FirstRecipes /\ sales = {}
  /\ book = [dv \in Dishes \X Variants |-> FirstOf(ActiveAs(dv[1], dv[2]))]

AsksRecipes(i, r) == Begins(i, r) /\ UNCHANGED recipeRows

-----------------------------------------------------------------------------
\* Mutant: a revision supersedes any recipe of its dish.
CurrentOfDish(d, v) == FirstOf(ActiveOf(d))

\* "Supersede ... only within the same variant": the row to supersede, 0 if there is none.
CurrentOf(d, v) == FirstOf(ActiveAs(d, v))

\* createRecipe, for POST and PUT: `row` is the active row, 0 if there is none, `new`
\* what the recipe will say.
RevisionArrives(i, d, v, bom) ==
  LET n == CurrentOf(d, v)
  IN AsksRecipes(i, [FreeSlot EXCEPT !.op = "revise", !.key = Pair(d, v), !.row = n,
       !.pc = IF n = 0 THEN "recipe" ELSE "supersede", !.new = bom])

Archived(n) == [recipes EXCEPT ![n].active = FALSE]

Supersedes(i) ==
  /\ At(i, "supersede")
  /\ recipes' = Archived(req[i].row)
  /\ Goes(i, Step(i, "recipe"))
  /\ UNCHANGED <<sales, book, counts, torn>>

\* The row is inserted, unless the index refuses it; what was archived stays so.
InsertsRecipe(i) ==
  LET d == req[i].key[2]
      v == req[i].key[3]
  IN /\ At(i, "recipe")
     /\ IF ActiveAs(d, v) # {} THEN Answers(i) /\ UNCHANGED <<recipes, book>>
        ELSE /\ recipes' = Append(recipes, [dish |-> d, variant |-> v, active |-> TRUE,
                  version |-> IF req[i].row = 0 THEN 1 ELSE recipes[req[i].row].version + 1,
                  lines |-> NoLines])
             /\ book' = [book EXCEPT ![<<d, v>>] = Len(recipes) + 1]
             /\ Goes(i, [Step(i, "bom") EXCEPT !.row = Len(recipes) + 1])
     /\ UNCHANGED <<sales, counts, torn>>

InsertsBom(i) ==
  LET n == req[i].row
  IN /\ At(i, "bom")
     /\ recipes' = [recipes EXCEPT ![n].lines = req[i].new]
     /\ Answers(i)
     /\ UNCHANGED <<sales, book, counts, torn>>

\* archiveRecipe.
RetirementArrives(i, n) ==
  /\ recipes[n].active
  /\ AsksRecipes(i, [FreeSlot EXCEPT !.op = "retire", !.pc = "retire", !.row = n,
                       !.key = Pair(recipes[n].dish, recipes[n].variant)])

Retires(i) ==
  LET n == req[i].row
  IN /\ At(i, "retire")
     /\ recipes' = Archived(n)
     /\ book' = [dv \in DOMAIN book |-> IF book[dv] = n THEN 0 ELSE book[dv]]
     /\ Answers(i)
     /\ UNCHANGED <<sales, counts, torn>>

-----------------------------------------------------------------------------
\* selectRecipeVariant, of the active rows: the first whose variant was asked for, or
\* the plain one, or any.
SelectRecipeVariant(rows, asked) ==
  LET match == {n \in rows : recipes[n].variant \in asked \ {Plain}}
      plain == {n \in rows : recipes[n].variant = Plain}
  IN FirstOf(IF match # {} THEN match ELSE IF plain # {} THEN plain ELSE rows)

\* History: what a sale should take: what the manager last wrote for the variant asked
\* for, or else for the plain dish, or else for another; not to be told while the dish
\* is edited, or when an edit of it was cut short.
Due(d, asked) ==
  LET edits(r)   == r.op \in {"revise", "retire"} /\ r.key[2] = d
      written(v) == {book[<<d, w>>] : w \in v \cap Variants} \ {0}
      match      == written(asked \ {Plain})
  IN IF \/ \E i \in Slots : edits(req[i])
        \/ \E k \in DOMAIN counts.cut : edits(counts.cut[k]) THEN {}
     ELSE IF match # {} THEN match
     ELSE IF written({Plain}) # {} THEN written({Plain})
     ELSE IF written(Variants) # {} THEN written(Variants) ELSE {0}

\* An order's line is consumed, as consumeForOrder does: the recipe is chosen ...
SaleArrives(i, d, asked) ==
  AsksRecipes(i, [FreeSlot EXCEPT !.op = "sale", !.pc = "lines", !.found = Due(d, asked),
                    !.row = SelectRecipeVariant(ActiveOf(d), asked)])

\* ... its lines are read, used and noted on the order's line.
ReadsLines(i) ==
  LET n == req[i].row
  IN /\ At(i, "lines")
     /\ sales' = sales \cup {[recipe |-> n, due |-> req[i].found,
                              used |-> IF n = 0 THEN NoLines ELSE recipes[n].lines]}
     /\ Answers(i)
     /\ UNCHANGED <<recipes, book, counts, torn>>

-----------------------------------------------------------------------------
RecipesArrive(i) ==
  \/ \E d \in Dishes :
       \/ \E v \in Variants, bom \in Boms : RevisionArrives(i, d, v, bom)
       \/ \E asked \in SUBSET Variants : SaleArrives(i, d, asked)
  \/ \E n \in DOMAIN recipes : RetirementArrives(i, n)

RecipesStep(i) == \/ Supersedes(i) \/ InsertsRecipe(i) \/ InsertsBom(i)
                  \/ Retires(i) \/ ReadsLines(i)

RecipesNext ==
  counts.desk = "recipes" /\ \E i \in Slots : RecipesArrive(i) \/ RecipesStep(i)

-----------------------------------------------------------------------------
(* Properties.                                                             *)

\* Every sale uses the recipe that was last written for what was ordered, and the row it
\* notes still says what was used, whatever has been written since (recipes.js:4-19,
\* 185-188; inventory.js:56-68): revisions that met do not undo each other, and one
\* variant's leave the others alone; unless the sale met an edit of its dish, or one
\* was cut short.
SoldAsWritten == \A s \in sales : s.due # {} =>
  /\ s.recipe \in s.due
  /\ s.recipe # 0 => s.used # NoLines /\ recipes[s.recipe].lines = s.used

===============================================================================
