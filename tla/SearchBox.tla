----------------------------- MODULE SearchBox ------------------------------
(***************************************************************************)
(* The search box of a list view of apps/admin-ui on top of its store.     *)
(*                                                                         *)
(* The store lives as long as the page; the view is made anew each time    *)
(* its route is entered, with an empty box.  Typing is debounced: the      *)
(* term is handed to the store when a timer runs out that each keystroke   *)
(* restarts, and nothing stops that timer when the view is left.           *)
(***************************************************************************)
EXTENDS ListStore

VARIABLES
    mounted,
    box,        \* searchTerm of the view, trimmed as the store will do
    timer,      \* is the timer of onSearch running?
    orphans,    \* terms whose timers outlived their views; equal ones are one
    setBy       \* who set the store's term since the view is there (history)

view == <<mounted, box, timer, orphans, setBy>>
all  == <<vars, view>>

-----------------------------------------------------------------------------
ViewInit == /\ Init
            /\ mounted = FALSE
            /\ box = NoSearch
            /\ timer = FALSE
            /\ orphans = {}
            /\ setBy = "nobody"

(* onMounted.                                                              *)
Mount == /\ ~mounted
         /\ FetchFirstPage
         /\ mounted' = TRUE
         /\ box' = NoSearch
         /\ timer' = FALSE
         /\ setBy' = "nobody"
         /\ UNCHANGED orphans

Leave == /\ mounted
         /\ mounted' = FALSE
         /\ orphans' = IF timer THEN orphans \cup {box} ELSE orphans
         /\ timer' = FALSE
         /\ UNCHANGED <<vars, box, setBy>>

TypeUnheard(term) ==                        \* mutant: only the first keystroke counts
    /\ mounted
    /\ box' = term
    /\ timer' = (timer \/ box = NoSearch)
    /\ UNCHANGED <<vars, mounted, orphans, setBy>>

Type(term) == /\ mounted
              /\ box' = term
              /\ timer' = TRUE
              /\ UNCHANGED <<vars, mounted, orphans, setBy>>

(* The timer runs out; the box is read then.                               *)
OnSearch == /\ timer
            /\ SetSearch(box)
            /\ timer' = FALSE
            /\ setBy' = "box"
            /\ UNCHANGED <<mounted, box, orphans>>

OrphanSearches(term) ==
    /\ term \in orphans
    /\ SetSearch(term)
    /\ orphans' = orphans \ {term}
    /\ setBy' = "orphan"
    /\ UNCHANGED <<mounted, box, timer>>

(* Paging and the dialogs need the view.                                   *)
UseView == /\ mounted
           /\ \/ FetchNext
              \/ FetchPrev
              \/ \E m \in Mutations : Mutate(m)
           /\ UNCHANGED view

(* Answers reach the store with or without it.                             *)
Background == /\ \/ \E l \in Loads : Settle(l) \/ Answer(l)
                 \/ \E m \in Mutations : MutationSucceeds(m) \/ MutationFails(m) \/ Apply(m)
                 \/ OthersChangeTable
              /\ UNCHANGED view

ViewNext == \/ Mount
            \/ Leave
            \/ \E term \in Terms : Type(term) \/ OrphanSearches(term)
            \/ OnSearch
            \/ UseView
            \/ Background

ViewSpec == ViewInit /\ [][ViewNext]_all

-----------------------------------------------------------------------------
ViewTypeOK == /\ TypeOK
              /\ mounted \in BOOLEAN
              /\ box \in Terms
              /\ timer \in BOOLEAN
              /\ timer => mounted
              /\ orphans \subseteq Terms
              /\ setBy \in {"nobody", "box", "orphan"}

(* When the user has finished typing and the newest request was answered   *)
(* last, the table shows the search of the box, unless a timer of a view   *)
(* that was left ran out after it.                                         *)
BoxIsShown ==
    mounted /\ ~timer /\ setBy = "box" /\ AtRest /\ inOrder => items.search = box

(* The inductive invariant: what the box last handed to the store is what  *)
(* it still holds, whatever else has reached the store since.              *)
BoxIsTerm ==
    mounted /\ ~timer /\ setBy = "box" => search = box

ViewIInv == IInv /\ ViewTypeOK /\ BoxIsTerm

(* "campo de busca (debounce -> setSearch)": the field is what is searched *)
(* for.  A view that is entered again shows the old search in an empty box.*)
ShownIsInBox ==
    mounted /\ ~timer /\ setBy # "orphan" /\ AtRest /\ inOrder => items.search = box
=============================================================================
