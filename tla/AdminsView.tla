---------------------------- MODULE AdminsView ----------------------------
(***************************************************************************)
(* The administrators' screen of apps/admin-ui: AdminsView.vue with the    *)
(* AdminFormDialog and DeleteAdminDialog it keeps mounted, and below them  *)
(* the HTTP client, which repeats some methods on its own.  The customers' *)
(* screen has the same code, without blocking and without the warning.     *)
(*                                                                         *)
(* Both dialogs are modal, so nothing else on the page is clicked while    *)
(* one is open, but a dialog can be left while its call is awaited.  An    *)
(* administrator is here its e-mail: the only field the dialogs compare.   *)
(***************************************************************************)
EXTENDS Naturals, FiniteSets

CONSTANTS
    Admins,         \* ids
    Emails,
    Toggles,        \* slots for block and unblock calls
    MaxTries,       \* how often the client sends a repeatable request
    MaxCalls,       \* bound: calls awaited at the same time
    Free, Gone,     \* an id not yet given out, an id whose row was deleted
    Null            \* not in the list, nothing selected, no call

ASSUME AdminsViewAssumption ==
    /\ MaxTries \in Nat \ {0}
    /\ MaxCalls \in Nat
    /\ {Free, Gone, Null} \cap (Admins \cup Emails) = {}
    /\ {"save", "remove"} \cap Toggles = {}
    /\ Free # Gone
    /\ Null \notin {Free, Gone}

VARIABLES
    formVisible, formMode, deleteVisible, selected,    \* AdminsView.vue
    call,       \* per slot: the awaited call; "save" is submitting, "remove" deleting
    shown,      \* what the table shows of each id
    registry,   \* the server's table
    toast       \* what the last step announced

view == <<formVisible, formMode, deleteVisible, selected>>
vars == <<view, call, shown, registry, toast>>

-----------------------------------------------------------------------------
Slots == {"save", "remove"} \cup Toggles

Ops == {"create", "update", "remove", "block", "unblock"}

(* PUT and DELETE are repeated, POST and PATCH are not. *)
Repeated == {"update", "remove"}

Selected == [id : Admins, email : Emails]

(* email is what the form sends, base what the row showed when the form    *)
(* was opened, warned whether the password warning was on the screen; own  *)
(* is history: the dialog was not left and reopened since; done is         *)
(* history: some attempt took effect.                                      *)
Call == [op     : Ops,
         id     : Admins \cup {Null},
         email  : Emails \cup {Null},
         base   : Emails \cup {Null},
         warned : BOOLEAN,
         own    : BOOLEAN,
         stage  : {"sent", "refused", "lost", "refetch"},
         tries  : 1 .. MaxTries,
         done   : BOOLEAN]

ASSUME NullAssumption == Null \notin Call \cup Selected

Toasts == {"created", "updated", "deleted", "blocked", "unblocked", "error"}

NewCall(op, id, email, base, warned) ==
    [op |-> op, id |-> id, email |-> email, base |-> base, warned |-> warned,
     own |-> TRUE, stage |-> "sent", tries |-> 1, done |-> FALSE]

Done(c, stage) == [c EXCEPT !.stage = stage, !.done = TRUE]

Reached(c, stage) == [c EXCEPT !.stage = stage]

SentAgain(c) == [c EXCEPT !.stage = "sent", !.tries = @ + 1]

Disowned(c) == IF c = Null THEN Null ELSE [c EXCEPT !.own = FALSE]

Awaited == {k \in Slots : call[k] # Null}

MayCall == Cardinality(Awaited) < MaxCalls

Taken(email) == \E a \in Admins : registry[a] = email

Init ==
    /\ formVisible = FALSE
    /\ formMode = "create"
    /\ deleteVisible = FALSE
    /\ selected = Null
    /\ call = [k \in Slots |-> Null]
    /\ shown = [a \in Admins |-> Null]
    /\ registry \in [Admins -> Emails \cup {Free}]
    /\ \A a, b \in Admins : a # b /\ registry[a] = registry[b] => registry[a] = Free
    /\ toast = Null

-----------------------------------------------------------------------------
(* The view.                                                               *)
NotModal == TRUE                            \* mutant: the page stays reachable

PageReachable == ~ formVisible /\ ~ deleteVisible

(* A dialog opened now is not the one an awaited call was made in.         *)
Disown(k) == [call EXCEPT ![k] = Disowned(call[k])]

OpenCreate ==
    /\ PageReachable
    /\ formMode' = "create"
    /\ selected' = Null
    /\ formVisible' = TRUE
    /\ call' = Disown("save")
    /\ toast' = Null
    /\ UNCHANGED <<deleteVisible, shown, registry>>

OpenEdit(a) ==
    /\ PageReachable
    /\ shown[a] # Null
    /\ formMode' = "edit"
    /\ selected' = [id |-> a, email |-> shown[a]]
    /\ formVisible' = TRUE
    /\ call' = Disown("save")
    /\ toast' = Null
    /\ UNCHANGED <<deleteVisible, shown, registry>>

OpenDeleteAsEdit(a) ==                      \* mutant: shares the code of openEdit
    /\ PageReachable
    /\ shown[a] # Null
    /\ formMode' = "edit"
    /\ selected' = [id |-> a, email |-> shown[a]]
    /\ deleteVisible' = TRUE
    /\ call' = Disown("remove")
    /\ toast' = Null
    /\ UNCHANGED <<formVisible, shown, registry>>

OpenDelete(a) ==
    /\ PageReachable
    /\ shown[a] # Null
    /\ selected' = [id |-> a, email |-> shown[a]]
    /\ deleteVisible' = TRUE
    /\ call' = Disown("remove")
    /\ toast' = Null
    /\ UNCHANGED <<formVisible, formMode, shown, registry>>

(* Cancelar, the cross or Escape: none is disabled while a call is awaited. *)
CloseForm ==
    /\ formVisible
    /\ formVisible' = FALSE
    /\ toast' = Null
    /\ UNCHANGED <<formMode, deleteVisible, selected, call, shown, registry>>

CloseDelete ==
    /\ deleteVisible
    /\ deleteVisible' = FALSE
    /\ toast' = Null
    /\ UNCHANGED <<formVisible, formMode, selected, call, shown, registry>>

-----------------------------------------------------------------------------
(* The password warning under the e-mail field.                            *)
EmailChangedFromList(email) ==              \* mutant: compares with the live list
    /\ formMode = "edit"
    /\ selected # Null
    /\ email # shown[selected.id]

EmailChanged(email) ==
    /\ formMode = "edit"
    /\ selected # Null
    /\ email # selected.email

(* onSubmit with valid values, up to its await.  While an earlier save is  *)
(* awaited the click has no effect at all.                                 *)
SubmitForm(email) ==
    /\ formVisible
    /\ call["save"] = Null
    /\ MayCall
    /\ call' = [call EXCEPT !["save"] =
           IF formMode = "create"
           THEN NewCall("create", Null, email, Null, FALSE)
           ELSE NewCall("update", selected.id, email, selected.email,
                        EmailChanged(email))]
    /\ toast' = Null
    /\ UNCHANGED <<view, shown, registry>>

ConfirmDelete ==
    /\ deleteVisible
    /\ selected # Null
    /\ call["remove"] = Null
    /\ MayCall
    /\ call' = [call EXCEPT !["remove"] =
                    NewCall("remove", selected.id, Null, Null, FALSE)]
    /\ toast' = Null
    /\ UNCHANGED <<view, shown, registry>>

(* The lock of a row.  Which call it makes depends on the status the row   *)
(* shows, which may be either.                                             *)
ToggleBlock(t, a) ==
    /\ PageReachable
    /\ shown[a] # Null
    /\ call[t] = Null
    /\ MayCall
    /\ \E op \in {"block", "unblock"} :
          call' = [call EXCEPT ![t] = NewCall(op, a, Null, Null, FALSE)]
    /\ toast' = Null
    /\ UNCHANGED <<view, shown, registry>>

-----------------------------------------------------------------------------
(* The server, as it promises to act (see AdminRegistry).                  *)
Acceptable(c) ==
    /\ c.op # "create" => registry[c.id] \in Emails
    /\ c.op \in {"create", "update"} =>
          \A a \in Admins : registry[a] = c.email => c.op = "update" /\ a = c.id

EffectOf(c) ==
    CASE c.op = "create" -> \E a \in Admins :
                                /\ registry[a] = Free
                                /\ registry' = [registry EXCEPT ![a] = c.email]
      [] c.op = "update" -> registry' = [registry EXCEPT ![c.id] = c.email]
      [] c.op = "remove" -> registry' = [registry EXCEPT ![c.id] = Gone]
      [] OTHER           -> UNCHANGED registry

(* The answer to what the server did arrives, and the store issues the     *)
(* refetch every successful mutation ends with, or it is lost on the way.  *)
Accept(k) ==
    /\ call[k] # Null
    /\ call[k].stage = "sent"
    /\ Acceptable(call[k])
    /\ EffectOf(call[k])
    /\ \E stage \in {"refetch", "lost"} :
          call' = [call EXCEPT ![k] = Done(call[k], stage)]
    /\ toast' = Null
    /\ UNCHANGED <<view, shown>>

(* 404 or 409.                                                             *)
Refuse(k) ==
    /\ call[k] # Null
    /\ call[k].stage = "sent"
    /\ ~ Acceptable(call[k])
    /\ call' = [call EXCEPT ![k] = Reached(call[k], "refused")]
    /\ toast' = Null
    /\ UNCHANGED <<view, shown, registry>>

(* The request does not arrive, or is answered 500, without an effect.     *)
Miss(k) ==
    /\ call[k] # Null
    /\ call[k].stage = "sent"
    /\ call' = [call EXCEPT ![k] = Reached(call[k], "lost")]
    /\ toast' = Null
    /\ UNCHANGED <<view, shown, registry>>

(* Other administrators, and requests this client has given up.            *)
OthersWrite(a) ==
    /\ registry[a] # Gone
    /\ \/ \E email \in Emails :
             /\ ~ Taken(email)
             /\ registry' = [registry EXCEPT ![a] = email]
       \/ /\ registry[a] # Free
          /\ registry' = [registry EXCEPT ![a] = Gone]
    /\ toast' = Null
    /\ UNCHANGED <<view, call, shown>>

-----------------------------------------------------------------------------
(* The HTTP client.                                                        *)
RepeatAny(k) ==                             \* mutant: POST and PATCH repeated
    /\ call[k] # Null
    /\ call[k].stage = "lost"
    /\ call[k].tries < MaxTries
    /\ call' = [call EXCEPT ![k] = SentAgain(call[k])]
    /\ toast' = Null
    /\ UNCHANGED <<view, shown, registry>>

Repeat(k) ==
    /\ call[k] # Null
    /\ call[k].stage = "lost"
    /\ call[k].op \in Repeated
    /\ call[k].tries < MaxTries
    /\ call' = [call EXCEPT ![k] = SentAgain(call[k])]
    /\ toast' = Null
    /\ UNCHANGED <<view, shown, registry>>

-----------------------------------------------------------------------------
(* A load puts rows of the current table on the screen, or after a failure *)
(* none; it never throws.                                                  *)
Load ==
    \E page \in SUBSET {a \in Admins : registry[a] \in Emails} :
       shown' = [a \in Admins |-> IF a \in page THEN registry[a] ELSE Null]

(* The user pages, searches or comes back.                                 *)
Browse ==
    /\ PageReachable
    /\ Load
    /\ toast' = Null
    /\ UNCHANGED <<view, call, registry>>

(* After the await: success closes the dialog that is open, and the form   *)
(* words its toast by the mode it has now.                                 *)
SaveSucceedsStillSubmitting ==              \* mutant: no finally
    /\ call["save"] # Null
    /\ call["save"].stage = "refetch"
    /\ Load
    /\ formVisible' = FALSE
    /\ toast' = IF formMode = "create" THEN "created" ELSE "updated"
    /\ UNCHANGED <<formMode, deleteVisible, selected, call, registry>>

SaveSucceeds ==
    /\ call["save"] # Null
    /\ call["save"].stage = "refetch"
    /\ Load
    /\ formVisible' = FALSE
    /\ toast' = IF formMode = "create" THEN "created" ELSE "updated"
    /\ call' = [call EXCEPT !["save"] = Null]
    /\ UNCHANGED <<formMode, deleteVisible, selected, registry>>

RemoveSucceeds ==
    /\ call["remove"] # Null
    /\ call["remove"].stage = "refetch"
    /\ Load
    /\ deleteVisible' = FALSE
    /\ toast' = "deleted"
    /\ call' = [call EXCEPT !["remove"] = Null]
    /\ UNCHANGED <<formVisible, formMode, selected, registry>>

ToggleSucceeds(t) ==
    /\ call[t] # Null
    /\ call[t].stage = "refetch"
    /\ Load
    /\ toast' = IF call[t].op = "block" THEN "blocked" ELSE "unblocked"
    /\ call' = [call EXCEPT ![t] = Null]
    /\ UNCHANGED <<view, registry>>

(* A refusal, an error that is not repeated, or the client's time-out,     *)
(* which ends the call whatever the server still does with it.             *)
CallFailsAndCloses(k) ==                    \* mutant: closes in finally
    /\ call[k] # Null
    /\ call[k].stage \in {"sent", "refused", "lost"}
    /\ formVisible' = FALSE
    /\ toast' = "error"
    /\ call' = [call EXCEPT ![k] = Null]
    /\ UNCHANGED <<formMode, deleteVisible, selected, shown, registry>>

CallFails(k) ==
    /\ call[k] # Null
    /\ call[k].stage \in {"sent", "refused", "lost"}
    /\ toast' = "error"
    /\ call' = [call EXCEPT ![k] = Null]
    /\ UNCHANGED <<view, shown, registry>>

-----------------------------------------------------------------------------
User ==
    \/ OpenCreate
    \/ \E a \in Admins : OpenEdit(a) \/ OpenDelete(a)
    \/ CloseForm
    \/ CloseDelete
    \/ \E email \in Emails : SubmitForm(email)
    \/ ConfirmDelete
    \/ \E t \in Toggles, a \in Admins : ToggleBlock(t, a)
    \/ Browse

Server(k) == Accept(k) \/ Refuse(k) \/ Miss(k)

Client(k) == Repeat(k) \/ CallFails(k)

Succeeds == SaveSucceeds \/ RemoveSucceeds \/ \E t \in Toggles : ToggleSucceeds(t)

Next ==
    \/ User
    \/ \E k \in Slots : Server(k) \/ Client(k)
    \/ Succeeds
    \/ \E a \in Admins : OthersWrite(a)

Spec == Init /\ [][Next]_vars

(* A request is answered or times out, and the code after an await runs.   *)
FairSpec ==
    /\ Spec
    /\ \A k \in Slots : WF_vars(CallFails(k))
    /\ WF_vars(SaveSucceeds)
    /\ WF_vars(RemoveSucceeds)
    /\ \A t \in Toggles : WF_vars(ToggleSucceeds(t))

-----------------------------------------------------------------------------
(* Type invariant. *)
TypeOK ==
    /\ formVisible \in BOOLEAN
    /\ formMode \in {"create", "edit"}
    /\ deleteVisible \in BOOLEAN
    /\ selected \in Selected \cup {Null}
    /\ call \in [Slots -> Call \cup {Null}]
    /\ shown \in [Admins -> Emails \cup {Null}]
    /\ registry \in [Admins -> Emails \cup {Free, Gone}]
    /\ toast \in Toasts \cup {Null}

(* The dialogs share one selected row and never show together; an open     *)
(* dialog has the row it is about, which a create form does not; what is   *)
(* awaited in a slot is a call of that slot; an acknowledged call took     *)
(* effect, and one that was not repeated and not acted on did not.         *)
DialogsApart == ~ (formVisible /\ deleteVisible)

DialogHasRow ==
    /\ formVisible => (formMode = "create" <=> selected = Null)
    /\ deleteVisible => selected # Null

OfSlot(k, c) ==
    /\ k = "save" <=> c.op \in {"create", "update"}
    /\ k = "remove" <=> c.op = "remove"
    /\ c.op = "create" <=> c.id = Null
    /\ c.op \in {"create", "update"} => c.email \in Emails
    /\ c.op = "update" => c.warned = (c.email # c.base)

EffectKnown(c) ==
    /\ c.stage = "refetch" => c.done
    /\ c.tries = 1 /\ c.stage \in {"sent", "refused"} => ~ c.done
    /\ c.tries > 1 => c.op \in Repeated

CallsFit ==
    \A k \in Slots : call[k] # Null => OfSlot(k, call[k]) /\ EffectKnown(call[k])

ModeIsOwn ==
    call["save"] # Null /\ call["save"].own =>
       (formMode = "create" <=> call["save"].op = "create")

IInv ==
    /\ TypeOK
    /\ DialogsApart
    /\ DialogHasRow
    /\ CallsFit
    /\ ModeIsOwn

Ends(k) == call[k] # Null /\ call'[k] = Null

(* What the screen tells about a call is true: "success" only if the       *)
(* server did it, and for the methods the client does not repeat, a        *)
(* refusal only if the server did not.  (A repeated DELETE or PUT may be   *)
(* refused because its own first attempt took effect.)                     *)
Told ==
    \A k \in Slots : Ends(k) =>
       /\ toast' # "error" => call[k].done
       /\ toast' = "error" /\ call[k].stage = "refused" /\ call[k].op \notin Repeated =>
             ~ call[k].done

ToastsAreTrue == [][Told]_vars

(* The toast of a save speaks of what was saved, as long as the form was   *)
(* not reopened meanwhile: the mode is read only after the await.          *)
ToastNamed ==
    Ends("save") /\ toast' # "error" /\ call["save"].own =>
       toast' = IF call["save"].op = "create" THEN "created" ELSE "updated"

ToastNamesTheSave == [][ToastNamed]_vars

(* A dialog disappears under the user's hands only when a call made in     *)
(* that kind of dialog took effect and was acknowledged: an error leaves   *)
(* it open with what was typed.                                            *)
DialogKept ==
    /\ formVisible /\ ~ formVisible' /\ call' # call =>
          Ends("save") /\ call["save"].done
    /\ deleteVisible /\ ~ deleteVisible' /\ call' # call =>
          Ends("remove") /\ call["remove"].done

ErrorKeepsDialog == [][DialogKept]_vars

(* A save changes an address, and with it resets a password, only after    *)
(* the warning was on the screen or because the row is no longer what the  *)
(* form was opened with.                                                   *)
ResetWarned ==
    \A a \in Admins :
       /\ registry[a] \in Emails
       /\ registry'[a] \in Emails \ {registry[a]}
       /\ call' # call
       => call["save"].warned \/ call["save"].base # registry[a]

WarnedBeforeReset == [][ResetWarned]_vars

(* "Salvar", "Deletar" and the lock of a row become usable again.          *)
CallsEnd == \A k \in Slots : call[k] # Null ~> call[k] = Null

(* "Success closes the form": the form that closes is the one that was     *)
(* saved.                                                                  *)
SavedClosed ==
    formVisible /\ ~ formVisible' /\ call' # call => call["save"].own

ClosedFormWasSaved == [][SavedClosed]_vars
=============================================================================
