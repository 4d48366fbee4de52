-------------------------- MODULE AdminsViewProofs --------------------------
(***************************************************************************)
(* Theorems about AdminsView, for any administrators, addresses, slots and *)
(* limits: any number of calls may be awaited beside each other.           *)
(***************************************************************************)
EXTENDS AdminsView, TLAPS

USE AdminsViewAssumption

-----------------------------------------------------------------------------
(* A call that may be awaited in a slot, and what is done to it there.     *)
Fits(k, c) ==
    /\ c \in Call
    /\ OfSlot(k, c)
    /\ EffectKnown(c)

LEMMA DoneFits ==
    ASSUME NEW k \in Slots, NEW c, Fits(k, c), NEW stage \in {"refetch", "lost"}
    PROVE  /\ Fits(k, Done(c, stage))
           /\ Done(c, stage).own = c.own
           /\ Done(c, stage).op = c.op
BY DEF Fits, Call, OfSlot, EffectKnown, Done

LEMMA ReachedFits ==
    ASSUME NEW k \in Slots, NEW c, Fits(k, c), c.stage = "sent",
           NEW stage \in {"refused", "lost"}
    PROVE  /\ Fits(k, Reached(c, stage))
           /\ Reached(c, stage).own = c.own
           /\ Reached(c, stage).op = c.op
BY DEF Fits, Call, OfSlot, EffectKnown, Reached

LEMMA SentAgainFits ==
    ASSUME NEW k \in Slots, NEW c, Fits(k, c), c.op \in Repeated, c.tries < MaxTries
    PROVE  /\ Fits(k, SentAgain(c))
           /\ SentAgain(c).own = c.own
           /\ SentAgain(c).op = c.op
<1>1. /\ c.tries \in 1 .. MaxTries
      /\ c.tries + 1 \in 1 .. MaxTries
      /\ c.tries + 1 # 1
  BY DEF Fits, Call
<1>2. /\ SentAgain(c) \in Call
      /\ SentAgain(c).stage = "sent"
      /\ SentAgain(c).tries = c.tries + 1
      /\ SentAgain(c).op = c.op
      /\ SentAgain(c).id = c.id
      /\ SentAgain(c).own = c.own
      /\ SentAgain(c).email = c.email
      /\ SentAgain(c).base = c.base
      /\ SentAgain(c).warned = c.warned
  BY <1>1 DEF Fits, Call, SentAgain
<1>3. OfSlot(k, SentAgain(c))
  BY <1>2 DEF Fits, OfSlot
<1>4. EffectKnown(SentAgain(c))
  BY <1>1, <1>2 DEF EffectKnown
<1>5. QED
  BY <1>2, <1>3, <1>4 DEF Fits

LEMMA DisownedFits ==
    ASSUME NEW k \in Slots, NEW c, Fits(k, c)
    PROVE  Fits(k, Disowned(c)) /\ ~ Disowned(c).own
BY NullAssumption DEF Fits, Call, OfSlot, EffectKnown, Disowned

LEMMA NewCallFits ==
    ASSUME NEW k \in Slots, NEW op \in Ops, NEW id \in Admins \cup {Null},
           NEW email \in Emails \cup {Null}, NEW base \in Emails \cup {Null},
           NEW warned \in BOOLEAN,
           OfSlot(k, NewCall(op, id, email, base, warned))
    PROVE  Fits(k, NewCall(op, id, email, base, warned))
BY DEF Fits, Call, EffectKnown, NewCall

(* The calls keep fitting when one slot is freed or given a fitting call.  *)
LEMMA SlotStep ==
    ASSUME IInv, NEW k \in Slots, NEW d, d = Null \/ Fits(k, d),
           call' = [call EXCEPT ![k] = d]
    PROVE  /\ call' \in [Slots -> Call \cup {Null}]
           /\ CallsFit'
           /\ call'[k] = d
           /\ \A j \in Slots \ {k} : call'[j] = call[j]
BY DEF IInv, TypeOK, CallsFit, Fits

LEMMA AwaitedFits ==
    ASSUME IInv, NEW k \in Slots, call[k] # Null
    PROVE  Fits(k, call[k])
BY DEF IInv, TypeOK, CallsFit, Fits

-----------------------------------------------------------------------------
(* What a step may do to a slot: leave it, free it, put a fitting call     *)
(* there, and of a call it keeps, keep the operation; a call becomes one   *)
(* of the open dialog only by being made in it.                            *)
LEMMA InitInvariant == Init => IInv
<1> SUFFICES ASSUME Init
             PROVE  IInv
  OBVIOUS
<1>1. \A k \in Slots : call[k] = Null
  BY DEF Init
<1>2. TypeOK
  BY DEF Init, TypeOK
<1>3. DialogsApart /\ DialogHasRow
  BY DEF Init, DialogsApart, DialogHasRow
<1>4. CallsFit /\ ModeIsOwn
  BY <1>1 DEF CallsFit, ModeIsOwn, Slots
<1>5. QED
  BY <1>2, <1>3, <1>4 DEF IInv

(* A dialog is opened.                                                     *)
LEMMA DisownSound ==
    ASSUME IInv, NEW k \in Slots, call' = Disown(k)
    PROVE  /\ call' \in [Slots -> Call \cup {Null}]
           /\ CallsFit'
           /\ call'[k] # Null => ~ call'[k].own
           /\ \A j \in Slots \ {k} : call'[j] = call[j]
<1>1. call' = [call EXCEPT ![k] = Disowned(call[k])]
  BY DEF Disown
<1>2. Disowned(call[k]) = Null \/ (Fits(k, Disowned(call[k])) /\ ~ Disowned(call[k]).own)
  <2>1. CASE call[k] = Null
    BY <2>1 DEF Disowned
  <2>2. CASE call[k] # Null
    BY <2>2, AwaitedFits, DisownedFits
  <2>3. QED
    BY <2>1, <2>2
<1>3. QED
  BY <1>1, <1>2, SlotStep

LEMMA OpenSound ==
    ASSUME IInv, OpenCreate \/ \E a \in Admins : OpenEdit(a) \/ OpenDelete(a)
    PROVE  IInv'
<1>1. "save" \in Slots /\ "remove" \in Slots /\ "save" # "remove"
  BY DEF Slots
<1>2. CASE OpenCreate
  <2>1. call' = Disown("save")
    BY <1>2 DEF OpenCreate
  <2>2. /\ call' \in [Slots -> Call \cup {Null}]
        /\ CallsFit'
        /\ call'["save"] # Null => ~ call'["save"].own
    BY <1>1, <2>1, DisownSound
  <2>3. QED
    BY <1>2, <2>2 DEF OpenCreate, PageReachable, IInv, TypeOK, DialogsApart,
                      DialogHasRow, ModeIsOwn, Toasts
<1>3. ASSUME NEW a \in Admins, OpenEdit(a)
      PROVE  IInv'
  <2>1. call' = Disown("save")
    BY <1>3 DEF OpenEdit
  <2>2. /\ call' \in [Slots -> Call \cup {Null}]
        /\ CallsFit'
        /\ call'["save"] # Null => ~ call'["save"].own
    BY <1>1, <2>1, DisownSound
  <2>3. selected' \in Selected /\ selected' # Null
    BY <1>3, NullAssumption DEF OpenEdit, IInv, TypeOK, Selected
  <2>4. QED
    BY <1>3, <2>2, <2>3 DEF OpenEdit, PageReachable, IInv, TypeOK, DialogsApart,
                            DialogHasRow, ModeIsOwn, Toasts
<1>4. ASSUME NEW a \in Admins, OpenDelete(a)
      PROVE  IInv'
  <2>1. call' = Disown("remove")
    BY <1>4 DEF OpenDelete
  <2>2. /\ call' \in [Slots -> Call \cup {Null}]
        /\ CallsFit'
        /\ call'["save"] = call["save"]
    BY <1>1, <2>1, DisownSound
  <2>3. selected' \in Selected /\ selected' # Null
    BY <1>4, NullAssumption DEF OpenDelete, IInv, TypeOK, Selected
  <2>4. QED
    BY <1>4, <2>2, <2>3 DEF OpenDelete, PageReachable, IInv, TypeOK, DialogsApart,
                            DialogHasRow, ModeIsOwn, Toasts
<1>5. QED
  BY <1>2, <1>3, <1>4

LEMMA CloseSound ==
    ASSUME IInv, CloseForm \/ CloseDelete
    PROVE  IInv'
<1>1. /\ formVisible' => formVisible
      /\ deleteVisible' => deleteVisible
      /\ formVisible' \in BOOLEAN
      /\ deleteVisible' \in BOOLEAN
      /\ toast' = Null
      /\ UNCHANGED <<formMode, selected, call, shown, registry>>
  <2>1. formVisible \in BOOLEAN /\ deleteVisible \in BOOLEAN
    BY DEF IInv, TypeOK
  <2>2. CASE CloseForm
    BY <2>1, <2>2 DEF CloseForm
  <2>3. CASE CloseDelete
    BY <2>1, <2>3 DEF CloseDelete
  <2>4. QED
    BY <2>2, <2>3
<1>2. TypeOK'
  BY <1>1 DEF IInv, TypeOK
<1>3. DialogsApart' /\ DialogHasRow'
  BY <1>1 DEF IInv, DialogsApart, DialogHasRow
<1>4. CallsFit'
  BY <1>1 DEF IInv, CallsFit, OfSlot, EffectKnown
<1>5. ModeIsOwn'
  BY <1>1 DEF IInv, ModeIsOwn
<1>6. QED
  BY <1>2, <1>3, <1>4, <1>5 DEF IInv

(* A call is made.                                                         *)
LEMMA SubmitSound ==
    ASSUME IInv, NEW email \in Emails, SubmitForm(email)
    PROVE  IInv'
<1> DEFINE new == IF formMode = "create"
                  THEN NewCall("create", Null, email, Null, FALSE)
                  ELSE NewCall("update", selected.id, email, selected.email,
                               EmailChanged(email))
<1>1. "save" \in Slots /\ formVisible
  BY DEF Slots, SubmitForm
<1>2. Fits("save", new) /\ (formMode = "create" <=> new.op = "create")
  <2>1. CASE formMode = "create"
    <3>1. OfSlot("save", NewCall("create", Null, email, Null, FALSE))
      BY DEF OfSlot, NewCall
    <3>2. Fits("save", NewCall("create", Null, email, Null, FALSE))
      BY <1>1, <3>1, NewCallFits DEF Ops
    <3>3. QED
      BY <2>1, <3>2 DEF NewCall
  <2>2. CASE formMode # "create"
    <3>1. selected \in Selected /\ formMode = "edit" /\ selected # Null
      BY <1>1, <2>2 DEF IInv, TypeOK, DialogHasRow
    <3>2. /\ selected.id \in Admins
          /\ selected.email \in Emails
          /\ selected.id # Null
      BY <3>1 DEF Selected
    <3>3. /\ EmailChanged(email) \in BOOLEAN
          /\ EmailChanged(email) = (email # selected.email)
      BY <3>1 DEF EmailChanged
    <3>4. OfSlot("save", NewCall("update", selected.id, email, selected.email,
                                 EmailChanged(email)))
      BY <3>2, <3>3 DEF OfSlot, NewCall
    <3>5. Fits("save", NewCall("update", selected.id, email, selected.email,
                               EmailChanged(email)))
      BY <1>1, <3>2, <3>3, <3>4, NewCallFits DEF Ops
    <3>6. QED
      BY <2>2, <3>5 DEF NewCall
  <2>3. QED
    BY <2>1, <2>2
<1> HIDE DEF new
<1>3. call' = [call EXCEPT !["save"] = new] /\ toast' = Null
      /\ UNCHANGED <<view, shown, registry>>
  BY DEF SubmitForm, new
<1>4. /\ call' \in [Slots -> Call \cup {Null}]
      /\ CallsFit'
      /\ call'["save"] = new
  BY <1>1, <1>2, <1>3, SlotStep
<1>5. QED
  BY <1>2, <1>3, <1>4 DEF view, IInv, TypeOK, DialogsApart, DialogHasRow, ModeIsOwn

LEMMA ConfirmSound ==
    ASSUME IInv, ConfirmDelete
    PROVE  IInv'
<1> DEFINE new == NewCall("remove", selected.id, Null, Null, FALSE)
<1>1. "remove" \in Slots /\ selected \in Selected
  BY DEF Slots, ConfirmDelete, IInv, TypeOK
<1>2. selected.id \in Admins /\ selected.id # Null
  BY <1>1 DEF Selected
<1>3. OfSlot("remove", new)
  BY <1>2 DEF OfSlot, NewCall
<1>4. Fits("remove", new)
  BY <1>1, <1>2, <1>3, NewCallFits DEF Ops
<1> HIDE DEF new
<1>5. call' = [call EXCEPT !["remove"] = new] /\ toast' = Null
      /\ UNCHANGED <<view, shown, registry>>
  BY DEF ConfirmDelete, new
<1>6. /\ call' \in [Slots -> Call \cup {Null}]
      /\ CallsFit'
      /\ call'["save"] = call["save"]
  BY <1>1, <1>4, <1>5, SlotStep DEF Slots
<1>7. QED
  BY <1>5, <1>6 DEF view, IInv, TypeOK, DialogsApart, DialogHasRow, ModeIsOwn

LEMMA ToggleSound ==
    ASSUME IInv, NEW t \in Toggles, NEW a \in Admins, ToggleBlock(t, a)
    PROVE  IInv'
<1>1. t \in Slots /\ t # "save" /\ t # "remove" /\ "save" \in Slots /\ a # Null
  BY DEF Slots
<1>2. PICK op \in {"block", "unblock"} :
         call' = [call EXCEPT ![t] = NewCall(op, a, Null, Null, FALSE)]
  BY DEF ToggleBlock
<1>3. OfSlot(t, NewCall(op, a, Null, Null, FALSE))
  BY <1>1 DEF OfSlot, NewCall
<1>4. Fits(t, NewCall(op, a, Null, Null, FALSE))
  BY <1>1, <1>3, NewCallFits DEF Ops
<1>5. /\ call' \in [Slots -> Call \cup {Null}]
      /\ CallsFit'
      /\ call'["save"] = call["save"]
  BY <1>1, <1>2, <1>4, SlotStep
<1>6. QED
  BY <1>5 DEF ToggleBlock, view, IInv, TypeOK, DialogsApart, DialogHasRow, ModeIsOwn

-----------------------------------------------------------------------------
(* An awaited call moves on and stays awaited.                             *)
LEMMA ServerSound ==
    ASSUME IInv, NEW k \in Slots, Accept(k) \/ Refuse(k) \/ Miss(k) \/ Repeat(k)
    PROVE  /\ call' \in [Slots -> Call \cup {Null}]
           /\ CallsFit'
           /\ call'[k] # Null
           /\ call'[k].own = call[k].own
           /\ call'[k].op = call[k].op
           /\ \A j \in Slots \ {k} : call'[j] = call[j]
<1>1. call[k] # Null
  BY DEF Accept, Refuse, Miss, Repeat
<1>2. Fits(k, call[k])
  BY <1>1, AwaitedFits
<1>3. \E d : /\ call' = [call EXCEPT ![k] = d]
             /\ Fits(k, d)
             /\ d.own = call[k].own
             /\ d.op = call[k].op
  <2>1. CASE Accept(k)
    <3>1. PICK stage \in {"refetch", "lost"} :
             call' = [call EXCEPT ![k] = Done(call[k], stage)]
      BY <2>1 DEF Accept
    <3>2. QED
      BY <1>2, <3>1, DoneFits
  <2>2. CASE Refuse(k)
    <3>1. call[k].stage = "sent" /\ call' = [call EXCEPT ![k] = Reached(call[k], "refused")]
      BY <2>2 DEF Refuse
    <3>2. QED
      BY <1>2, <3>1, ReachedFits
  <2>3. CASE Miss(k)
    <3>1. call[k].stage = "sent" /\ call' = [call EXCEPT ![k] = Reached(call[k], "lost")]
      BY <2>3 DEF Miss
    <3>2. QED
      BY <1>2, <3>1, ReachedFits
  <2>4. CASE Repeat(k)
    <3>1. /\ call[k].op \in Repeated
          /\ call[k].tries < MaxTries
          /\ call' = [call EXCEPT ![k] = SentAgain(call[k])]
      BY <2>4 DEF Repeat
    <3>2. QED
      BY <1>2, <3>1, SentAgainFits
  <2>5. QED
    BY <2>1, <2>2, <2>3, <2>4
<1>4. PICK d : /\ call' = [call EXCEPT ![k] = d]
               /\ Fits(k, d)
               /\ d.own = call[k].own
               /\ d.op = call[k].op
  BY <1>3
<1>5. d # Null
  BY <1>4, NullAssumption DEF Fits
<1>6. QED
  BY <1>4, <1>5, SlotStep

LEMMA EffectTyped ==
    ASSUME IInv, NEW k \in Slots, Accept(k)
    PROVE  registry' \in [Admins -> Emails \cup {Free, Gone}]
<1>1. /\ registry \in [Admins -> Emails \cup {Free, Gone}]
      /\ call[k] # Null
      /\ EffectOf(call[k])
  BY DEF IInv, TypeOK, Accept
<1>2. Fits(k, call[k])
  BY <1>1, AwaitedFits
<1>3. /\ call[k].op \in Ops
      /\ call[k].op \in {"create", "update"} => call[k].email \in Emails
  BY <1>2 DEF Fits, Call, OfSlot
<1>4. QED
  BY <1>1, <1>3 DEF EffectOf, Ops

LEMMA AwaitSound ==
    ASSUME IInv, NEW k \in Slots, Server(k) \/ Repeat(k)
    PROVE  IInv'
<1>1. /\ call' \in [Slots -> Call \cup {Null}]
      /\ CallsFit'
      /\ call'[k] # Null
      /\ call'[k].own = call[k].own
      /\ call'[k].op = call[k].op
      /\ \A j \in Slots \ {k} : call'[j] = call[j]
  BY ServerSound DEF Server
<1>2. /\ UNCHANGED <<view, shown>>
      /\ toast' = Null
      /\ call[k] # Null
  BY DEF Server, Accept, Refuse, Miss, Repeat
<1>3. registry' \in [Admins -> Emails \cup {Free, Gone}]
  <2>1. CASE Accept(k)
    BY <2>1, EffectTyped
  <2>2. CASE ~ Accept(k)
    BY <2>2 DEF Server, Refuse, Miss, Repeat, IInv, TypeOK
  <2>3. QED
    BY <2>1, <2>2
<1>4. TypeOK'
  BY <1>1, <1>2, <1>3 DEF IInv, TypeOK, view
<1>5. DialogsApart' /\ DialogHasRow'
  BY <1>2 DEF IInv, DialogsApart, DialogHasRow, view
<1>6. ModeIsOwn'
  <2>1. formMode' = formMode
    BY <1>2 DEF view
  <2>2. CASE k = "save"
    BY <1>1, <1>2, <2>1, <2>2 DEF IInv, ModeIsOwn
  <2>3. CASE k # "save"
    <3>1. call'["save"] = call["save"]
      BY <1>1, <2>3 DEF Slots
    <3>2. QED
      BY <2>1, <3>1 DEF IInv, ModeIsOwn
  <2>4. QED
    BY <2>2, <2>3
<1>7. QED
  BY <1>1, <1>4, <1>5, <1>6 DEF IInv

(* A call ends.                                                            *)
LEMMA EndSound ==
    ASSUME IInv, NEW k \in Slots, call[k] # Null,
           call' = [call EXCEPT ![k] = Null],
           formVisible' = formVisible \/ formVisible' = FALSE,
           deleteVisible' = deleteVisible \/ deleteVisible' = FALSE,
           shown' \in [Admins -> Emails \cup {Null}],
           toast' \in Toasts,
           UNCHANGED <<formMode, selected, registry>>
    PROVE  IInv'
<1>1. /\ call' \in [Slots -> Call \cup {Null}]
      /\ CallsFit'
      /\ call'[k] = Null
      /\ \A j \in Slots \ {k} : call'[j] = call[j]
  BY SlotStep
<1>2. formVisible \in BOOLEAN /\ deleteVisible \in BOOLEAN
  BY DEF IInv, TypeOK
<1>3. /\ formVisible' => formVisible
      /\ deleteVisible' => deleteVisible
      /\ formVisible' \in BOOLEAN
      /\ deleteVisible' \in BOOLEAN
  <2>1. (formVisible' => formVisible) /\ formVisible' \in BOOLEAN
    <3>1. CASE formVisible' = formVisible
      BY <1>2, <3>1
    <3>2. CASE formVisible' = FALSE
      BY <3>2
    <3>3. QED
      BY <3>1, <3>2
  <2>2. (deleteVisible' => deleteVisible) /\ deleteVisible' \in BOOLEAN
    <3>1. CASE deleteVisible' = deleteVisible
      BY <1>2, <3>1
    <3>2. CASE deleteVisible' = FALSE
      BY <3>2
    <3>3. QED
      BY <3>1, <3>2
  <2>3. QED
    BY <2>1, <2>2
<1>4. TypeOK' /\ DialogsApart' /\ DialogHasRow'
  <2>1. TypeOK'
    BY <1>1, <1>3 DEF IInv, TypeOK
  <2>2. DialogsApart' /\ DialogHasRow'
    BY <1>3 DEF IInv, DialogsApart, DialogHasRow
  <2>3. QED
    BY <2>1, <2>2
<1>5. call'["save"] = Null \/ call'["save"] = call["save"]
  BY <1>1 DEF Slots
<1>6. ModeIsOwn'
  BY <1>5 DEF IInv, ModeIsOwn
<1>7. QED
  BY <1>1, <1>4, <1>6 DEF IInv

LEMMA LoadTyped ==
    ASSUME TypeOK, Load
    PROVE  shown' \in [Admins -> Emails \cup {Null}]
<1>1. PICK page \in SUBSET {a \in Admins : registry[a] \in Emails} :
         shown' = [a \in Admins |-> IF a \in page THEN registry[a] ELSE Null]
  BY DEF Load
<1>2. QED
  BY <1>1

LEMMA SucceedsSound ==
    ASSUME IInv, Succeeds
    PROVE  IInv'
<1>1. TypeOK /\ "save" \in Slots /\ "remove" \in Slots /\ Toggles \subseteq Slots
  BY DEF IInv, Slots
<1>2. CASE SaveSucceeds
  <2>1. shown' \in [Admins -> Emails \cup {Null}] /\ toast' \in Toasts
    BY <1>1, <1>2, LoadTyped DEF SaveSucceeds, Toasts
  <2>2. QED
    BY <1>1, <1>2, <2>1, EndSound DEF SaveSucceeds
<1>3. CASE RemoveSucceeds
  <2>1. shown' \in [Admins -> Emails \cup {Null}] /\ toast' \in Toasts
    BY <1>1, <1>3, LoadTyped DEF RemoveSucceeds, Toasts
  <2>2. QED
    BY <1>1, <1>3, <2>1, EndSound DEF RemoveSucceeds
<1>4. ASSUME NEW t \in Toggles, ToggleSucceeds(t)
      PROVE  IInv'
  <2>1. shown' \in [Admins -> Emails \cup {Null}] /\ toast' \in Toasts
    BY <1>1, <1>4, LoadTyped DEF ToggleSucceeds, Toasts
  <2>2. QED
    BY <1>1, <1>4, <2>1, EndSound DEF ToggleSucceeds, view
<1>5. QED
  BY <1>2, <1>3, <1>4 DEF Succeeds

LEMMA FailSound ==
    ASSUME IInv, NEW k \in Slots, CallFails(k)
    PROVE  IInv'
<1>1. toast' \in Toasts /\ shown' \in [Admins -> Emails \cup {Null}]
  BY DEF CallFails, Toasts, IInv, TypeOK
<1>2. QED
  BY <1>1, EndSound DEF CallFails, view

LEMMA OthersSound ==
    ASSUME IInv, NEW a \in Admins, OthersWrite(a)
    PROVE  IInv'
<1>1. registry' \in [Admins -> Emails \cup {Free, Gone}]
  BY DEF OthersWrite, IInv, TypeOK
<1>2. UNCHANGED <<view, call, shown>> /\ toast' = Null
  BY DEF OthersWrite
<1>3. TypeOK' /\ DialogsApart' /\ DialogHasRow'
  BY <1>1, <1>2 DEF IInv, TypeOK, DialogsApart, DialogHasRow, view
<1>4. CallsFit' /\ ModeIsOwn'
  BY <1>2 DEF IInv, CallsFit, OfSlot, EffectKnown, ModeIsOwn, view
<1>5. QED
  BY <1>3, <1>4 DEF IInv

LEMMA BrowseSound ==
    ASSUME IInv, Browse
    PROVE  IInv'
<1>1. shown' \in [Admins -> Emails \cup {Null}]
  BY LoadTyped DEF Browse, IInv
<1>2. UNCHANGED <<view, call, registry>> /\ toast' = Null
  BY DEF Browse
<1>3. TypeOK' /\ DialogsApart' /\ DialogHasRow'
  BY <1>1, <1>2 DEF IInv, TypeOK, DialogsApart, DialogHasRow, view
<1>4. CallsFit' /\ ModeIsOwn'
  BY <1>2 DEF IInv, CallsFit, OfSlot, EffectKnown, ModeIsOwn, view
<1>5. QED
  BY <1>3, <1>4 DEF IInv

LEMMA StutterSound ==
    ASSUME IInv, UNCHANGED vars
    PROVE  IInv'
<1>1. TypeOK' /\ DialogsApart' /\ DialogHasRow'
  BY DEF IInv, TypeOK, DialogsApart, DialogHasRow, vars, view
<1>2. CallsFit' /\ ModeIsOwn'
  BY DEF IInv, CallsFit, OfSlot, EffectKnown, ModeIsOwn, vars, view
<1>3. QED
  BY <1>1, <1>2 DEF IInv

LEMMA StepInvariant ==
    ASSUME IInv, [Next]_vars
    PROVE  IInv'
<1>1. CASE User
  <2>1. CASE OpenCreate \/ \E a \in Admins : OpenEdit(a) \/ OpenDelete(a)
    BY <2>1, OpenSound
  <2>2. CASE CloseForm \/ CloseDelete
    BY <2>2, CloseSound
  <2>3. CASE \E email \in Emails : SubmitForm(email)
    BY <2>3, SubmitSound
  <2>4. CASE ConfirmDelete
    BY <2>4, ConfirmSound
  <2>5. CASE \E t \in Toggles, a \in Admins : ToggleBlock(t, a)
    BY <2>5, ToggleSound
  <2>6. CASE Browse
    BY <2>6, BrowseSound
  <2>7. QED
    BY <1>1, <2>1, <2>2, <2>3, <2>4, <2>5, <2>6 DEF User
<1>2. CASE \E k \in Slots : Server(k) \/ Client(k)
  BY <1>2, AwaitSound, FailSound DEF Client
<1>3. CASE Succeeds
  BY <1>3, SucceedsSound
<1>4. CASE \E a \in Admins : OthersWrite(a)
  BY <1>4, OthersSound
<1>5. CASE UNCHANGED vars
  BY <1>5, StutterSound
<1>6. QED
  BY <1>1, <1>2, <1>3, <1>4, <1>5 DEF Next

-----------------------------------------------------------------------------
(* The two dialogs never show together, every awaited call belongs to its  *)
(* slot, and what is known of its effect is right.                         *)
THEOREM Invariance == Spec => []IInv
<1>1. Init => IInv
  BY InitInvariant
<1>2. IInv /\ [Next]_vars => IInv'
  BY StepInvariant
<1>3. QED
  BY <1>1, <1>2, PTL DEF Spec

(* Every reachable state of the view is well typed.                        *)
THEOREM TypeCorrectness == Spec => []TypeOK
<1>1. IInv => TypeOK
  BY DEF IInv
<1>2. QED
  BY <1>1, Invariance, PTL

-----------------------------------------------------------------------------
(* A slot is freed only by the end of its call; every other step keeps     *)
(* what is awaited.                                                        *)
LEMMA WhoEnds ==
    ASSUME IInv, [Next]_vars, NEW k \in Slots, Ends(k)
    PROVE  \/ CallFails(k)
           \/ k = "save" /\ SaveSucceeds
           \/ k = "remove" /\ RemoveSucceeds
           \/ k \in Toggles /\ ToggleSucceeds(k)
<1>1. call[k] # Null /\ call'[k] = Null
  BY DEF Ends
<1>2. CASE User
  <2>1. ~ (OpenCreate \/ \E a \in Admins : OpenEdit(a) \/ OpenDelete(a))
    <3>1. Disown("save")[k] # Null /\ Disown("remove")[k] # Null
      <4>1. Disowned(call[k]) # Null
        BY <1>1, AwaitedFits, DisownedFits, NullAssumption DEF Fits
      <4>2. QED
        BY <1>1, <4>1 DEF Disown, IInv, TypeOK
    <3>2. QED
      BY <1>1, <3>1 DEF OpenCreate, OpenEdit, OpenDelete
  <2>2. ~ (CloseForm \/ CloseDelete \/ Browse)
    BY <1>1 DEF CloseForm, CloseDelete, Browse
  <2>3. ASSUME NEW email \in Emails, SubmitForm(email)
        PROVE  FALSE
    BY <1>1, <2>3 DEF SubmitForm, IInv, TypeOK
  <2>4. ~ ConfirmDelete
    BY <1>1 DEF ConfirmDelete, IInv, TypeOK
  <2>5. ASSUME NEW t \in Toggles, NEW a \in Admins, ToggleBlock(t, a)
        PROVE  FALSE
    BY <1>1, <2>5 DEF ToggleBlock, IInv, TypeOK
  <2>6. QED
    BY <1>2, <2>1, <2>2, <2>3, <2>4, <2>5 DEF User
<1>3. ASSUME NEW j \in Slots, Server(j) \/ Repeat(j)
      PROVE  FALSE
  BY <1>1, <1>3, ServerSound DEF Server
<1>4. ASSUME NEW j \in Slots, CallFails(j)
      PROVE  CallFails(k)
  BY <1>1, <1>4 DEF CallFails, IInv, TypeOK
<1>5. CASE Succeeds
  <2>1. CASE SaveSucceeds
    BY <1>1, <2>1 DEF SaveSucceeds, IInv, TypeOK
  <2>2. CASE RemoveSucceeds
    BY <1>1, <2>2 DEF RemoveSucceeds, IInv, TypeOK
  <2>3. ASSUME NEW t \in Toggles, ToggleSucceeds(t)
        PROVE  k = t
    BY <1>1, <2>3 DEF ToggleSucceeds, IInv, TypeOK
  <2>4. QED
    BY <1>5, <2>1, <2>2, <2>3 DEF Succeeds
<1>6. ASSUME NEW a \in Admins, OthersWrite(a)
      PROVE  FALSE
  BY <1>1, <1>6 DEF OthersWrite
<1>7. CASE UNCHANGED vars
  BY <1>1, <1>7 DEF vars
<1>8. QED
  BY <1>2, <1>3, <1>4, <1>5, <1>6, <1>7 DEF Next, Client

-----------------------------------------------------------------------------
LEMMA ToldStep ==
    ASSUME IInv, [Next]_vars
    PROVE  Told
<1> SUFFICES ASSUME NEW k \in Slots, Ends(k)
             PROVE  /\ toast' # "error" => call[k].done
                    /\ toast' = "error" /\ call[k].stage = "refused"
                          /\ call[k].op \notin Repeated => ~ call[k].done
  BY DEF Told
<1>1. Fits(k, call[k])
  BY AwaitedFits DEF Ends
<1>2. CASE CallFails(k)
  <2>1. toast' = "error"
    BY <1>2 DEF CallFails
  <2>2. call[k].tries \in 1 .. MaxTries /\ (call[k].tries > 1 => call[k].op \in Repeated)
    BY <1>1 DEF Fits, Call, EffectKnown
  <2>3. call[k].op \notin Repeated => call[k].tries = 1
    BY <2>2
  <2>4. QED
    BY <1>1, <2>1, <2>3 DEF Fits, EffectKnown
<1>3. CASE call[k].stage = "refetch"
  BY <1>1, <1>3 DEF Fits, EffectKnown
<1>4. CASE \/ k = "save" /\ SaveSucceeds
           \/ k = "remove" /\ RemoveSucceeds
           \/ k \in Toggles /\ ToggleSucceeds(k)
  BY <1>3, <1>4 DEF SaveSucceeds, RemoveSucceeds, ToggleSucceeds
<1>5. QED
  BY <1>2, <1>4, WhoEnds

LEMMA ToastNamedStep ==
    ASSUME IInv, [Next]_vars
    PROVE  ToastNamed
<1> SUFFICES ASSUME Ends("save"), toast' # "error", call["save"].own
             PROVE  toast' = IF call["save"].op = "create" THEN "created" ELSE "updated"
  BY DEF ToastNamed
<1>1. "save" \in Slots /\ "save" \notin Toggles
  BY DEF Slots
<1>2. SaveSucceeds
  BY <1>1, WhoEnds DEF CallFails
<1>3. formMode = "create" <=> call["save"].op = "create"
  BY DEF Ends, IInv, ModeIsOwn
<1>4. QED
  BY <1>2, <1>3 DEF SaveSucceeds

(* Which steps take a dialog off the screen.                               *)
LEMMA WhoCloses ==
    ASSUME [Next]_vars, call' # call
    PROVE  /\ formVisible /\ ~ formVisible' => SaveSucceeds
           /\ deleteVisible /\ ~ deleteVisible' => RemoveSucceeds
<1>1. CASE User
  <2>1. CASE OpenCreate \/ \E a \in Admins : OpenEdit(a)
    <3>1. formVisible' /\ deleteVisible' = deleteVisible
      BY <2>1 DEF OpenCreate, OpenEdit
    <3>2. QED
      BY <3>1
  <2>2. CASE \E a \in Admins : OpenDelete(a)
    <3>1. deleteVisible' /\ formVisible' = formVisible
      BY <2>2 DEF OpenDelete
    <3>2. QED
      BY <3>1
  <2>3. ~ (CloseForm \/ CloseDelete)
    BY DEF CloseForm, CloseDelete
  <2>4. CASE \/ ConfirmDelete
             \/ \E email \in Emails : SubmitForm(email)
             \/ \E t \in Toggles, a \in Admins : ToggleBlock(t, a)
             \/ Browse
    <3>1. UNCHANGED view
      BY <2>4 DEF SubmitForm, ConfirmDelete, ToggleBlock, Browse
    <3>2. QED
      BY <3>1 DEF view
  <2>5. QED
    BY <1>1, <2>1, <2>2, <2>3, <2>4 DEF User
<1>2. ASSUME NEW k \in Slots, Server(k) \/ Client(k)
      PROVE  UNCHANGED view
  BY <1>2 DEF Server, Client, Accept, Refuse, Miss, Repeat, CallFails
<1>3. CASE Succeeds
  BY <1>3 DEF Succeeds, SaveSucceeds, RemoveSucceeds, ToggleSucceeds, view
<1>4. ASSUME NEW a \in Admins, OthersWrite(a)
      PROVE  UNCHANGED view
  BY <1>4 DEF OthersWrite
<1>5. CASE UNCHANGED vars
  BY <1>5 DEF vars
<1>6. QED
  BY <1>1, <1>2, <1>3, <1>4, <1>5 DEF Next, view

LEMMA DialogKeptStep ==
    ASSUME IInv, [Next]_vars
    PROVE  DialogKept
<1>1. "save" \in Slots /\ "remove" \in Slots
  BY DEF Slots
<1>2. ASSUME SaveSucceeds
      PROVE  Ends("save") /\ call["save"].done
  <2>1. Fits("save", call["save"])
    BY <1>1, <1>2, AwaitedFits DEF SaveSucceeds
  <2>2. call["save"].done
    BY <1>2, <2>1 DEF SaveSucceeds, Fits, EffectKnown
  <2>3. Ends("save")
    BY <1>1, <1>2 DEF SaveSucceeds, Ends, IInv, TypeOK
  <2>4. QED
    BY <2>2, <2>3
<1>3. ASSUME RemoveSucceeds
      PROVE  Ends("remove") /\ call["remove"].done
  <2>1. Fits("remove", call["remove"])
    BY <1>1, <1>3, AwaitedFits DEF RemoveSucceeds
  <2>2. call["remove"].done
    BY <1>3, <2>1 DEF RemoveSucceeds, Fits, EffectKnown
  <2>3. Ends("remove")
    BY <1>1, <1>3 DEF RemoveSucceeds, Ends, IInv, TypeOK
  <2>4. QED
    BY <2>2, <2>3
<1>4. QED
  BY <1>2, <1>3, WhoCloses DEF DialogKept

(* Which step lets a call of the user change an address.                   *)
LEMMA WhoWrites ==
    ASSUME [Next]_vars, registry' # registry, call' # call
    PROVE  \E k \in Slots : Accept(k)
<1>1. ~ User
  BY DEF User, OpenCreate, OpenEdit, OpenDelete, CloseForm, CloseDelete,
         SubmitForm, ConfirmDelete, ToggleBlock, Browse
<1>2. ASSUME NEW k \in Slots, Server(k) \/ Client(k)
      PROVE  Accept(k)
  BY <1>2 DEF Server, Client, Refuse, Miss, Repeat, CallFails
<1>3. ~ Succeeds
  BY DEF Succeeds, SaveSucceeds, RemoveSucceeds, ToggleSucceeds
<1>4. ~ \E a \in Admins : OthersWrite(a)
  BY DEF OthersWrite
<1>5. ~ UNCHANGED vars
  BY DEF vars
<1>6. QED
  BY <1>1, <1>2, <1>3, <1>4, <1>5 DEF Next

LEMMA ResetWarnedStep ==
    ASSUME IInv, [Next]_vars
    PROVE  ResetWarned
<1> SUFFICES ASSUME NEW a \in Admins, registry[a] \in Emails,
                    registry'[a] \in Emails \ {registry[a]}, call' # call
             PROVE  call["save"].warned \/ call["save"].base # registry[a]
  BY DEF ResetWarned
<1>1. PICK k \in Slots : Accept(k)
  BY WhoWrites
<1>2. call[k] # Null /\ EffectOf(call[k]) /\ Acceptable(call[k])
  BY <1>1 DEF Accept
<1>3. Fits(k, call[k])
  BY <1>2, AwaitedFits
<1>4. registry \in [Admins -> Emails \cup {Free, Gone}] /\ Gone \notin Emails /\ Free \notin Emails
  BY DEF IInv, TypeOK
<1>5. call[k].op = "update" /\ call[k].id = a /\ registry'[a] = call[k].email
  <2>1. call[k].op # "create"
    BY <1>2, <1>4 DEF EffectOf
  <2>2. call[k].op # "remove"
    BY <1>2, <1>4 DEF EffectOf
  <2>3. call[k].op = "update"
    BY <1>2, <2>1, <2>2 DEF EffectOf
  <2>4. registry' = [registry EXCEPT ![call[k].id] = call[k].email]
    BY <1>2, <2>3 DEF EffectOf
  <2>5. QED
    BY <1>4, <2>3, <2>4
<1>6. k = "save" /\ call[k].warned = (call[k].email # call[k].base)
  BY <1>3, <1>5 DEF Fits, OfSlot
<1>7. CASE call["save"].base = registry[a]
  BY <1>5, <1>6, <1>7
<1>8. QED
  BY <1>7

(* The toasts tell the truth, for any number of overlapping calls.         *)
THEOREM ToastsTellTheTruth == Spec => ToastsAreTrue
<1>1. IInv /\ [Next]_vars => Told
  BY ToldStep
<1>2. QED
  BY <1>1, Invariance, PTL DEF Spec, ToastsAreTrue

(* The toast of a save names what was saved unless the form was reopened.  *)
THEOREM ToastsNameTheSave == Spec => ToastNamesTheSave
<1>1. IInv /\ [Next]_vars => ToastNamed
  BY ToastNamedStep
<1>2. QED
  BY <1>1, Invariance, PTL DEF Spec, ToastNamesTheSave

(* No error and no other call takes an open dialog from the user.          *)
THEOREM ErrorsKeepDialogs == Spec => ErrorKeepsDialog
<1>1. IInv /\ [Next]_vars => DialogKept
  BY DialogKeptStep
<1>2. QED
  BY <1>1, Invariance, PTL DEF Spec, ErrorKeepsDialog

(* No save resets a password unannounced, except on a row that was changed *)
(* by somebody else.                                                       *)
THEOREM ResetsAreWarned == Spec => WarnedBeforeReset
<1>1. IInv /\ [Next]_vars => ResetWarned
  BY ResetWarnedStep
<1>2. QED
  BY <1>1, Invariance, PTL DEF Spec, WarnedBeforeReset
=============================================================================
