------------------------ MODULE RestoreCommandProofs ------------------------
(***************************************************************************)
(* Proofs about RestoreCommand and the PaneRecovery in it, for every       *)
(* number of panes, every plan, every number of settling observations and  *)
(* whatever the panes do.                                                  *)
(***************************************************************************)
EXTENDS RestoreCommand, SequenceTheorems, TLAPS

\* What a pane was sent, without whom it met.
ItemsOf(s) == [i \in 1 .. Len(s) |-> s[i].item]
Met(items, to, r) ==
  [i \in 1 .. Len(items) |-> [item |-> items[i], to |-> to, raced |-> r]]

Submitted == <<"command", "Enter">>
WithPrompt == <<"command", "Enter", "prompt">>

(* The sequences of items there are. *)
LEMMA ItemSequences ==
  /\ <<>> \in Seq(Item) /\ <<"command">> \in Seq(Item) /\ <<"prompt">> \in Seq(Item)
  /\ Submitted \in Seq(Item)
  /\ \A s \in {<<>>, <<"command">>, Submitted} : \A j \in 1 .. Len(s) : s[j] # "prompt"
  /\ Submitted \o <<>> = Submitted
  /\ Submitted \o <<"command">> = <<"command", "Enter", "command">>
  /\ Submitted \o <<"prompt">> = WithPrompt
<1>1. /\ <<>> \in Seq(Item) /\ <<"command">> \in Seq(Item) /\ <<"prompt">> \in Seq(Item)
      /\ Submitted \in Seq(Item)
  BY DEF Item, Submitted
<1>2. \A j \in 1 .. Len(<<>>) : <<>>[j] # "prompt"
  OBVIOUS
<1>3. \A j \in 1 .. Len(<<"command">>) : <<"command">>[j] # "prompt"
  OBVIOUS
<1>4. \A j \in 1 .. Len(Submitted) : Submitted[j] # "prompt"
  BY DEF Submitted
<1>5. Submitted \o <<>> = Submitted
  BY <1>1, ConcatEmptySeq
<1>6. ASSUME NEW x \in Item
      PROVE  Submitted \o <<x>> = <<"command", "Enter", x>>
  <2>1. /\ <<x>> \in Seq(Item) /\ <<"command", "Enter", x>> \in Seq(Item)
        /\ Len(<<x>>) = 1 /\ Len(Submitted) = 2 /\ Len(<<"command", "Enter", x>>) = 3
    BY DEF Item, Submitted
  <2>2. /\ Submitted \o <<x>> \in Seq(Item)
        /\ Len(Submitted \o <<x>>) = Len(Submitted) + Len(<<x>>)
        /\ \A i \in 1 .. Len(Submitted) + Len(<<x>>) :
             (Submitted \o <<x>>)[i] = IF i <= Len(Submitted) THEN Submitted[i]
                                       ELSE <<x>>[i - Len(Submitted)]
    BY <1>1, <2>1, ConcatProperties, Zenon
  <2>3. Len(Submitted \o <<x>>) = 3
    BY <2>1, <2>2
  <2>4. ASSUME NEW i \in 1 .. 3
        PROVE  (Submitted \o <<x>>)[i] = <<"command", "Enter", x>>[i]
    <3>1. (Submitted \o <<x>>)[i] = IF i <= 2 THEN Submitted[i] ELSE <<x>>[i - 2]
      BY <2>1, <2>2
    <3>2. i = 1 \/ i = 2 \/ i = 3
      OBVIOUS
    <3>. QED  BY <3>1, <3>2 DEF Submitted
  <2>. QED  BY <2>1, <2>2, <2>3, <2>4, SeqEqual
<1>7. /\ Submitted \o <<"command">> = <<"command", "Enter", "command">>
      /\ Submitted \o <<"prompt">> = WithPrompt
  BY <1>6 DEF WithPrompt, Item
<1>. QED  BY <1>1, <1>2, <1>3, <1>4, <1>5, <1>7

(* What is sent is appended to what was sent. *)
LEMMA ItemsAppended ==
  ASSUME NEW s \in Seq(Sent), NEW items \in Seq(Item),
         NEW to \in Foreground, NEW r \in BOOLEAN
  PROVE  /\ s \o Met(items, to, r) \in Seq(Sent)
         /\ ItemsOf(s \o Met(items, to, r)) = ItemsOf(s) \o items
         /\ \A i \in 1 .. Len(s \o Met(items, to, r)) :
              \/ /\ i \in 1 .. Len(s)
                 /\ (s \o Met(items, to, r))[i] = s[i]
              \/ /\ (s \o Met(items, to, r))[i].to = to
                 /\ (s \o Met(items, to, r))[i].raced = r
                 /\ \E j \in 1 .. Len(items) :
                      (s \o Met(items, to, r))[i].item = items[j]
<1> DEFINE m == Met(items, to, r)
           t == s \o m
<1>1. /\ Len(items) \in Nat /\ Len(s) \in Nat
      /\ \A i \in 1 .. Len(items) : items[i] \in Item
      /\ \A i \in 1 .. Len(s) : s[i] \in Sent
  BY LenProperties, ElementOfSeq
<1>2. \A i \in 1 .. Len(items) : [item |-> items[i], to |-> to, raced |-> r] \in Sent
  BY <1>1 DEF Sent
<1>3. m \in Seq(Sent) /\ Len(m) = Len(items)
  <2>1. m \in [1 .. Len(items) -> Sent]
    BY <1>2 DEF Met
  <2>. QED  BY <2>1, <1>1
<1>4. \A i \in 1 .. Len(items) : m[i] = [item |-> items[i], to |-> to, raced |-> r]
  BY DEF Met
<1> HIDE DEF m
<1>5. /\ t \in Seq(Sent) /\ Len(t) = Len(s) + Len(items)
      /\ \A i \in 1 .. Len(s) + Len(items) :
           t[i] = IF i <= Len(s) THEN s[i] ELSE m[i - Len(s)]
  <2>1. /\ t \in Seq(Sent) /\ Len(t) = Len(s) + Len(m)
        /\ \A i \in 1 .. Len(s) + Len(m) :
             t[i] = IF i <= Len(s) THEN s[i] ELSE m[i - Len(s)]
    BY <1>3, ConcatProperties, Zenon
  <2>. QED  BY <2>1, <1>3, Zenon
<1>6. ASSUME NEW i \in 1 .. Len(t)
      PROVE  \/ i \in 1 .. Len(s) /\ t[i] = s[i]
             \/ /\ t[i].to = to /\ t[i].raced = r
                /\ \E j \in 1 .. Len(items) : t[i].item = items[j]
  <2>1. CASE i <= Len(s)
    BY <2>1, <1>1, <1>5
  <2>2. CASE ~(i <= Len(s))
    <3>1. i - Len(s) \in 1 .. Len(items) /\ t[i] = m[i - Len(s)]
      BY <2>2, <1>1, <1>5
    <3>2. t[i] = [item |-> items[i - Len(s)], to |-> to, raced |-> r]
      BY <3>1, <1>4
    <3>. QED  BY <3>1, <3>2
  <2>. QED  BY <2>1, <2>2
<1>7. ItemsOf(t) = ItemsOf(s) \o items
  <2>1. /\ ItemsOf(s) \in Seq(Item) /\ Len(ItemsOf(s)) = Len(s)
        /\ \A i \in 1 .. Len(s) : ItemsOf(s)[i] = s[i].item
    <3>1. ItemsOf(s) \in [1 .. Len(s) -> Item]
      BY <1>1 DEF ItemsOf, Sent
    <3>. QED  BY <3>1, <1>1 DEF ItemsOf
  <2>2. /\ ItemsOf(t) \in Seq(Item) /\ Len(ItemsOf(t)) = Len(t)
        /\ \A i \in 1 .. Len(t) : ItemsOf(t)[i] = t[i].item
    <3>1. \A i \in 1 .. Len(t) : t[i] \in Sent
      BY <1>5, ElementOfSeq
    <3>2. ItemsOf(t) \in [1 .. Len(t) -> Item]
      BY <3>1 DEF ItemsOf, Sent
    <3>. QED  BY <3>2, <1>1, <1>5 DEF ItemsOf
  <2>3. /\ ItemsOf(s) \o items \in Seq(Item)
        /\ Len(ItemsOf(s) \o items) = Len(s) + Len(items)
        /\ \A i \in 1 .. Len(s) + Len(items) :
             (ItemsOf(s) \o items)[i] = IF i <= Len(s) THEN ItemsOf(s)[i]
                                        ELSE items[i - Len(s)]
    <3>1. /\ ItemsOf(s) \o items \in Seq(Item)
          /\ Len(ItemsOf(s) \o items) = Len(ItemsOf(s)) + Len(items)
          /\ \A i \in 1 .. Len(ItemsOf(s)) + Len(items) :
               (ItemsOf(s) \o items)[i] = IF i <= Len(ItemsOf(s)) THEN ItemsOf(s)[i]
                                          ELSE items[i - Len(ItemsOf(s))]
      BY <2>1, ConcatProperties, Zenon
    <3>. QED  BY <3>1, <2>1, Zenon
  <2>4. ASSUME NEW i \in 1 .. Len(t)
        PROVE  ItemsOf(t)[i] = (ItemsOf(s) \o items)[i]
    <3>1. CASE i <= Len(s)
      <4>1. i \in 1 .. Len(s)
        BY <3>1, <1>1, <1>5
      <4>. QED  BY <3>1, <4>1, <1>5, <2>1, <2>2, <2>3
    <3>2. CASE ~(i <= Len(s))
      <4>1. i - Len(s) \in 1 .. Len(items)
        BY <3>2, <1>1, <1>5
      <4>2. m[i - Len(s)] = [item |-> items[i - Len(s)], to |-> to, raced |-> r]
        BY <4>1, <1>4
      <4>3. t[i] = m[i - Len(s)] /\ m[i - Len(s)].item = items[i - Len(s)]
        BY <4>2, <3>2, <1>1, <1>5
      <4>. QED  BY <3>2, <4>3, <1>5, <2>2, <2>3
    <3>. QED  BY <3>1, <3>2
  <2>. QED  BY <2>2, <2>3, <2>4, <1>5, SeqEqual
<1>. QED  BY <1>5, <1>6, <1>7 DEF m

(* A list of commands takes effect up to any prefix. *)
LEMMA ItemPrefixes ==
  ASSUME NEW o, NEW n \in 0 .. Len(Items(o))
  PROVE  /\ SubSeq(Items(o), 1, n) \in {<<>>, <<"command">>, Submitted}
         /\ SubSeq(Items(o), 1, n) = Submitted => o = "launch"
         /\ o = "verify" => SubSeq(Items(o), 1, n) = <<>>
         /\ n = Len(Items(o)) => SubSeq(Items(o), 1, n) = Items(o)
<1>1. /\ <<"command">> \in Seq(Item) /\ Submitted \in Seq(Item) /\ <<>> \in Seq(Item)
      /\ Len(<<>>) = 0 /\ Len(<<"command">>) = 1 /\ Len(Submitted) = 2
  BY DEF Item, Submitted
<1>2. Items(o) \in {<<>>, <<"command">>, Submitted} /\ (o # "launch" => Items(o) # Submitted)
  BY DEF Items, Submitted
<1>3. n = Len(Items(o)) => SubSeq(Items(o), 1, n) = Items(o)
  <2>1. Items(o) \in Seq(Item)
    BY <1>1, <1>2
  <2>. QED  BY <2>1, SubSeqFull, Zenon
<1>4. CASE n = 0
  <2>1. SubSeq(Items(o), 1, n) = <<>>
    BY <1>4, SubSeqEmpty
  <2>. QED  BY <2>1, <1>1, <1>3
<1>5. CASE n = Len(Items(o))
  BY <1>1, <1>2, <1>3, <1>5 DEF Items
<1>6. CASE n # 0 /\ n # Len(Items(o))
  <2>1. Items(o) = Submitted /\ n = 1 /\ o = "launch"
    <3>1. CASE Items(o) = <<>>
      BY <3>1, <1>1, <1>6
    <3>2. CASE Items(o) = <<"command">>
      BY <3>2, <1>1, <1>6
    <3>3. CASE Items(o) = Submitted
      <4>1. Len(Items(o)) = 2
        BY <3>3, <1>1
      <4>2. n = 1
        BY <4>1, <1>6
      <4>. QED  BY <3>3, <4>2, <1>2
    <3>. QED  BY <3>1, <3>2, <3>3, <1>2
  <2>2. 1 \in 1 .. Len(Submitted) /\ 1 \in 1 .. 1 /\ 1 < 1 + 1 /\ 1 \in Int /\ 1 + 1 \in Int
    BY <1>1
  <2>3. SubSeq(Submitted, 1, 1) = <<Submitted[1]>> \o SubSeq(Submitted, 1 + 1, 1)
    <3>1. 1 \in 1 .. Len(Submitted) /\ Submitted \in Seq(Item)
      BY <1>1
    <3>. QED  BY <2>2, <3>1, SubSeqRecursiveFirst, Zenon
  <2>4. SubSeq(Submitted, 1 + 1, 1) = <<>>
    BY <2>2, SubSeqEmpty, Zenon
  <2>5. Submitted[1] = "command"
    BY DEF Submitted
  <2>6. SubSeq(Submitted, 1, 1) = <<"command">>
    BY <1>1, <2>3, <2>4, <2>5, ConcatEmptySeq, Zenon
  <2>. QED  BY <1>1, <2>1, <2>6
<1>. QED  BY <1>4, <1>5, <1>6
----------------------------------------------------------------------------
(* The inductive invariant of the recovery, in parts.                      *)

\* All that a planned action asks to be sent.
WholeInput(a) ==
  CASE a = "PasteManualHint" -> <<"command">>
    [] a = "LaunchAutomatic" -> Submitted
    [] a = "LaunchWithPrompt" -> WithPrompt
    [] OTHER -> <<>>

\* What a report of o allows to conclude of the input.
Earned(a, o, items) ==
  /\ items \in PlannedInput(a)
  /\ o \in {"PreparedManualHint", "PreparedAutomaticFallbackHint"} => items = <<"command">>
  /\ o = "RecoveredAutomatically" => items = Submitted
  /\ o = "RecoveredAutomaticallyWithPromptPrepared" => items = WithPrompt
  /\ o \in {"ShellNotForeground", "MissingPane"} /\ a \notin Launch => items = <<>>
  /\ o \in {"SessionMismatch", "PaneMissing", "InputDisabled"} => items = Submitted
  /\ ~PartialOutcome(o) => /\ a \notin {"NoInput", "PasteAutomaticFallback"}
                           /\ items = WholeInput(a)

Reports ==
  \A p \in Pane : outcome[p] # None => Earned(action[p], outcome[p], ItemsOf(sent[p]))

\* The pane at work is not reported yet; one whose turn did not come got nothing.
Turn ==
  /\ current = None <=> pc \in {"next", "done"}
  /\ current # None => outcome[current] = None
  /\ \A p \in Pane : outcome[p] = None /\ p # current => sent[p] = <<>>

\* What the pane at work got so far.
Stage ==
  current # None =>
    /\ pc \in {"guard", "dispatch"} =>
         \/ /\ op = OperationOf(action[current]) /\ action[current] # "NoInput"
            /\ sent[current] = <<>>
         \/ /\ op = "fallback" /\ action[current] \in Launch
            /\ ItemsOf(sent[current]) = Submitted
    /\ pc = "settle" =>
         /\ op = "launch" /\ action[current] \in Launch
         /\ ItemsOf(sent[current]) = Submitted
    /\ pc \in {"fresh", "prompt", "classify"} =>
         /\ action[current] = "LaunchWithPrompt"
         /\ ItemsOf(sent[current]) = Submitted
    /\ pc = "cleanup" =>
         /\ action[current] = "LaunchWithPrompt"
         /\ ItemsOf(sent[current]) \in {Submitted, WithPrompt}

\* A prompt is in a buffer only while its pane is worked on or after a failure
\* that is reported.
Buffers ==
  \A p \in buffer : outcome[p] = "CleanupFailed" \/ (p = current /\ pc = "cleanup")

\* Unless it changed, the foreground is still what the observation found.
Allowed ==
  InGap /\ ~raced => fg = IF pc = "dispatch" THEN "shell" ELSE "expected"

RInv ==
  /\ TypeOK /\ Turn /\ Stage /\ Reports /\ Buffers /\ Allowed
  /\ CommandsMeetAShell /\ InputReachesItsTarget

----------------------------------------------------------------------------
(* Reports and input, whatever step makes them.                            *)

(* To send nothing is within every plan. *)
LEMMA NothingIsPlanned ==
  ASSUME NEW a \in Action
  PROVE  <<>> \in PlannedInput(a) /\ ItemsOf(<<>>) = <<>>
<1>1. ItemsOf(<<>>) = <<>>
  BY DEF ItemsOf
<1>. QED  BY <1>1 DEF PlannedInput, Launch, Action

(* Input to the pane at work is appended to what it got, and nobody else's changes. *)
LEMMA Delivered ==
  ASSUME TypeOK, current \in Pane, NEW items \in Seq(Item), Deliver(items)
  PROVE  /\ sent' \in [Pane -> Seq(Sent)]
         /\ \A p \in Pane : p # current => sent'[p] = sent[p]
         /\ ItemsOf(sent'[current]) = ItemsOf(sent[current]) \o items
         /\ \A i \in 1 .. Len(sent'[current]) :
              \/ i \in 1 .. Len(sent[current]) /\ sent'[current][i] = sent[current][i]
              \/ /\ sent'[current][i].to = fg /\ sent'[current][i].raced = raced
                 /\ \E j \in 1 .. Len(items) : sent'[current][i].item = items[j]
<1>1. sent' = [sent EXCEPT ![current] = sent[current] \o Met(items, fg, raced)]
  BY DEF Deliver, Met
<1>2. sent[current] \in Seq(Sent) /\ fg \in Foreground /\ raced \in BOOLEAN
      /\ sent \in [Pane -> Seq(Sent)]
  BY DEF TypeOK
<1>3. sent'[current] = sent[current] \o Met(items, fg, raced)
  BY <1>1, <1>2
<1>4. sent[current] \o Met(items, fg, raced) \in Seq(Sent)
  BY <1>2, ItemsAppended
<1>5. sent' \in [Pane -> Seq(Sent)] /\ \A p \in Pane : p # current => sent'[p] = sent[p]
  BY <1>1, <1>2, <1>4
<1>. QED  BY <1>2, <1>3, <1>5, ItemsAppended

(* An outcome that was earned keeps the books in order. *)
LEMMA Reporting ==
  ASSUME TypeOK, Turn, Reports, current \in Pane, NEW o \in Outcome, Report(o),
         \A p \in Pane : p # current => sent'[p] = sent[p],
         Earned(action[current], o, ItemsOf(sent'[current]))
  PROVE  Turn' /\ Stage' /\ Reports'
<1>1. /\ pc' = "next" /\ current' = None /\ action' = action
      /\ outcome' = [outcome EXCEPT ![current] = o]
  BY DEF Report, plan
<1>2. /\ outcome'[current] = o /\ o # None
      /\ \A p \in Pane : p # current => outcome'[p] = outcome[p]
  BY <1>1, NoneIsNothing DEF TypeOK
<1>3. Turn'
  BY <1>1, <1>2 DEF Turn
<1>4. Stage'
  BY <1>1 DEF Stage
<1>5. Reports'
  BY <1>1, <1>2 DEF Reports
<1>. QED  BY <1>3, <1>4, <1>5

(* The types of what a report and a move assign. *)
LEMMA ReportType ==
  ASSUME TypeOK, current \in Pane, NEW o \in Outcome, Report(o)
  PROVE  /\ action' = action /\ degraded' = degraded /\ found' = found
         /\ pc' = "next" /\ current' = None /\ op' = "verify" /\ tries' = 0
         /\ outcome' \in [Pane -> Outcome \cup {None}]
         /\ disposition' = disposition /\ status' = status
         /\ exists' = TRUE /\ fg' = "shell" /\ inputOff' = FALSE /\ unread' = FALSE
         /\ changes' = 0
BY DEF TypeOK, Report, plan, end, OutOfSight

(* What going on assigns. *)
LEMMA GoType ==
  ASSUME NEW to, Go(to)
  PROVE  /\ action' = action /\ degraded' = degraded /\ found' = found
         /\ pc' = to /\ current' = current /\ op' = op /\ tries' = tries
         /\ outcome' = outcome /\ disposition' = disposition /\ status' = status
         /\ exists' = exists /\ fg' = fg /\ inputOff' = inputOff /\ unread' = unread
         /\ changes' = changes
BY DEF Go, plan, end, pane


(* Whom input meets, if its items fit whoever has the foreground. *)
LEMMA DeliveredMeets ==
  ASSUME RInv, current \in Pane, NEW items \in Seq(Item), Deliver(items),
         \A j \in 1 .. Len(items) :
           /\ items[j] # "prompt" => fg \in {"shell", "alike"}
           /\ ~raced => fg = IF items[j] = "prompt" THEN "expected" ELSE "shell"
  PROVE  CommandsMeetAShell' /\ InputReachesItsTarget'
<1>1. TypeOK /\ CommandsMeetAShell /\ InputReachesItsTarget
  BY DEF RInv
<1>2. ASSUME NEW p \in Pane, NEW i \in 1 .. Len(sent'[p])
      PROVE  /\ sent'[p][i].item # "prompt" => sent'[p][i].to \in {"shell", "alike"}
             /\ ~sent'[p][i].raced =>
                  sent'[p][i].to = IF sent'[p][i].item = "prompt" THEN "expected"
                                   ELSE "shell"
  <2>1. CASE p # current
    <3>1. sent'[p] = sent[p]
      BY <1>1, <2>1, Delivered
    <3>. QED  BY <1>1, <3>1 DEF CommandsMeetAShell, InputReachesItsTarget
  <2>2. CASE p = current
    <3>1. CASE i \in 1 .. Len(sent[current]) /\ sent'[current][i] = sent[current][i]
      BY <1>1, <2>2, <3>1 DEF CommandsMeetAShell, InputReachesItsTarget
    <3>2. CASE /\ sent'[current][i].to = fg /\ sent'[current][i].raced = raced
               /\ \E j \in 1 .. Len(items) : sent'[current][i].item = items[j]
      <4>1. PICK j \in 1 .. Len(items) : sent'[current][i].item = items[j]
        BY <3>2
      <4>. QED  BY <2>2, <3>2, <4>1
    <3>. QED  BY <1>1, <2>2, <3>1, <3>2, Delivered
  <2>. QED  BY <2>1, <2>2
<1>. QED  BY <1>2 DEF CommandsMeetAShell, InputReachesItsTarget

(* A step that sends nothing sends nothing to the wrong process. *)
LEMMA NothingDelivered ==
  ASSUME RInv, sent' = sent
  PROVE  CommandsMeetAShell' /\ InputReachesItsTarget'
BY DEF RInv, CommandsMeetAShell, InputReachesItsTarget

(* A step that ends the work on a pane. *)
LEMMA ReportStep ==
  ASSUME RInv, current \in Pane, NEW o \in Outcome, Report(o),
         sent' \in [Pane -> Seq(Sent)],
         \A p \in Pane : p # current => sent'[p] = sent[p],
         Earned(action[current], o, ItemsOf(sent'[current])),
         CommandsMeetAShell' /\ InputReachesItsTarget',
         raced' \in BOOLEAN /\ up' \in BOOLEAN /\ buffer' \subseteq Pane,
         \A p \in buffer' : IF p = current THEN o = "CleanupFailed" ELSE p \in buffer
  PROVE  RInv'
<1>1. TypeOK /\ Turn /\ Reports /\ Buffers
  BY DEF RInv
<1>2. Turn' /\ Stage' /\ Reports'
  BY <1>1, Reporting
<1>3. TypeOK'
  <2>1. /\ action' = action /\ degraded' = degraded /\ found' = found
        /\ pc' = "next" /\ current' = None /\ op' = "verify" /\ tries' = 0
        /\ outcome' \in [Pane -> Outcome \cup {None}]
        /\ disposition' = disposition /\ status' = status
        /\ exists' = TRUE /\ fg' = "shell" /\ inputOff' = FALSE /\ unread' = FALSE
        /\ changes' = 0
    BY <1>1, ReportType
  <2>2. 0 \in 0 .. MaxChanges /\ 0 \in 0 .. Settle
    BY MaxChangesIsNat, SettleIsPositive
  <2>. QED  BY <1>1, <2>1, <2>2 DEF TypeOK, Foreground
<1>4. Allowed'
  BY <1>1, ReportType DEF Allowed, InGap
<1>5. Buffers'
  <2>1. outcome' = [outcome EXCEPT ![current] = o]
    BY DEF Report
  <2>2. \A p \in Pane : outcome'[p] = IF p = current THEN o ELSE outcome[p]
    BY <1>1, <2>1 DEF TypeOK
  <2>. QED  BY <1>1, <2>2 DEF Buffers
<1>. QED  BY <1>2, <1>3, <1>4, <1>5 DEF RInv

Steps == {"guard", "dispatch", "settle", "fresh", "prompt", "classify", "cleanup"}

(* A step that goes on with the pane. *)
LEMMA GoStep ==
  ASSUME RInv, current \in Pane, NEW to \in Steps, Go(to),
         sent' \in [Pane -> Seq(Sent)],
         \A p \in Pane : p # current => sent'[p] = sent[p],
         Stage', Buffers', Allowed',
         CommandsMeetAShell' /\ InputReachesItsTarget',
         raced' \in BOOLEAN /\ up' \in BOOLEAN /\ buffer' \subseteq Pane
  PROVE  RInv'
<1>1. TypeOK /\ Turn /\ Reports
  BY DEF RInv
<1>2. TypeOK'
  BY <1>1, GoType DEF TypeOK, Steps
<1>3. current # None /\ outcome[current] = None
  BY <1>1, NoneIsNothing DEF Turn
<1>4. Turn'
  BY <1>1, <1>3, GoType DEF Turn, Steps
<1>5. Reports'
  BY <1>1, <1>3, GoType DEF Reports
<1>. QED  BY <1>2, <1>4, <1>5 DEF RInv


(* A step that goes on with the pane and changes more than the executor's place. *)
LEMMA ContinueStep ==
  ASSUME RInv, current \in Pane, pc' \in Steps, TypeOK',
         action' = action, current' = current, outcome' = outcome,
         \A p \in Pane : p # current => sent'[p] = sent[p],
         Stage', Buffers', Allowed',
         CommandsMeetAShell' /\ InputReachesItsTarget'
  PROVE  RInv'
<1>1. TypeOK /\ Turn /\ Reports
  BY DEF RInv
<1>2. current # None /\ outcome[current] = None
  BY <1>1, NoneIsNothing DEF Turn
<1>3. Turn'
  BY <1>1, <1>2 DEF Turn, Steps
<1>4. Reports'
  BY <1>1, <1>2 DEF Reports
<1>. QED  BY <1>3, <1>4 DEF RInv

(* Between two panes nothing is done: every step but NextPane and Finish has a pane. *)
LEMMA AtWork ==
  ASSUME RInv, pc \in Steps
  PROVE  current \in Pane /\ current # None /\ outcome[current] = None
BY DEF RInv, Turn, TypeOK, Steps
----------------------------------------------------------------------------
(* One lemma for each step of the executor.                                *)

(* Taking the next pane: it got nothing so far, and gets nothing without a recovery. *)
LEMMA NextPaneKeeps == ASSUME RInv, NextPane PROVE RInv'
<1>1. PICK p \in Pane :
        /\ outcome[p] = None
        /\ IF action[p] = "NoInput"
           THEN /\ outcome' = [outcome EXCEPT ![p] = "CapturedRecoveryUnavailable"]
                /\ UNCHANGED <<pc, current, op>>
           ELSE /\ op' = OperationOf(action[p])
                /\ current' = p /\ pc' = "guard"
                /\ UNCHANGED outcome
  BY DEF NextPane
<1>2. /\ pc = "next" /\ current = None /\ sent[p] = <<>>
      /\ UNCHANGED <<plan, tries, end, panes, raced, sent>>
  BY <1>1, NoneIsNothing DEF NextPane, RInv, Turn
<1>3. CommandsMeetAShell' /\ InputReachesItsTarget'
  BY <1>2, NothingDelivered
<1>4. TypeOK /\ Turn /\ Reports /\ Buffers
  BY DEF RInv
<1>5. action[p] \in Action
  BY <1>4 DEF TypeOK
<1>6. CASE action[p] = "NoInput"
  <2>1. \A q \in Pane : outcome'[q] = IF q = p THEN "CapturedRecoveryUnavailable" ELSE outcome[q]
    BY <1>1, <1>4, <1>6 DEF TypeOK
  <2>2. TypeOK'
    BY <1>1, <1>2, <1>4, <1>6
       DEF TypeOK, plan, end, panes, pane, server, Outcome, Attention
  <2>3. Earned("NoInput", "CapturedRecoveryUnavailable", <<>>)
    BY DEF Earned, PlannedInput, PartialOutcome, Attention, Launch
  <2>4. Reports'
    BY <1>2, <1>4, <1>6, <2>1, <2>3, <1>5, NothingIsPlanned DEF Reports, plan
  <2>5. pc' = pc /\ current' = current /\ sent' = sent /\ buffer' = buffer
    BY <1>1, <1>2, <1>6 DEF panes, server
  <2>6. Turn'
    BY <1>2, <1>4, <2>1, <2>5, NoneIsNothing DEF Turn, Outcome, Attention
  <2>7. Stage' /\ Allowed'
    BY <1>2, <2>5 DEF Stage, Allowed, InGap
  <2>8. Buffers'
    <3>1. \A q \in buffer : q \in Pane /\ outcome[q] = "CleanupFailed" /\ q # p
      BY <1>1, <1>2, <1>4, NoneIsNothing DEF TypeOK, Buffers, Outcome, PromptFailure
    <3>. QED  BY <2>1, <2>5, <3>1 DEF Buffers
  <2>. QED  BY <1>3, <2>2, <2>4, <2>6, <2>7, <2>8 DEF RInv
<1>7. CASE action[p] # "NoInput"
  <2>1. TypeOK'
    BY <1>1, <1>2, <1>4, <1>7
       DEF TypeOK, plan, end, panes, pane, server, OperationOf
  <2>2. \A q \in Pane : q # None
    BY NoneIsNothing
  <2>3. Turn'
    <3>1. /\ current' = p /\ pc' = "guard" /\ outcome' = outcome /\ sent' = sent
          /\ \A q \in Pane : outcome[q] = None => sent[q] = <<>>
      BY <1>1, <1>2, <1>4, <1>7, <2>2 DEF Turn
    <3>. QED  BY <1>1, <2>2, <3>1 DEF Turn
  <2>6. Reports'
    BY <1>1, <1>2, <1>4, <1>7 DEF Reports, plan
  <2>5. Stage'
    BY <1>1, <1>2, <1>7 DEF Stage, plan
  <2>4. Buffers' /\ Allowed'
    BY <1>1, <1>2, <1>4, <1>7 DEF Buffers, Allowed, InGap, panes, server
  <2>. QED  BY <1>3, <2>1, <2>3, <2>4, <2>5, <2>6 DEF RInv
<1>. QED  BY <1>6, <1>7

(* What a refused or failed guarded operation may report. *)
LEMMA RefusalIsEarned ==
  ASSUME RInv, pc \in {"guard", "dispatch"},
         NEW o \in {"ShellNotForeground", "GuardedOperationFailed", "MissingPane"}
  PROVE  o \in Outcome /\ Earned(action[current], o, ItemsOf(sent[current]))
<1>1. current \in Pane /\ current # None
  BY AtWork DEF Steps
<1>2. action[current] \in Action
  BY <1>1 DEF RInv, TypeOK
<1>3. o \in Outcome /\ PartialOutcome(o)
  BY DEF Outcome, Attention, PartialOutcome
<1>4. CASE sent[current] = <<>>
  BY <1>2, <1>3, <1>4, NothingIsPlanned DEF Earned
<1>5. CASE action[current] \in Launch /\ ItemsOf(sent[current]) = Submitted
  BY <1>3, <1>5 DEF Earned, PlannedInput, Launch, Submitted
<1>. QED  BY <1>1, <1>3, <1>4, <1>5 DEF RInv, Stage

(* The observation of a guarded operation: only a shell lets it go on. *)
LEMMA GuardKeeps == ASSUME RInv, Guard PROVE RInv'
<1>1. /\ pc = "guard" /\ current \in Pane /\ current # None /\ outcome[current] = None
      /\ UNCHANGED <<server, raced, sent>>
  BY AtWork DEF Guard, Steps
<1>2. TypeOK /\ Stage /\ Buffers
  BY DEF RInv
<1>3. CommandsMeetAShell' /\ InputReachesItsTarget'
  BY <1>1, NothingDelivered
<1>4. sent' \in [Pane -> Seq(Sent)] /\ raced' \in BOOLEAN /\ up' \in BOOLEAN /\ buffer' \subseteq Pane
  BY <1>1, <1>2 DEF TypeOK, server
<1>5. CASE Observed("shell") /\ Go("dispatch")
  <2>1. Stage' /\ Buffers' /\ Allowed'
    BY <1>1, <1>2, <1>5, GoType DEF Stage, Buffers, Allowed, InGap, Observed, server
  <2>. QED  BY <1>1, <1>3, <1>4, <1>5, <2>1, GoStep DEF Steps
<1>6. ASSUME NEW o \in {"ShellNotForeground", "GuardedOperationFailed", "MissingPane"},
             Report(o)
      PROVE  RInv'
  <2>1. o \in Outcome /\ Earned(action[current], o, ItemsOf(sent[current]))
    BY <1>1, <1>6, RefusalIsEarned
  <2>2. \A p \in buffer' : p \in buffer /\ p # current
    BY <1>1, <1>2, NoneIsNothing DEF Buffers, server, Outcome, PromptFailure
  <2>. QED  BY <1>1, <1>3, <1>4, <1>6, <2>1, <2>2, ReportStep
<1>. QED  BY <1>5, <1>6 DEF Guard


(* What a pane has got when a guarded operation sent some of its items. *)
LEMMA SentByDispatch ==
  ASSUME RInv, pc = "dispatch",
         NEW n \in 0 .. Len(Items(op)), Deliver(SubSeq(Items(op), 1, n))
  PROVE  /\ sent' \in [Pane -> Seq(Sent)]
         /\ \A p \in Pane : p # current => sent'[p] = sent[p]
         /\ \/ /\ op = OperationOf(action[current]) /\ action[current] # "NoInput"
               /\ ItemsOf(sent'[current]) \in {<<>>, <<"command">>, Submitted}
               /\ op # "launch" => ItemsOf(sent'[current]) # Submitted
               /\ op = "verify" => ItemsOf(sent'[current]) = <<>>
               /\ n = Len(Items(op)) => ItemsOf(sent'[current]) = Items(op)
            \/ /\ op = "fallback" /\ action[current] \in Launch
               /\ ItemsOf(sent'[current]) \in {Submitted, <<"command", "Enter", "command">>}
<1> DEFINE items == SubSeq(Items(op), 1, n)
<1>1. current \in Pane /\ current # None /\ TypeOK
  BY AtWork DEF Steps, RInv
<1>2. /\ items \in {<<>>, <<"command">>, Submitted}
      /\ items = Submitted => op = "launch"
      /\ op = "verify" => items = <<>>
      /\ n = Len(Items(op)) => items = Items(op)
  BY ItemPrefixes
<1> HIDE DEF items
<1>3. items \in Seq(Item)
  BY <1>2, ItemSequences
<1>4. /\ sent' \in [Pane -> Seq(Sent)]
      /\ \A p \in Pane : p # current => sent'[p] = sent[p]
      /\ ItemsOf(sent'[current]) = ItemsOf(sent[current]) \o items
  BY <1>1, <1>3, Delivered DEF items
<1>5. CASE sent[current] = <<>> /\ op = OperationOf(action[current])
           /\ action[current] # "NoInput"
  <2>1. ItemsOf(sent[current]) = <<>>
    BY <1>1, <1>5, NothingIsPlanned DEF TypeOK
  <2>2. ItemsOf(sent'[current]) = items
    BY <1>3, <1>4, <2>1, ConcatEmptySeq
  <2>. QED  BY <1>2, <1>4, <1>5, <2>2
<1>6. CASE op = "fallback" /\ action[current] \in Launch
           /\ ItemsOf(sent[current]) = Submitted
  <2>1. ItemsOf(sent'[current]) = Submitted \o items /\ items \in {<<>>, <<"command">>}
    BY <1>2, <1>4, <1>6
  <2>2. Submitted \o <<>> = Submitted /\ Submitted \o <<"command">> = <<"command", "Enter", "command">>
    BY ItemSequences
  <2>. QED  BY <1>4, <1>6, <2>1, <2>2
<1>. QED  BY <1>1, <1>5, <1>6 DEF RInv, Stage

(* The conditional of a guarded operation: whatever part of its list took effect,
   and whether or not the reply arrived, the report claims no more. *)
LEMMA DispatchKeeps == ASSUME RInv, Dispatch PROVE RInv'
<1>1. /\ pc = "dispatch" /\ current \in Pane /\ current # None /\ outcome[current] = None
      /\ raced' = FALSE /\ UNCHANGED server
  BY AtWork DEF Dispatch, Steps
<1>2. TypeOK /\ Stage /\ Buffers /\ Allowed
  BY DEF RInv
<1>3. raced' \in BOOLEAN /\ up' \in BOOLEAN /\ buffer' \subseteq Pane
  BY <1>1, <1>2 DEF TypeOK, server
<1>4. \A p \in buffer' : p \in buffer /\ p # current
  BY <1>1, <1>2, NoneIsNothing DEF Buffers, server, Outcome, PromptFailure
<1>5. action[current] \in Action
  BY <1>1, <1>2 DEF TypeOK
<1>6. ASSUME NEW o \in {"ShellNotForeground", "GuardedOperationFailed"}, Report(o),
             UNCHANGED sent
      PROVE  RInv'
  <2>1. o \in Outcome /\ Earned(action[current], o, ItemsOf(sent[current]))
    BY <1>1, RefusalIsEarned
  <2>2. CommandsMeetAShell' /\ InputReachesItsTarget' /\ sent' \in [Pane -> Seq(Sent)]
    BY <1>2, <1>6, NothingDelivered DEF TypeOK
  <2>. QED  BY <1>1, <1>3, <1>4, <1>6, <2>1, <2>2, ReportStep
<1>7. ASSUME There, ShellCondition, NEW n \in 0 .. Len(Items(op)),
             Deliver(SubSeq(Items(op), 1, n)),
             (n = Len(Items(op)) /\ Succeeded) \/ Report(LostReply)
      PROVE  RInv'
  <2>1. /\ sent' \in [Pane -> Seq(Sent)]
        /\ \A p \in Pane : p # current => sent'[p] = sent[p]
    BY <1>1, <1>7, SentByDispatch
  <2>2. CommandsMeetAShell' /\ InputReachesItsTarget'
    <3>1. SubSeq(Items(op), 1, n) \in {<<>>, <<"command">>, Submitted}
      BY ItemPrefixes
    <3>2. /\ SubSeq(Items(op), 1, n) \in Seq(Item)
          /\ \A j \in 1 .. Len(SubSeq(Items(op), 1, n)) : SubSeq(Items(op), 1, n)[j] # "prompt"
      BY <3>1, ItemSequences
    <3>3. fg \in {"shell", "alike"} /\ (~raced => fg = "shell")
      BY <1>1, <1>2, <1>7 DEF ShellCondition, Allowed, InGap
    <3>. QED  BY <1>1, <1>7, <3>2, <3>3, DeliveredMeets
  <2>3. ASSUME NEW o \in Outcome, Report(o),
               Earned(action[current], o, ItemsOf(sent'[current]))
        PROVE  RInv'
    BY <1>1, <1>3, <1>4, <2>1, <2>2, <2>3, ReportStep
  <2>4. CASE Report(LostReply)
    <3>1. Earned(action[current], "GuardedOperationFailed", ItemsOf(sent'[current]))
      BY <1>1, <1>5, <1>7, SentByDispatch
         DEF Earned, PlannedInput, PartialOutcome, Attention, Launch, Submitted,
             OperationOf, Action
    <3>. QED  BY <2>3, <2>4, <3>1 DEF LostReply, Outcome, Attention
  <2>5. CASE n = Len(Items(op)) /\ Succeeded /\ op = "verify"
    <3>1. Report("RestoredIdleShell") /\ Items(op) = <<>>
      BY <2>5 DEF Succeeded, Items
    <3>2. Earned(action[current], "RestoredIdleShell", ItemsOf(sent'[current]))
      <4>1. action[current] = "LeaveIdle" /\ ItemsOf(sent'[current]) = <<>>
        BY <1>1, <1>5, <1>7, <2>5, <3>1, SentByDispatch DEF OperationOf, Launch, Action
      <4>. QED  BY <4>1 DEF Earned, PlannedInput, WholeInput, Launch
    <3>. QED  BY <2>3, <3>1, <3>2 DEF Outcome, Success
  <2>6. CASE n = Len(Items(op)) /\ Succeeded /\ op = "paste"
    <3>1. /\ action[current] \in {"PasteManualHint", "PasteAutomaticFallback"}
          /\ ItemsOf(sent'[current]) = <<"command">>
      <4>1. Items(op) = <<"command">>
        BY <2>6 DEF Items
      <4>. QED  BY <1>1, <1>5, <1>7, <2>6, <4>1, SentByDispatch DEF OperationOf, Launch, Action
    <3>2. CASE action[current] = "PasteManualHint"
      <4>1. Report("PreparedManualHint")
        BY <2>6, <3>2 DEF Succeeded
      <4>2. Earned(action[current], "PreparedManualHint", ItemsOf(sent'[current]))
        BY <3>1, <3>2 DEF Earned, PlannedInput, WholeInput, Launch
      <4>. QED  BY <2>3, <4>1, <4>2 DEF Outcome, Success
    <3>3. CASE action[current] = "PasteAutomaticFallback"
      <4>1. Report("PreparedAutomaticFallbackHint")
        BY <2>6, <3>3 DEF Succeeded
      <4>2. Earned(action[current], "PreparedAutomaticFallbackHint", ItemsOf(sent'[current]))
        BY <3>1, <3>3 DEF Earned, PlannedInput, PartialOutcome, Launch
      <4>. QED  BY <2>3, <4>1, <4>2 DEF Outcome, Success
    <3>. QED  BY <3>1, <3>2, <3>3
  <2>7. CASE n = Len(Items(op)) /\ Succeeded /\ op = "fallback"
    <3>1. Report("AutomaticLaunchFailedHintPrepared")
      BY <2>7 DEF Succeeded
    <3>2. /\ action[current] \in Launch
          /\ ItemsOf(sent'[current]) \in {Submitted, <<"command", "Enter", "command">>}
      BY <1>1, <1>5, <1>7, <2>7, SentByDispatch DEF OperationOf
    <3>3. Earned(action[current], "AutomaticLaunchFailedHintPrepared", ItemsOf(sent'[current]))
      BY <3>2 DEF Earned, PlannedInput, PartialOutcome, Launch, Submitted
    <3>. QED  BY <2>3, <3>1, <3>3 DEF Outcome, Success
  <2>8. CASE n = Len(Items(op)) /\ Succeeded /\ op = "launch"
    <3>1. /\ pc' = "settle" /\ tries' = Settle - 1 /\ unread' = TRUE
          /\ UNCHANGED <<plan, current, op, outcome, end, exists, fg, inputOff, changes>>
      BY <2>8 DEF Succeeded
    <3>2. action[current] \in Launch /\ ItemsOf(sent'[current]) = Submitted
      <4>1. Items(op) = Submitted
        BY <2>8 DEF Items, Submitted
      <4>. QED  BY <1>1, <1>5, <1>7, <2>8, <4>1, SentByDispatch DEF OperationOf, Launch, Action
    <3>3. TypeOK'
      BY <1>1, <1>2, <1>3, <2>1, <2>8, <3>1, SettleIsPositive DEF TypeOK, plan, end, server
    <3>4. Stage' /\ Buffers' /\ Allowed'
      BY <1>1, <1>2, <2>8, <3>1, <3>2
         DEF Stage, Buffers, Allowed, InGap, plan, server
    <3>. QED  BY <1>1, <2>1, <2>2, <3>1, <3>3, <3>4, ContinueStep DEF Steps, plan
  <2>9. op \in {"verify", "paste", "launch", "fallback"}
    BY <1>2 DEF TypeOK
  <2>. QED  BY <1>7, <2>4, <2>5, <2>6, <2>7, <2>8, <2>9
<1>. QED  BY <1>6, <1>7 DEF Dispatch


(* Settling: what it reports, and the fallback it may lead to. *)
LEMMA SettlingKeeps == ASSUME RInv, Settling PROVE RInv'
<1>1. /\ pc = "settle" /\ current \in Pane /\ current # None /\ outcome[current] = None
      /\ UNCHANGED <<server, raced, sent>>
  BY AtWork DEF Settling, Steps
<1>2. TypeOK /\ Stage /\ Buffers
  BY DEF RInv
<1>3. /\ op = "launch" /\ action[current] \in Launch
      /\ ItemsOf(sent[current]) = Submitted
  BY <1>1, <1>2 DEF Stage
<1>4. /\ CommandsMeetAShell' /\ InputReachesItsTarget' /\ sent' \in [Pane -> Seq(Sent)]
      /\ raced' \in BOOLEAN /\ up' \in BOOLEAN /\ buffer' \subseteq Pane
  BY <1>1, <1>2, NothingDelivered DEF TypeOK, server
<1>5. \A p \in buffer' : p \in buffer /\ p # current
  BY <1>1, <1>2, NoneIsNothing DEF Buffers, server, Outcome, PromptFailure
<1>6. ASSUME NEW o \in Outcome, Report(o),
             \/ o \in {"MissingPane", "UnexpectedForeground", "AutomaticObservationFailed"}
             \/ o = "RecoveredAutomatically" /\ action[current] = "LaunchAutomatic"
      PROVE  RInv'
  <2>1. Earned(action[current], o, ItemsOf(sent[current]))
    BY <1>3, <1>6
       DEF Earned, PlannedInput, PartialOutcome, Attention, WholeInput, Launch, Submitted
  <2>. QED  BY <1>1, <1>4, <1>5, <1>6, <2>1, ReportStep
<1>7. CASE Observed("expected") /\ action[current] = "LaunchWithPrompt" /\ Go("fresh")
  <2>1. Stage' /\ Buffers' /\ Allowed'
    BY <1>1, <1>2, <1>3, <1>7, GoType DEF Stage, Buffers, Allowed, InGap, server
  <2>. QED  BY <1>1, <1>4, <1>7, <2>1, GoStep DEF Steps
<1>8. CASE Observed("expected") /\ action[current] # "LaunchWithPrompt"
           /\ Report("RecoveredAutomatically")
  BY <1>3, <1>6, <1>8 DEF Launch, Outcome, Success
<1>9. CASE ObserveAgain
  <2>1. /\ tries' = tries - 1 /\ tries > 0
        /\ UNCHANGED <<plan, pc, current, op, outcome, end, pane>>
    BY <1>9 DEF ObserveAgain
  <2>2. TypeOK'
    <3>1. tries' \in 0 .. Settle
      BY <1>2, <2>1, SettleIsPositive DEF TypeOK
    <3>. QED  BY <1>1, <1>2, <1>4, <2>1, <3>1 DEF TypeOK, plan, end, pane
  <2>3. Stage' /\ Buffers' /\ Allowed'
    BY <1>1, <1>2, <1>3, <2>1 DEF Stage, Buffers, Allowed, InGap, plan, server
  <2>. QED  BY <1>1, <1>4, <2>1, <2>2, <2>3, ContinueStep DEF Steps, plan
<1>10. CASE /\ Observed("shell") /\ tries = 0
            /\ op' = "fallback" /\ pc' = "guard"
            /\ UNCHANGED <<plan, current, tries, outcome, end, pane>>
  <2>1. TypeOK'
    BY <1>1, <1>2, <1>4, <1>10 DEF TypeOK, plan, end, pane
  <2>2. Stage' /\ Buffers' /\ Allowed'
    BY <1>1, <1>2, <1>3, <1>10 DEF Stage, Buffers, Allowed, InGap, plan, server
  <2>. QED  BY <1>1, <1>4, <1>10, <2>1, <2>2, ContinueStep DEF Steps, plan
<1>11. CASE Report("MissingPane")
  BY <1>6, <1>11 DEF Outcome, Attention
<1>12. CASE Conclude("UnexpectedForeground")
  BY <1>6, <1>12 DEF Conclude, Outcome, Attention
<1>13. CASE Conclude("AutomaticObservationFailed")
  BY <1>6, <1>13 DEF Conclude, Outcome, Attention
<1>. QED  BY <1>7, <1>8, <1>9, <1>10, <1>11, <1>12, <1>13 DEF Settling

(* What a draft that was not pasted may report. *)
LEMMA PromptFailureIsEarned ==
  ASSUME NEW o \in PromptFailure,
         o \in {"PasteFailed", "CleanupFailed"} \/ ItemsOf(sent'[current]) = Submitted,
         ItemsOf(sent'[current]) \in {Submitted, WithPrompt},
         action[current] = "LaunchWithPrompt"
  PROVE  o \in Outcome /\ Earned(action[current], o, ItemsOf(sent'[current]))
BY DEF PromptFailure, Outcome, Earned, PlannedInput, PartialOutcome, Launch,
       Submitted, WithPrompt

(* The fresh observation before the prompt. *)
LEMMA FreshObservationKeeps == ASSUME RInv, FreshObservation PROVE RInv'
<1>1. /\ pc = "fresh" /\ current \in Pane /\ current # None /\ outcome[current] = None
      /\ UNCHANGED <<server, raced, sent>>
  BY AtWork DEF FreshObservation, Steps
<1>2. TypeOK /\ Stage /\ Buffers
  BY DEF RInv
<1>3. action[current] = "LaunchWithPrompt" /\ ItemsOf(sent[current]) = Submitted
  BY <1>1, <1>2 DEF Stage
<1>4. /\ CommandsMeetAShell' /\ InputReachesItsTarget' /\ sent' \in [Pane -> Seq(Sent)]
      /\ raced' \in BOOLEAN /\ up' \in BOOLEAN /\ buffer' \subseteq Pane
  BY <1>1, <1>2, NothingDelivered DEF TypeOK, server
<1>5. \A p \in buffer' : p \in buffer /\ p # current
  BY <1>1, <1>2, NoneIsNothing DEF Buffers, server, Outcome, PromptFailure
<1>6. CASE Observed("expected") /\ Go("prompt")
  <2>1. Stage' /\ Buffers' /\ Allowed'
    BY <1>1, <1>2, <1>3, <1>6, GoType DEF Stage, Buffers, Allowed, InGap, Observed, server
  <2>. QED  BY <1>1, <1>4, <1>6, <2>1, GoStep DEF Steps
<1>7. ASSUME NEW o \in {"SessionMismatch", "PasteFailed", "PaneMissing"}, Report(o)
      PROVE  RInv'
  <2>1. o \in Outcome /\ Earned(action[current], o, ItemsOf(sent'[current]))
    BY <1>1, <1>3, PromptFailureIsEarned DEF PromptFailure
  <2>. QED  BY <1>1, <1>4, <1>5, <1>7, <2>1, ReportStep
<1>. QED  BY <1>6, <1>7 DEF FreshObservation


(* The conditional that pastes the prompt: a reply that was lost leads to the
   clean-up, so that nothing is claimed about a buffer that may be there. *)
LEMMA PromptDispatchKeeps == ASSUME RInv, PromptDispatch PROVE RInv'
<1>1. /\ pc = "prompt" /\ current \in Pane /\ current # None /\ outcome[current] = None
      /\ raced' = FALSE /\ up' = up
  BY AtWork DEF PromptDispatch, Steps
<1>2. TypeOK /\ Stage /\ Buffers /\ Allowed
  BY DEF RInv
<1>3. action[current] = "LaunchWithPrompt" /\ ItemsOf(sent[current]) = Submitted
  BY <1>1, <1>2 DEF Stage
<1>4. raced' \in BOOLEAN /\ up' \in BOOLEAN
  BY <1>1, <1>2 DEF TypeOK
<1>5. \A p \in buffer : p # current
  BY <1>1, <1>2, NoneIsNothing DEF Buffers, Outcome, PromptFailure
<1>6. CASE /\ There /\ RunningCondition
           /\ Deliver(<<"prompt">>)
           /\ \/ Report("RecoveredAutomaticallyWithPromptPrepared")
              \/ PromptFailed
           /\ UNCHANGED buffer
  <2>1. /\ <<"prompt">> \in Seq(Item) /\ Len(<<"prompt">>) = 1
        /\ \A j \in 1 .. Len(<<"prompt">>) : <<"prompt">>[j] = "prompt"
    BY DEF Item
  <2>2. /\ sent' \in [Pane -> Seq(Sent)]
        /\ \A p \in Pane : p # current => sent'[p] = sent[p]
        /\ ItemsOf(sent'[current]) = ItemsOf(sent[current]) \o <<"prompt">>
    BY <1>1, <1>2, <1>6, <2>1, Delivered
  <2>3. ItemsOf(sent'[current]) = WithPrompt
    <3>1. Submitted \o <<"prompt">> = WithPrompt
      BY ItemSequences
    <3>. QED  BY <1>3, <2>2, <3>1
  <2>4. CommandsMeetAShell' /\ InputReachesItsTarget'
    <3>1. ~raced => fg = "expected"
      BY <1>1, <1>2 DEF Allowed, InGap
    <3>. QED  BY <1>1, <1>6, <2>1, <3>1, DeliveredMeets
  <2>5. buffer' \subseteq Pane /\ \A p \in buffer' : p \in buffer /\ p # current
    BY <1>2, <1>5, <1>6 DEF TypeOK
  <2>6. CASE Report("RecoveredAutomaticallyWithPromptPrepared")
    <3>1. Earned(action[current], "RecoveredAutomaticallyWithPromptPrepared",
                 ItemsOf(sent'[current]))
      BY <1>3, <2>3 DEF Earned, PlannedInput, WholeInput, Launch, WithPrompt
    <3>2. "RecoveredAutomaticallyWithPromptPrepared" \in Outcome
      BY DEF Outcome, Success
    <3>. QED  BY <1>1, <1>4, <2>2, <2>4, <2>5, <2>6, <3>1, <3>2, ReportStep
  <2>7. CASE PromptFailed
    <3>1. Go("cleanup")
      BY <2>7 DEF PromptFailed
    <3>2. Stage' /\ Buffers' /\ Allowed'
      BY <1>1, <1>2, <1>3, <2>3, <2>5, <3>1, GoType DEF Stage, Buffers, Allowed, InGap
    <3>. QED  BY <1>1, <1>4, <2>2, <2>4, <2>5, <3>1, <3>2, GoStep DEF Steps
  <2>. QED  BY <1>6, <2>6, <2>7
<1>7. ASSUME UNCHANGED sent PROVE /\ CommandsMeetAShell' /\ InputReachesItsTarget'
                                  /\ sent' \in [Pane -> Seq(Sent)]
  BY <1>2, <1>7, NothingDelivered DEF TypeOK
<1>8. ASSUME PromptFailed, UNCHANGED sent, buffer' \subseteq buffer \cup {current}
      PROVE  RInv'
  <2>1. Go("cleanup")
    BY <1>8 DEF PromptFailed
  <2>2. Stage' /\ Buffers' /\ Allowed'
    BY <1>1, <1>2, <1>3, <1>8, <2>1, GoType DEF Stage, Buffers, Allowed, InGap
  <2>3. buffer' \subseteq Pane
    BY <1>1, <1>2, <1>8 DEF TypeOK
  <2>. QED  BY <1>1, <1>4, <1>7, <1>8, <2>1, <2>2, <2>3, GoStep DEF Steps
<1>9. CASE Report("PasteFailed") /\ UNCHANGED <<sent, buffer>>
  <2>1. "PasteFailed" \in Outcome
        /\ Earned(action[current], "PasteFailed", ItemsOf(sent'[current]))
    BY <1>3, <1>9, PromptFailureIsEarned DEF PromptFailure
  <2>2. buffer' \subseteq Pane /\ \A p \in buffer' : p \in buffer /\ p # current
    BY <1>2, <1>5, <1>9 DEF TypeOK
  <2>. QED  BY <1>1, <1>4, <1>7, <1>9, <2>1, <2>2, ReportStep
<1>10. CASE Go("classify") /\ UNCHANGED <<sent, buffer>>
  <2>1. Stage' /\ Buffers' /\ Allowed' /\ buffer' \subseteq Pane
    BY <1>1, <1>2, <1>3, <1>10, GoType DEF Stage, Buffers, Allowed, InGap, TypeOK
  <2>. QED  BY <1>1, <1>4, <1>7, <1>10, <2>1, GoStep DEF Steps
<1>. QED  BY <1>6, <1>8, <1>9, <1>10 DEF PromptDispatch

(* The reasons given for a prompt that was refused. *)
LEMMA ClassifyBlockedKeeps == ASSUME RInv, ClassifyBlocked PROVE RInv'
<1>1. /\ pc = "classify" /\ current \in Pane /\ current # None /\ outcome[current] = None
      /\ UNCHANGED <<server, raced, sent>>
  BY AtWork DEF ClassifyBlocked, Steps
<1>2. TypeOK /\ Stage /\ Buffers
  BY DEF RInv
<1>3. action[current] = "LaunchWithPrompt" /\ ItemsOf(sent[current]) = Submitted
  BY <1>1, <1>2 DEF Stage
<1>4. /\ CommandsMeetAShell' /\ InputReachesItsTarget' /\ sent' \in [Pane -> Seq(Sent)]
      /\ raced' \in BOOLEAN /\ up' \in BOOLEAN /\ buffer' \subseteq Pane
  BY <1>1, <1>2, NothingDelivered DEF TypeOK, server
<1>5. \A p \in buffer' : p \in buffer /\ p # current
  BY <1>1, <1>2, NoneIsNothing DEF Buffers, server, Outcome, PromptFailure
<1>6. ASSUME NEW o \in {"PaneMissing", "InputDisabled", "PasteFailed"}, Report(o)
      PROVE  RInv'
  <2>1. o \in Outcome /\ Earned(action[current], o, ItemsOf(sent'[current]))
    BY <1>1, <1>3, PromptFailureIsEarned DEF PromptFailure
  <2>. QED  BY <1>1, <1>4, <1>5, <1>6, <2>1, ReportStep
<1>. QED  BY <1>6 DEF ClassifyBlocked

(* The clean-up of the prompt buffer: it is deleted, or the failure reported. *)
LEMMA CleanUpBufferKeeps == ASSUME RInv, CleanUpBuffer PROVE RInv'
<1>1. /\ pc = "cleanup" /\ current \in Pane /\ current # None /\ outcome[current] = None
      /\ UNCHANGED <<up, raced, sent>>
  BY AtWork DEF CleanUpBuffer, Steps
<1>2. TypeOK /\ Stage
  BY DEF RInv
<1>3. action[current] = "LaunchWithPrompt" /\ ItemsOf(sent[current]) \in {Submitted, WithPrompt}
  BY <1>1, <1>2 DEF Stage
<1>4. /\ CommandsMeetAShell' /\ InputReachesItsTarget' /\ sent' \in [Pane -> Seq(Sent)]
      /\ raced' \in BOOLEAN /\ up' \in BOOLEAN
  BY <1>1, <1>2, NothingDelivered DEF TypeOK
<1>5. /\ \/ buffer' = buffer \ {current}
         \/ buffer' = buffer /\ Report("CleanupFailed")
      /\ Report("PasteFailed") \/ Report("CleanupFailed")
  BY DEF CleanUpBuffer
<1>6. buffer' \subseteq Pane
  BY <1>2, <1>5 DEF TypeOK
<1>7. ASSUME NEW o \in {"PasteFailed", "CleanupFailed"}, Report(o),
             o = "CleanupFailed" \/ buffer' = buffer \ {current}
      PROVE  RInv'
  <2>1. o \in Outcome /\ Earned(action[current], o, ItemsOf(sent'[current]))
    BY <1>1, <1>3, PromptFailureIsEarned DEF PromptFailure
  <2>2. \A p \in buffer' : IF p = current THEN o = "CleanupFailed" ELSE p \in buffer
    BY <1>5, <1>7
  <2>. QED  BY <1>1, <1>4, <1>6, <1>7, <2>1, <2>2, ReportStep
<1>. QED  BY <1>5, <1>7

(* The end of the recovery changes nothing that was reported. *)
LEMMA FinishKeeps == ASSUME RInv, Finish PROVE RInv'
<1>1. /\ pc = "next" /\ pc' = "done" /\ current' = current /\ outcome' = outcome
      /\ UNCHANGED <<plan, op, tries, panes, raced, sent>>
      /\ disposition' \in {"Retained", "Missing", "Unknown"}
      /\ status' \in {"Partial", "Complete"}
  BY DEF Finish
<1>2. TypeOK /\ Turn /\ Stage /\ Reports /\ Buffers
  BY DEF RInv
<1>3. TypeOK'
  BY <1>1, <1>2 DEF TypeOK, plan, panes, pane, server, TargetState
<1>4. Turn' /\ Stage' /\ Reports' /\ Buffers' /\ Allowed'
  BY <1>1, <1>2 DEF Turn, Stage, Reports, Buffers, Allowed, InGap, plan, panes, server
<1>. QED  BY <1>1, <1>3, <1>4, NothingDelivered DEF RInv

----------------------------------------------------------------------------
(* The recovery as a whole.                                                *)

(* The executor, step by step. *)
LEMMA ExecuteKeeps == ASSUME RInv, Execute PROVE RInv'
BY NextPaneKeeps, GuardKeeps, DispatchKeeps, SettlingKeeps, FreshObservationKeeps,
   PromptDispatchKeeps, ClassifyBlockedKeeps, CleanUpBufferKeeps, FinishKeeps DEF Execute

(* Whatever the panes do, only the foreground matters to the executor, and a   *)
(* change of it between an observation and its conditional is recorded.        *)
LEMMA OthersKeep == ASSUME RInv, Others PROVE RInv'
<1>1. TypeOK /\ Turn /\ Stage /\ Reports /\ Buffers /\ Allowed
  BY DEF RInv
<1>2. UNCHANGED <<executor, sent>> /\ buffer' \subseteq buffer
  BY DEF Others, Read, ForegroundChanges, InputToggled, PaneCloses, ServerGone, server
<1>3. \/ fg' = fg /\ raced' = raced
      \/ fg' \in Foreground /\ raced' = (raced \/ InGap)
  BY DEF Others, Read, ForegroundChanges, InputToggled, PaneCloses, ServerGone, pane,
         Races, Foreground
<1>4. /\ up' \in BOOLEAN /\ exists' \in BOOLEAN /\ inputOff' \in BOOLEAN
      /\ unread' \in BOOLEAN /\ changes' \in 0 .. MaxChanges
  <2>1. CASE Read
    BY <1>1, <2>1 DEF Read, TypeOK, server
  <2>2. ASSUME Change PROVE changes' \in 0 .. MaxChanges
    BY <1>1, <2>2, MaxChangesIsNat DEF Change, TypeOK
  <2>3. CASE ForegroundChanges \/ InputToggled \/ PaneCloses
    BY <1>1, <2>2, <2>3 DEF ForegroundChanges, InputToggled, PaneCloses, TypeOK, server
  <2>4. CASE ServerGone
    BY <1>1, <2>4 DEF ServerGone, TypeOK, pane
  <2>. QED  BY <2>1, <2>3, <2>4 DEF Others
<1>5. fg' \in Foreground /\ raced' \in BOOLEAN
  BY <1>1, <1>3 DEF TypeOK, InGap
<1>6. TypeOK'
  BY <1>1, <1>2, <1>4, <1>5 DEF TypeOK, executor, plan, end
<1>7. Turn' /\ Stage' /\ Reports' /\ Buffers'
  BY <1>1, <1>2 DEF Turn, Stage, Reports, Buffers, executor, plan
<1>8. Allowed'
  BY <1>1, <1>2, <1>3 DEF Allowed, InGap, executor
<1>9. CommandsMeetAShell' /\ InputReachesItsTarget'
  BY <1>2, NothingDelivered
<1>. QED  BY <1>6, <1>7, <1>8, <1>9 DEF RInv

\* What the plan's degradations say of it.
PlanFacts ==
  /\ ~degraded => found /\ \A p \in Pane : action[p] # "PasteAutomaticFallback"
  /\ degraded => ~found \/ \E p \in Pane : action[p] = "PasteAutomaticFallback"

(* A plan without degradations leaves nothing out. *)
LEMMA PlanIsTold ==
  ASSUME Planned
  PROVE  /\ action \in [Pane -> Action] /\ degraded \in BOOLEAN /\ found \in BOOLEAN
         /\ PlanFacts
<1>1. PICK recorded \in [Pane -> Recorded], machine \in Environment :
        /\ action = Plan(recorded, machine)
        /\ degraded = Degraded(recorded, machine)
        /\ found = (/\ machine.sessions
                    /\ \A p \in Pane : /\ machine.directory[p]
                                       /\ recorded[p] \in {"Automatic", "Draft"} =>
                                            machine.executable[p])
  BY DEF Planned
<1>2. \A p \in Pane : action[p] = PlanPane(recorded[p], machine, p)
  BY <1>1 DEF Plan
<1>3. action \in [Pane -> Action]
  <2>1. \A p \in Pane : PlanPane(recorded[p], machine, p) \in Action
    BY DEF PlanPane, Action
  <2>. QED  BY <1>1, <2>1 DEF Plan
<1>4. degraded \in BOOLEAN /\ found \in BOOLEAN
  BY <1>1 DEF Degraded, Environment
<1>5. ASSUME NEW p \in Pane, recorded[p] \in {"Automatic", "Draft"},
             ~machine.directory[p] \/ ~machine.executable[p]
      PROVE  action[p] = "PasteAutomaticFallback"
  BY <1>2, <1>5 DEF PlanPane
<1>6. ASSUME ~degraded
      PROVE  found /\ \A p \in Pane : action[p] # "PasteAutomaticFallback"
  <2>1. /\ machine.sessions
        /\ \A p \in Pane : machine.directory[p] /\ action[p] # "PasteAutomaticFallback"
    BY <1>1, <1>2, <1>6 DEF Degraded
  <2>. QED  BY <1>1, <1>5, <2>1
<1>7. ASSUME degraded
      PROVE  ~found \/ \E p \in Pane : action[p] = "PasteAutomaticFallback"
  BY <1>1, <1>2, <1>7 DEF Degraded
<1>. QED  BY <1>3, <1>4, <1>6, <1>7 DEF PlanFacts

(* The recovery begins with a plan, and nothing sent. *)
LEMMA RecoveryStarts == ASSUME RecoveryInit PROVE RInv /\ PlanFacts /\ NothingSent
<1>1. /\ action \in [Pane -> Action] /\ degraded \in BOOLEAN /\ found \in BOOLEAN
      /\ PlanFacts
  BY PlanIsTold DEF RecoveryInit
<1>2. /\ pc = "next" /\ current = None /\ op = "verify" /\ tries = 0 /\ buffer = {}
      /\ outcome = [p \in Pane |-> None] /\ sent = [p \in Pane |-> <<>>]
      /\ disposition = None /\ status = "running" /\ raced = FALSE /\ up = TRUE
      /\ exists = TRUE /\ fg = "shell" /\ inputOff = FALSE /\ unread = FALSE
      /\ changes = 0
  BY DEF RecoveryInit
<1>3. /\ \A p \in Pane : outcome[p] = None /\ sent[p] = <<>> /\ Len(sent[p]) = 0
      /\ sent \in [Pane -> Seq(Sent)] /\ outcome \in [Pane -> Outcome \cup {None}]
  BY <1>2
<1>4. TypeOK
  <2>1. 0 \in 0 .. Settle /\ 0 \in 0 .. MaxChanges
    BY SettleIsPositive, MaxChangesIsNat
  <2>. QED  BY <1>1, <1>2, <1>3, <2>1 DEF TypeOK, Foreground
<1>5. Turn /\ Stage /\ Reports /\ Buffers /\ Allowed
  BY <1>2, <1>3 DEF Turn, Stage, Reports, Buffers, Allowed, InGap
<1>6. CommandsMeetAShell /\ InputReachesItsTarget
  BY <1>3 DEF CommandsMeetAShell, InputReachesItsTarget
<1>. QED  BY <1>1, <1>3, <1>4, <1>5, <1>6 DEF RInv, NothingSent
----------------------------------------------------------------------------
(* The invariant of the command around the recovery, in parts.             *)

\* The exit code is there when the command is over, and nothing executes without
\* --run, before the plan is out, or after a write that failed.
Phases ==
  /\ exit = None <=> phase # "exited"
  /\ phase = "prepare" => output = {}
  /\ phase \in {"announce", "establish", "recover", "report"} =>
       /\ run /\ ~lost /\ <<"plan">> \in output
       /\ output \subseteq {<<"plan">>, <<"executing">>}
  /\ phase \in {"prepare", "unestablished", "announce", "establish"} => NothingSent

\* Nothing has been reported as it is not: what the result says of the plan.
ResultIsEarned ==
  phase = "report" =>
    /\ result \in {"Complete", "Partial", "Fatal"} /\ disposition \in TargetState
    /\ result = "Fatal" => NothingSent
    /\ result = "Complete" => disposition = "Retained" /\ EverythingDone
    /\ result = "Partial" =>
         /\ \A p \in Pane : outcome[p] # None
         /\ \/ ~EverythingDone \/ disposition # "Retained"
            \/ \E p \in Pane : PartialOutcome(outcome[p])

CInv ==
  /\ CommandTypeOK /\ RInv /\ PlanFacts /\ Phases /\ ResultIsEarned
  /\ ExitCodeIsHonest

(* The loop over the panes ends with Finish. *)
LEMMA OnlyFinishEnds == ASSUME RInv, Execute, pc' = "done" PROVE Finish
<1>1. ASSUME NextPane PROVE FALSE
  BY <1>1 DEF NextPane
<1>2. ASSUME Guard PROVE FALSE
  BY <1>2 DEF Guard, Go, Report
<1>3. ASSUME Dispatch PROVE FALSE
  <2>1. \/ \E o \in Outcome : Report(o)
        \/ Succeeded /\ op = "launch"
    <3>1. op \in {"verify", "paste", "launch", "fallback"}
      BY DEF RInv, TypeOK
    <3>. QED  BY <1>3, <3>1 DEF Dispatch, Succeeded, LostReply, Outcome, Attention, Success
  <2>. QED  BY <2>1 DEF Report, Succeeded
<1>4. ASSUME Settling PROVE FALSE
  BY <1>4 DEF Settling, Go, Report, Conclude, ObserveAgain
<1>5. ASSUME FreshObservation \/ ClassifyBlocked \/ CleanUpBuffer PROVE FALSE
  BY <1>5 DEF FreshObservation, ClassifyBlocked, CleanUpBuffer, Go, Report
<1>6. ASSUME PromptDispatch PROVE FALSE
  BY <1>6 DEF PromptDispatch, PromptFailed, Go, Report
<1>. QED  BY <1>1, <1>2, <1>3, <1>4, <1>5, <1>6 DEF Execute

(* Every step keeps the plan. *)
LEMMA PlanIsKept == ASSUME RInv, Execute \/ Others PROVE UNCHANGED plan
<1>1. ASSUME NextPane \/ Guard \/ FreshObservation \/ ClassifyBlocked \/ CleanUpBuffer
             \/ Finish
      PROVE  UNCHANGED plan
  BY <1>1 DEF NextPane, Guard, FreshObservation, ClassifyBlocked, CleanUpBuffer, Finish,
              Go, Report
<1>2. ASSUME Settling PROVE UNCHANGED plan
  BY <1>2 DEF Settling, Go, Report, Conclude, ObserveAgain
<1>3. ASSUME PromptDispatch PROVE UNCHANGED plan
  BY <1>3 DEF PromptDispatch, PromptFailed, Go, Report
<1>4. ASSUME Dispatch PROVE UNCHANGED plan
  <2>1. \/ \E o \in Outcome : Report(o)
        \/ Succeeded /\ op = "launch"
    <3>1. op \in {"verify", "paste", "launch", "fallback"}
      BY DEF RInv, TypeOK
    <3>. QED  BY <1>4, <3>1 DEF Dispatch, Succeeded, LostReply, Outcome, Attention, Success
  <2>. QED  BY <2>1 DEF Report, Succeeded
<1>5. ASSUME Others PROVE UNCHANGED plan
  BY <1>5 DEF Others, Read, ForegroundChanges, InputToggled, PaneCloses, ServerGone, executor
<1>. QED  BY <1>1, <1>2, <1>3, <1>4, <1>5 DEF Execute

(* The status of a recovery that is over says what was done. *)
LEMMA StatusIsEarned ==
  ASSUME RInv, PlanFacts, Finish
  PROVE  /\ status' \in {"Complete", "Partial"} /\ disposition' \in TargetState
         /\ status' = "Complete" => disposition' = "Retained" /\ EverythingDone'
         /\ status' = "Partial" =>
              /\ \A p \in Pane : outcome'[p] # None
              /\ \/ ~EverythingDone' \/ disposition' # "Retained"
                 \/ \E p \in Pane : PartialOutcome(outcome'[p])
<1>1. /\ \A p \in Pane : outcome[p] # None
      /\ outcome' = outcome /\ action' = action /\ found' = found /\ degraded' = degraded
      /\ sent' = sent /\ disposition' \in TargetState
      /\ status' = IF \/ degraded \/ disposition' # "Retained"
                      \/ \E p \in Pane : PartialOutcome(outcome[p])
                   THEN "Partial" ELSE "Complete"
  BY DEF Finish, AllTried, plan, TargetState
<1>2. ASSUME status' = "Complete"
      PROVE  disposition' = "Retained" /\ EverythingDone'
  <2>1. /\ ~degraded /\ disposition' = "Retained" /\ found
        /\ \A p \in Pane : ~PartialOutcome(outcome[p])
    BY <1>1, <1>2 DEF PlanFacts
  <2>2. \A p \in Pane : Earned(action[p], outcome[p], ItemsOf(sent[p]))
    BY <1>1 DEF RInv, Reports
  <2>3. \A p \in Pane : /\ action[p] \notin {"NoInput", "PasteAutomaticFallback"}
                        /\ ItemsOf(sent[p]) = WholeInput(action[p])
    BY <2>1, <2>2 DEF Earned
  <2>4. \A p \in Pane : ItemsSent(p)' = WholeInput(action[p])
    BY <1>1, <2>3 DEF ItemsSent, ItemsOf
  <2>. QED  BY <1>1, <2>1, <2>3, <2>4 DEF EverythingDone, WholeInput, Submitted, WithPrompt
<1>3. ASSUME status' = "Partial"
      PROVE  \/ ~EverythingDone' \/ disposition' # "Retained"
             \/ \E p \in Pane : PartialOutcome(outcome'[p])
  <2>1. degraded \/ disposition' # "Retained" \/ \E p \in Pane : PartialOutcome(outcome[p])
    BY <1>1, <1>3
  <2>2. ASSUME degraded PROVE ~EverythingDone'
    BY <1>1, <2>2 DEF PlanFacts, EverythingDone
  <2>. QED  BY <1>1, <2>1, <2>2
<1>. QED  BY <1>1, <1>2, <1>3----------------------------------------------------------------------------
(* One lemma for each step of the command.                                 *)

(* A step of the command around the recovery leaves it alone. *)
LEMMA RecoveryUntouched ==
  ASSUME RInv, PlanFacts, UNCHANGED recovery
  PROVE  RInv' /\ PlanFacts' /\ UNCHANGED <<plan, outcome, sent, disposition>>
<1>1. /\ UNCHANGED <<plan, pc, current, op, tries, outcome, end, pane, server, raced, sent>>
  BY DEF recovery, executor, panes
<1>2. RInv'
  BY <1>1 DEF RInv, TypeOK, Turn, Stage, Reports, Buffers, Allowed, InGap,
              CommandsMeetAShell, InputReachesItsTarget, plan, end, pane, server
<1>. QED  BY <1>1, <1>2 DEF PlanFacts, plan, end

(* Nothing is sent by a step that leaves the input alone. *)
LEMMA SentStays == ASSUME UNCHANGED sent PROVE NothingSent' <=> NothingSent
BY DEF NothingSent

(* Before the end there is no exit code to be honest. *)
LEMMA NotYetDishonest ==
  ASSUME exit' = None, run' \/ NothingSent' PROVE ExitCodeIsHonest'
BY NoneIsNothing DEF ExitCodeIsHonest

(* A write adds lines, or output is lost. *)
LEMMA Written ==
  ASSUME CommandTypeOK, NEW lines \in SUBSET Line, Write(lines)
  PROVE  /\ output' \subseteq Line /\ lost' \in BOOLEAN
         /\ output \subseteq output' /\ output' \subseteq output \cup lines
         /\ ~lost' => ~lost /\ output' = output \cup lines
BY DEF Write, CommandTypeOK

(* Loading, planning and printing the plan. *)
LEMMA PrepareKeeps == ASSUME CInv, Prepare PROVE CInv'
<1>1. /\ phase = "prepare" /\ exit = None /\ NothingSent
      /\ UNCHANGED <<recovery, run, result>>
  BY DEF Prepare, CInv, Phases
<1>2. RInv' /\ PlanFacts' /\ NothingSent'
  BY <1>1, RecoveryUntouched, SentStays DEF CInv
<1>3. {<<"plan">>} \subseteq Line
  BY DEF Line
<1>4. CASE Write({<<"plan">>}) /\ ThenOr(AfterPlan, Goes("unestablished"))
  <2>1. CASE lost'
    <3>1. phase' = "unestablished" /\ exit' = exit
      BY <1>4, <2>1 DEF ThenOr, Goes
    <3>2. CommandTypeOK'
      BY <1>1, <1>2, <1>3, <1>4, <3>1, Written DEF CInv, CommandTypeOK, RInv
    <3>. QED  BY <1>1, <1>2, <3>1, <3>2, NotYetDishonest DEF CInv, Phases, ResultIsEarned
  <2>2. CASE ~lost' /\ run
    <3>1. phase' = "announce" /\ exit' = exit
      BY <1>4, <2>2 DEF ThenOr, AfterPlan, Goes
    <3>2. ~lost /\ output' = output \cup {<<"plan">>}
      BY <1>3, <1>4, <2>2, Written DEF CInv
    <3>3. CommandTypeOK'
      BY <1>1, <1>2, <1>3, <1>4, <3>1, Written DEF CInv, CommandTypeOK, RInv
    <3>4. output = {}
      BY <1>1 DEF CInv, Phases
    <3>. QED  BY <1>1, <1>2, <2>2, <3>1, <3>2, <3>3, <3>4, NotYetDishonest
              DEF CInv, Phases, ResultIsEarned
  <2>3. CASE ~lost' /\ ~run
    <3>1. phase' = "exited" /\ exit' = 0
      BY <1>4, <2>3 DEF ThenOr, AfterPlan, Exit
    <3>2. <<"plan">> \in output'
      BY <1>3, <1>4, <2>3, Written DEF CInv
    <3>3. CommandTypeOK'
      BY <1>1, <1>2, <1>3, <1>4, <3>1, Written DEF CInv, CommandTypeOK, RInv
    <3>4. ExitCodeIsHonest'
      BY <1>1, <1>2, <2>3, <3>1, <3>2 DEF ExitCodeIsHonest, Says
    <3>. QED  BY <1>2, <3>1, <3>3, <3>4, NoneIsNothing DEF CInv, Phases, ResultIsEarned
  <2>. QED  BY <2>1, <2>2, <2>3
<1>5. CASE Goes("unestablished") /\ UNCHANGED <<output, lost>>
  <2>1. CommandTypeOK'
    BY <1>1, <1>2, <1>5 DEF CInv, CommandTypeOK, RInv, Goes
  <2>. QED  BY <1>1, <1>2, <1>5, <2>1, NotYetDishonest DEF CInv, Phases, ResultIsEarned, Goes
<1>. QED  BY <1>4, <1>5 DEF Prepare

(* The report of a restore that did not get a server. *)
LEMMA ReportUnestablishedKeeps == ASSUME CInv, ReportUnestablished PROVE CInv'
<1>1. /\ phase = "unestablished" /\ exit = None /\ NothingSent
      /\ UNCHANGED <<recovery, run, result>> /\ phase' = "exited" /\ exit' = 1
      /\ Write({<<"target", "NotEstablished">>})
  BY DEF ReportUnestablished, CInv, Phases, Exit
<1>2. RInv' /\ PlanFacts' /\ NothingSent'
  BY <1>1, RecoveryUntouched, SentStays DEF CInv
<1>3. {<<"target", "NotEstablished">>} \subseteq Line /\ "NotEstablished" \in TargetState
  BY DEF Line, TargetState
<1>4. CommandTypeOK'
  BY <1>1, <1>2, <1>3, Written DEF CInv, CommandTypeOK, RInv
<1>5. ~lost' => <<"target", "NotEstablished">> \in output'
  BY <1>1, <1>3, Written DEF CInv
<1>6. ExitCodeIsHonest'
  BY <1>1, <1>2, <1>3, <1>5 DEF ExitCodeIsHonest, Says
<1>. QED  BY <1>1, <1>2, <1>4, <1>6, NoneIsNothing DEF CInv, Phases, ResultIsEarned

(* The line "executing ...", the last write before any effect. *)
LEMMA AnnounceKeeps == ASSUME CInv, Announce PROVE CInv'
<1>1. /\ phase = "announce" /\ exit = None /\ NothingSent /\ run /\ ~lost
      /\ <<"plan">> \in output /\ output \subseteq {<<"plan">>, <<"executing">>}
      /\ UNCHANGED <<recovery, run, result>> /\ Write({<<"executing">>})
      /\ IF lost' THEN Exit(1) ELSE Goes("establish")
  BY DEF Announce, CInv, Phases, ThenOr
<1>2. RInv' /\ PlanFacts' /\ NothingSent'
  BY <1>1, RecoveryUntouched, SentStays DEF CInv
<1>3. {<<"executing">>} \subseteq Line
  BY DEF Line
<1>4. CommandTypeOK'
  BY <1>1, <1>2, <1>3, Written DEF CInv, CommandTypeOK, RInv, Exit, Goes
<1>5. CASE lost'
  <2>1. phase' = "exited" /\ exit' = 1
    BY <1>1, <1>5 DEF Exit
  <2>2. ExitCodeIsHonest'
    BY <1>1, <1>5, <2>1 DEF ExitCodeIsHonest
  <2>. QED  BY <1>2, <1>4, <2>1, <2>2, NoneIsNothing DEF CInv, Phases, ResultIsEarned
<1>6. CASE ~lost'
  <2>1. phase' = "establish" /\ exit' = exit
    BY <1>1, <1>6 DEF Goes
  <2>2. <<"plan">> \in output' /\ output' \subseteq {<<"plan">>, <<"executing">>}
    BY <1>1, <1>3, Written DEF CInv
  <2>. QED  BY <1>1, <1>2, <1>4, <1>6, <2>1, <2>2, NotYetDishonest
            DEF CInv, Phases, ResultIsEarned
<1>. QED  BY <1>5, <1>6

(* The server: built, or the run is fatal before any input. *)
LEMMA EstablishKeeps == ASSUME CInv, Establish PROVE CInv'
<1>1. /\ phase = "establish" /\ exit = None /\ NothingSent /\ run /\ ~lost
      /\ <<"plan">> \in output /\ output \subseteq {<<"plan">>, <<"executing">>}
      /\ UNCHANGED <<plan, pc, current, op, tries, outcome, status, panes, raced, sent,
                     run, output, lost>>
      /\ exit' = exit
  BY DEF Establish, Fatal, Goes, CInv, Phases
<1>2. \/ phase' = "recover" /\ disposition' = disposition /\ result' = result
      \/ phase' = "report" /\ disposition' \in TargetState /\ result' = "Fatal"
  BY DEF Establish, Fatal, Goes
<1>3. NothingSent'
  BY <1>1, SentStays
<1>4. RInv'
  BY <1>1, <1>2 DEF CInv, RInv, TypeOK, Turn, Stage, Reports, Buffers, Allowed, InGap,
                    CommandsMeetAShell, InputReachesItsTarget, plan, panes, pane, server
<1>5. PlanFacts' /\ CommandTypeOK'
  BY <1>1, <1>2, <1>4 DEF CInv, PlanFacts, plan, CommandTypeOK, RInv
<1>6. ExitCodeIsHonest'
  BY <1>1, <1>3, NotYetDishonest
<1>. QED  BY <1>1, <1>2, <1>3, <1>4, <1>5, <1>6 DEF CInv, Phases, ResultIsEarned

(* The recovery is the only part of the command that sends anything. *)
LEMMA RecoverKeeps == ASSUME CInv, Recover PROVE CInv'
<1>1. /\ phase = "recover" /\ exit = None /\ run /\ ~lost /\ <<"plan">> \in output
      /\ output \subseteq {<<"plan">>, <<"executing">>}
      /\ Execute /\ UNCHANGED <<run, output, lost>>
  BY DEF Recover, CInv, Phases
<1>2. RInv' /\ UNCHANGED plan
  BY <1>1, ExecuteKeeps, PlanIsKept DEF CInv
<1>3. PlanFacts'
  BY <1>2 DEF CInv, PlanFacts, plan
<1>4. CASE pc' = "done"
  <2>1. phase' = "report" /\ exit' = exit /\ result' = status'
    BY <1>4 DEF Recover, Goes
  <2>2. /\ status' \in {"Complete", "Partial"} /\ disposition' \in TargetState
        /\ status' = "Complete" => disposition' = "Retained" /\ EverythingDone'
        /\ status' = "Partial" =>
             /\ \A p \in Pane : outcome'[p] # None
             /\ \/ ~EverythingDone' \/ disposition' # "Retained"
                \/ \E p \in Pane : PartialOutcome(outcome'[p])
    BY <1>1, <1>4, OnlyFinishEnds, StatusIsEarned DEF CInv
  <2>3. CommandTypeOK' /\ ExitCodeIsHonest'
    BY <1>1, <1>2, <2>1, <2>2, NotYetDishonest DEF CInv, CommandTypeOK, RInv
  <2>4. ResultIsEarned'
    BY <2>1, <2>2 DEF ResultIsEarned
  <2>. QED  BY <1>1, <1>2, <1>3, <2>1, <2>3, <2>4 DEF CInv, Phases
<1>5. CASE pc' # "done"
  <2>1. UNCHANGED <<result, phase, exit>>
    BY <1>5 DEF Recover
  <2>2. CommandTypeOK' /\ ExitCodeIsHonest'
    BY <1>1, <1>2, <2>1, NotYetDishonest DEF CInv, CommandTypeOK, RInv
  <2>. QED  BY <1>1, <1>2, <1>3, <2>1, <2>2 DEF CInv, Phases, ResultIsEarned
<1>. QED  BY <1>4, <1>5

(* The panes know nothing of the command. *)
LEMMA PanesMoveKeeps == ASSUME CInv, PanesMove PROVE CInv'
<1>1. /\ phase = "recover" /\ exit = None /\ run /\ Others
      /\ UNCHANGED <<run, phase, result, output, lost, exit>>
  BY DEF PanesMove, CInv, Phases
<1>2. RInv' /\ UNCHANGED plan
  BY <1>1, OthersKeep, PlanIsKept DEF CInv
<1>3. PlanFacts' /\ CommandTypeOK' /\ ExitCodeIsHonest'
  BY <1>1, <1>2, NotYetDishonest DEF CInv, PlanFacts, plan, CommandTypeOK, RInv
<1>. QED  BY <1>1, <1>2, <1>3 DEF CInv, Phases, ResultIsEarned
(* The lines of a report that is no "Retained" are none that says so. *)
LEMMA RetainedIsSaidOfRetained ==
  ASSUME disposition # "Retained",
         NEW o, o \subseteq {<<"plan">>, <<"executing">>} \cup ResultLines
  PROVE  <<"target", "Retained">> \notin o
<1>1. /\ Len(<<"plan">>) = 1 /\ Len(<<"executing">>) = 1 /\ Len(<<"end">>) = 1
      /\ Len(<<"target", "Retained">>) = 2
  OBVIOUS
<1>2. /\ <<"target", "Retained">> # <<"plan">> /\ <<"target", "Retained">> # <<"executing">>
      /\ <<"target", "Retained">> # <<"end">>
  BY <1>1
<1>3. <<"target", "Retained">> # <<"target", disposition>>
  OBVIOUS
<1>4. \A p \in Pane : /\ <<"target", "Retained">> # <<"pane", p>>
                      /\ <<"target", "Retained">> # <<"warning", p>>
  OBVIOUS
<1>. QED  BY <1>2, <1>3, <1>4 DEF ResultLines, PaneLines

(* The final report: written in full, or the exit code says 1. *)
LEMMA ReportResultKeeps == ASSUME CInv, ReportResult PROVE CInv'
<1>1. /\ phase = "report" /\ exit = None /\ run /\ ~lost /\ <<"plan">> \in output
      /\ output \subseteq {<<"plan">>, <<"executing">>}
      /\ UNCHANGED <<recovery, run, result>> /\ Write(ResultLines)
      /\ IF lost' THEN Exit(1) ELSE Exit(ExitCode(result))
      /\ phase' = "exited"
  BY DEF ReportResult, CInv, Phases, ThenOr, Exit
<1>2. RInv' /\ PlanFacts' /\ UNCHANGED <<plan, outcome, sent, disposition>>
  BY <1>1, RecoveryUntouched DEF CInv
<1>3. (EverythingDone' <=> EverythingDone) /\ (NothingSent' <=> NothingSent)
  BY <1>2 DEF EverythingDone, NothingSent, ItemsSent, plan
<1>4. /\ result \in {"Complete", "Partial", "Fatal"} /\ disposition \in TargetState
      /\ result = "Fatal" => NothingSent
      /\ result = "Complete" => disposition = "Retained" /\ EverythingDone
      /\ result = "Partial" =>
           /\ \A p \in Pane : outcome[p] # None
           /\ \/ ~EverythingDone \/ disposition # "Retained"
              \/ \E p \in Pane : PartialOutcome(outcome[p])
  BY <1>1 DEF CInv, ResultIsEarned
<1>5. ResultLines \subseteq Line
  BY <1>4 DEF ResultLines, PaneLines, Line
<1>6. /\ output' \subseteq Line /\ lost' \in BOOLEAN
      /\ output \subseteq output' /\ output' \subseteq output \cup ResultLines
      /\ ~lost' => output' = output \cup ResultLines
  BY <1>1, <1>5, Written DEF CInv
<1>7. exit' \in {0, 1, 2} /\ (lost' => exit' = 1)
      /\ (~lost' => exit' = ExitCode(result))
  BY <1>1, <1>4 DEF Exit, ExitCode
<1>8. CommandTypeOK'
  BY <1>1, <1>2, <1>6, <1>7 DEF CInv, CommandTypeOK, RInv
<1>9. ASSUME ~lost'
      PROVE  /\ <<"plan">> \in output' /\ <<"target", disposition>> \in output'
             /\ result # "Fatal" => \A p \in Pane : <<"pane", p>> \in output'
  BY <1>1, <1>6, <1>9 DEF ResultLines, PaneLines
<1>10. ExitCodeIsHonest'
  <2>1. CASE lost'
    BY <1>1, <1>7, <2>1 DEF ExitCodeIsHonest
  <2>2. CASE ~lost' /\ result = "Complete"
    <3>1. exit' = 0 /\ EverythingDone' /\ disposition = "Retained"
      BY <1>3, <1>4, <1>7, <2>2 DEF ExitCode
    <3>. QED  BY <1>1, <1>9, <2>2, <3>1 DEF ExitCodeIsHonest, Says
  <2>3. CASE ~lost' /\ result = "Fatal"
    <3>1. exit' = 1 /\ NothingSent'
      BY <1>3, <1>4, <1>7, <2>3 DEF ExitCode
    <3>. QED  BY <1>1, <1>4, <1>9, <2>3, <3>1 DEF ExitCodeIsHonest, Says
  <2>4. CASE ~lost' /\ result = "Partial"
    <3>1. exit' = 2
      BY <1>7, <2>4 DEF ExitCode
    <3>2. /\ \A p \in Pane : outcome'[p] # None
          /\ \/ ~EverythingDone' \/ disposition # "Retained"
             \/ \E p \in Pane : PartialOutcome(outcome'[p])
      BY <1>2, <1>3, <1>4, <2>4
    <3>3. disposition # "Retained" => <<"target", "Retained">> \notin output'
      BY <1>1, <1>6, RetainedIsSaidOfRetained
    <3>. QED  BY <1>1, <1>4, <1>9, <2>4, <3>1, <3>2, <3>3 DEF ExitCodeIsHonest, Says
  <2>. QED  BY <1>4, <2>1, <2>2, <2>3, <2>4
<1>. QED  BY <1>1, <1>2, <1>7, <1>8, <1>10, NoneIsNothing DEF CInv, Phases, ResultIsEarned
----------------------------------------------------------------------------
(* The invariant holds, and so do the properties that follow from it.      *)

(* The command starts in the invariant. *)
LEMMA CInvInit == ASSUME Init PROVE CInv
<1>1. RInv /\ PlanFacts /\ NothingSent
  BY RecoveryStarts DEF Init
<1>2. /\ run \in BOOLEAN /\ phase = "prepare" /\ result = None
      /\ output = {} /\ lost = FALSE /\ exit = None
  BY DEF Init
<1>3. CommandTypeOK
  BY <1>1, <1>2 DEF CommandTypeOK, RInv
<1>4. ExitCodeIsHonest
  BY <1>1, <1>2, NoneIsNothing DEF ExitCodeIsHonest
<1>. QED  BY <1>1, <1>2, <1>3, <1>4 DEF CInv, Phases, ResultIsEarned

(* And every step of it keeps it. *)
LEMMA CInvNext == ASSUME CInv, [Next]_vars PROVE CInv'
<1>1. CASE UNCHANGED vars
  <2>1. /\ UNCHANGED <<run, phase, result, output, lost, exit>> /\ UNCHANGED recovery
    BY <1>1 DEF vars
  <2>2. RInv' /\ PlanFacts' /\ UNCHANGED <<plan, outcome, sent, disposition>>
    BY <2>1, RecoveryUntouched DEF CInv
  <2>3. (EverythingDone' <=> EverythingDone) /\ (NothingSent' <=> NothingSent)
    BY <2>2 DEF EverythingDone, NothingSent, ItemsSent, plan
  <2>4. CommandTypeOK' /\ Phases'
    BY <2>1, <2>2, <2>3 DEF CInv, CommandTypeOK, RInv, Phases
  <2>5. ResultIsEarned' /\ ExitCodeIsHonest'
    BY <2>1, <2>2, <2>3 DEF CInv, ResultIsEarned, ExitCodeIsHonest, Says
  <2>. QED  BY <2>2, <2>4, <2>5 DEF CInv
<1>2. CASE Next
  BY <1>2, PrepareKeeps, ReportUnestablishedKeeps, AnnounceKeeps, EstablishKeeps,
     RecoverKeeps, ReportResultKeeps, PanesMoveKeeps DEF Next, Command
<1>. QED  BY <1>1, <1>2

(* The inductive invariant holds always: it relates the place of the executor
   (execute_pane, execute_automatic) to what the pane at work was sent, every
   outcome to what it allows to conclude, and the phase of run_restore_with_factory
   to what was written and sent so far. *)
THEOREM Invariance == Spec => []CInv
BY CInvInit, CInvNext, PTL DEF Spec

(* What a pane was sent, reported or not, is input its plan allows. *)
LEMMA PlannedAtAnyTime == ASSUME CInv PROVE InputIsPlanned /\ OutcomesAreEarned
<1>1. TypeOK /\ Turn /\ Stage /\ Reports
  BY DEF CInv, RInv
<1>2. \A p \in Pane : ItemsSent(p) = ItemsOf(sent[p]) /\ action[p] \in Action
  BY <1>1 DEF ItemsSent, ItemsOf, TypeOK
<1>3. ASSUME NEW p \in Pane PROVE ItemsOf(sent[p]) \in PlannedInput(action[p])
  <2>1. CASE outcome[p] # None
    BY <1>1, <2>1 DEF Reports, Earned
  <2>2. CASE outcome[p] = None /\ sent[p] = <<>>
    BY <1>2, <2>2, NothingIsPlanned
  <2>3. CASE \/ ItemsOf(sent[p]) = Submitted /\ action[p] \in Launch
             \/ ItemsOf(sent[p]) = WithPrompt /\ action[p] = "LaunchWithPrompt"
    BY <2>3 DEF PlannedInput, Launch, Submitted, WithPrompt
  <2>4. ASSUME p = current
        PROVE  \/ sent[p] = <<>>
               \/ ItemsOf(sent[p]) = Submitted /\ action[p] \in Launch
               \/ ItemsOf(sent[p]) = WithPrompt /\ action[p] = "LaunchWithPrompt"
    <3>1. current # None /\ pc \in Steps
      BY <1>1, <2>4, NoneIsNothing DEF Turn, TypeOK, Steps
    <3>. QED  BY <1>1, <2>4, <3>1 DEF Stage, Steps, Launch
  <2>. QED  BY <1>1, <2>1, <2>2, <2>3, <2>4 DEF Turn
<1>4. ASSUME NEW p \in Pane, outcome[p] # None
      PROVE  Earned(action[p], outcome[p], ItemsSent(p))
  BY <1>1, <1>2, <1>4 DEF Reports
<1>5. ASSUME NEW p \in Pane, ItemsSent(p) = <<>> PROVE sent[p] = <<>>
  <2>1. sent[p] \in Seq(Sent) /\ Len(sent[p]) \in Nat
    BY <1>1, LenProperties DEF TypeOK
  <2>2. DOMAIN ItemsSent(p) = 1 .. Len(sent[p])
    BY DEF ItemsSent
  <2>3. Len(sent[p]) = 0
    <3>1. DOMAIN ItemsSent(p) = {}
      BY <1>5
    <3>2. \A n \in Nat : 1 .. n = {} => n = 0
      OBVIOUS
    <3>. QED  BY <2>1, <2>2, <3>1, <3>2
  <2>. QED  BY <2>1, <2>3, EmptySeq
<1>6. ASSUME NEW p \in Pane, ItemsSent(p) = Submitted PROVE ~WasSent(p, "prompt")
  <2>1. sent[p] \in Seq(Sent) /\ Len(sent[p]) \in Nat
    BY <1>1, LenProperties DEF TypeOK
  <2>2. /\ DOMAIN ItemsSent(p) = 1 .. Len(sent[p])
        /\ \A i \in 1 .. Len(sent[p]) : ItemsSent(p)[i] = sent[p][i].item
    BY DEF ItemsSent
  <2>3. DOMAIN Submitted = 1 .. Len(Submitted)
    BY DEF Submitted
  <2>4. \A i \in 1 .. Len(Submitted) : Submitted[i] # "prompt"
    BY ItemSequences
  <2>. QED  BY <1>6, <2>2, <2>3, <2>4 DEF WasSent
<1>7. InputIsPlanned
  BY <1>2, <1>3 DEF InputIsPlanned
<1>8. ASSUME NEW p \in Pane, outcome[p] # None
      PROVE  /\ outcome[p] \in {"ShellNotForeground", "MissingPane"} /\ action[p] \notin Launch
                  => sent[p] = <<>>
             /\ outcome[p] \in {"SessionMismatch", "PaneMissing", "InputDisabled"}
                  => ~WasSent(p, "prompt")
  BY <1>4, <1>5, <1>6, <1>8 DEF Earned
<1>9. OutcomesAreEarned
  <2>1. \A o \in Outcome : o # None
    BY NoneIsNothing
  <2>2. \A p \in Pane : outcome[p] = None => outcome[p] \notin Outcome
    BY NoneIsNothing
  <2>3. \A o \in {"PreparedManualHint", "PreparedAutomaticFallbackHint",
                 "RecoveredAutomatically", "RecoveredAutomaticallyWithPromptPrepared",
                 "ShellNotForeground", "MissingPane", "SessionMismatch", "PaneMissing",
                 "InputDisabled"} : o \in Outcome
    BY DEF Outcome, Success, Attention, PromptFailure
  <2>. QED  BY <1>4, <1>8, <2>2, <2>3 DEF OutcomesAreEarned, Earned, Submitted, WithPrompt
<1>. QED  BY <1>7, <1>9

(* Whatever observations and replies fail, no pane gets input beyond its plan: a
   hint of execute_pane is never submitted, a launch of execute_automatic at most
   once and with at most one hint or one prompt after it. *)
THEOREM InputIsAlwaysPlanned == Spec => []InputIsPlanned
BY Invariance, PlannedAtAnyTime, PTL

(* A PaneOutcome never claims input that the pane did not get, nor denies input
   it did get: for any number of panes and any replies lost on the way. *)
THEOREM OutcomesAreAlwaysEarned == Spec => []OutcomesAreEarned
BY Invariance, PlannedAtAnyTime, PTL

(* Although the observation of guarded_pane_operation may be stale, its
   conditional never puts a command in front of a program of another name. *)
THEOREM CommandsAlwaysMeetAShell == Spec => []CommandsMeetAShell
<1>1. CInv => CommandsMeetAShell
  BY DEF CInv, RInv
<1>. QED  BY <1>1, Invariance, PTL

(* Unless the foreground changed in the gap that the document acknowledges, a
   command meets the shell, and the draft of paste_codex_prompt_area the very
   session it was captured in. *)
THEOREM InputAlwaysReachesItsTarget == Spec => []InputReachesItsTarget
<1>1. CInv => InputReachesItsTarget
  BY DEF CInv, RInv
<1>. QED  BY <1>1, Invariance, PTL

(* A prompt that stays in a tmux paste buffer is reported as CleanupFailed, or
   its pane is still worked on. *)
THEOREM DraftIsNeverLeftBehind == Spec => []DraftIsNotLeftBehind
<1>1. CInv => DraftIsNotLeftBehind
  <2>1. ASSUME CInv, NEW p \in buffer PROVE outcome[p] \in {None, "CleanupFailed"}
    <3>1. CASE p = current /\ pc = "cleanup"
      BY <2>1, <3>1, AtWork DEF CInv, Steps
    <3>. QED  BY <2>1, <3>1 DEF CInv, RInv, Buffers
  <2>. QED  BY <2>1 DEF DraftIsNotLeftBehind
<1>. QED  BY <1>1, Invariance, PTL

(* restore_exit_code and the write failures around it: 0 and 2 are only given for
   a recovery that was carried out and reported as they say, and 1 with all output
   written means that nothing was sent to any pane. *)
THEOREM ExitCodeIsAlwaysHonest == Spec => []ExitCodeIsHonest
<1>1. CInv => ExitCodeIsHonest
  BY DEF CInv
<1>. QED  BY <1>1, Invariance, PTL

(* The type invariant of the command and of the recovery in it. *)
THEOREM TypeCorrect == Spec => []CommandTypeOK
<1>1. CInv => CommandTypeOK
  BY DEF CInv
<1>. QED  BY <1>1, Invariance, PTL
=============================================================================
