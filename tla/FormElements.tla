---------------------------- MODULE FormElements ----------------------------
(****************************************************************************)
(* Forms and their elements.                                                *)
(****************************************************************************)
EXTENDS Integers, FiniteSets, SequencesExt, FiniteSetsExt

(****************************************************************************)
(* A form (vue/components/form/form.vue) and its elements (element.vue)     *)
(* with two fields: an unnamed one that decides whether the other, named    *)
(* and mandatory, is displayed.  The owner of the form gets the values by   *)
(* reference and gives them back later, or gives others meanwhile.          *)
(****************************************************************************)
CONSTANTS FieldValues  \* values of the named field; "" is empty and "bad" fails its validation

ASSUME FormAssumption == {"", "bad"} \subseteq FieldValues

VARIABLES
  currentValue,   \* of the fields: mode (unnamed) and detail (named)
  returnedValue,  \* detail, as given to the owner
  unnamedValue,   \* mode
  errors,         \* fields with an error
  emitted,        \* the owner was told and has not given the values back yet
  shown,          \* the mode that was chosen last
  submitted       \* "none" or what was submitted with its mode

formVars == <<currentValue, returnedValue, unnamedValue, errors, emitted, shown, submitted>>

FormInit ==
  /\ currentValue = [mode |-> FALSE, detail |-> ""] /\ returnedValue = "" /\ unnamedValue = FALSE
  /\ errors = {} /\ emitted = FALSE /\ shown = FALSE /\ submitted = [sent |-> FALSE, mode |-> FALSE, detail |-> ""]

\* isConditionSatisfied().
Displayed(value) == IF value.mode THEN {"mode", "detail"} ELSE {"mode"}

\* set() of the element: a value that is not empty and does not validate stays out.
SetDetail(v) ==
  /\ "detail" \in Displayed(currentValue)
  /\ IF v = "bad" THEN errors' = errors \cup {"detail"} /\ UNCHANGED <<currentValue, returnedValue, emitted>>
     ELSE /\ errors' = errors \ {"detail"} /\ currentValue' = [currentValue EXCEPT !.detail = v]
          /\ returnedValue' = v /\ emitted' = TRUE
  /\ UNCHANGED <<unnamedValue, shown, submitted>>
SetMode(b) ==
  /\ currentValue' = [currentValue EXCEPT !.mode = b] /\ unnamedValue' = b /\ shown' = b /\ emitted' = TRUE
  /\ UNCHANGED <<returnedValue, errors, submitted>>

\* The watcher of modelValue: what has no name is kept by the form itself.
\* Mutant: it is what the owner gives.
WatchedGiven(v) == [mode |-> FALSE, detail |-> v]
Watched(v) == [mode |-> unnamedValue, detail |-> v]
OwnerGives(v) ==
  /\ IF v = returnedValue THEN TRUE ELSE ~emitted
  /\ currentValue' = Watched(v) /\ returnedValue' = v /\ emitted' = FALSE
  /\ UNCHANGED <<unnamedValue, errors, shown, submitted>>

\* handleSubmit(): the fields that are displayed are validated, their errors are added.
\* Mutant: a value that exists is enough.
InvalidFieldsAny(value) == {f \in Displayed(value) : f = "detail" /\ value.detail = ""}
InvalidFields(value) == {f \in Displayed(value) : f = "detail" /\ value.detail \in {"", "bad"}}
Submit ==
  /\ errors' = errors \cup InvalidFields(currentValue)
  /\ submitted' = IF errors' = {} THEN [sent |-> TRUE, mode |-> currentValue.mode, detail |-> returnedValue] ELSE submitted
  /\ UNCHANGED <<currentValue, returnedValue, unnamedValue, emitted, shown>>

FormNext ==
  \/ \E v \in FieldValues : SetDetail(v) \/ OwnerGives(v)
  \/ \E b \in BOOLEAN : SetMode(b)
  \/ Submit

-----------------------------------------------------------------------------
\* What is submitted is valid for the fields that were displayed, although the owner may give
\* any values and what is validated is not what is submitted (form.vue:187-199).
SubmittedValid == submitted.sent /\ submitted.mode => submitted.detail \notin {"", "bad"}

\* A choice without a name survives the values that come back from the owner (form.vue:156).
ChoiceKept == currentValue.mode = shown

\* A form whose displayed fields are valid can be submitted: an error belongs to one of them.
\* Not satisfied: a field that gets hidden leaves its error behind (form.vue:198).
ErrorsDisplayed == errors \subseteq Displayed(currentValue)

-----------------------------------------------------------------------------
(****************************************************************************)
(* A dropdown of a form (vue/components/form/element/dropdown.vue in its    *)
(* dropdown_template.vue around an input.vue): the list that is searched    *)
(* for what is typed, which comes later and maybe in another order, the     *)
(* entry that is selected while the input loses its focus, and the weight   *)
(* that orders the entries.  The list comes with the code ("static"), from  *)
(* a function once ("function") or from a function for each text            *)
(* ("search").  A static list needs no more than microtasks.                *)
(****************************************************************************)
CONSTANTS
  Texts,            \* what is typed, sequences of letters; <<>> is one of them
  DropItems,        \* entries that can be selected
  MaxTyped, MaxSourceChanges, MaxSelects, MaxListFails,  \* bounds
  ListWords         \* words of the list

ASSUME DropdownAssumption ==
  /\ <<>> \in Texts /\ {MaxTyped, MaxSourceChanges, MaxSelects, MaxListFails} \subseteq Nat
  /\ \A w \in ListWords : Len(w) > 0

Idle == <<"idle">>
NoSource == -1

VARIABLES
  source,           \* kind of the list
  generation,       \* how often the list was replaced
  directValue,      \* the text in the input
  processTimeout,   \* the text that is searched when the timer fires, or Idle
  loading,
  flights,          \* processing that waits for a list: [id, value, gen, watch]
  fetched,          \* list: the generation it is from, NoList when empty
  displayed,        \* filteredList: the text it is for, the generation of its list, whether that failed
  mixed,            \* the list was replaced while another was being fetched
  chosen,           \* the value of the element
  isActive, hasChanged,
  toSelect,         \* entries whose timeout runs
  intent,           \* what the user selected last, <<>> when he typed since
  typedCount, failedCount, selectCount

dropdownVars == <<source, generation, directValue, processTimeout, loading, flights, fetched, displayed, mixed, chosen,
                  isActive, hasChanged, toSelect, intent, typedCount, failedCount, selectCount>>
searchVars == <<generation, processTimeout, loading, flights, fetched, displayed, mixed, failedCount>>
valueVars == <<chosen, isActive, hasChanged, toSelect, intent, selectCount>>

DropdownInit ==
  /\ source \in {"static", "function", "search"} /\ generation = 0 /\ directValue = <<>>
  /\ processTimeout = <<>> /\ loading = TRUE    \* the watcher of directValue is immediate
  /\ flights = {} /\ fetched = NoSource /\ displayed = [text |-> Idle, gen |-> 0, failed |-> FALSE] /\ mixed = FALSE
  /\ chosen = <<>> /\ isActive = FALSE /\ hasChanged = FALSE /\ toSelect = <<>> /\ intent = <<>>
  /\ typedCount = 0 /\ failedCount = 0 /\ selectCount = 0

-----------------------------------------------------------------------------
(* process(), fetchList(), and processInput() around them.                  *)

NeedsFetch(list) == list = NoSource \/ source = "search"
Filtered(value, gen, failed) == [text |-> value, gen |-> gen, failed |-> failed]

\* process() starts: a list is fetched or the one that is there is filtered.
ProcessList(value, others, watch) ==
  IF source = "static" \/ ~NeedsFetch(fetched)
  THEN /\ fetched' = (IF source = "static" THEN generation ELSE fetched) /\ displayed' = Filtered(value, fetched', FALSE)
       /\ flights' = others /\ loading' = FALSE
  ELSE /\ flights' = others \cup {[id |-> Max({0} \cup {f.id : f \in others}) + 1, value |-> value, gen |-> generation, watch |-> watch]}
       /\ UNCHANGED <<fetched, displayed>>

TimerFires ==
  /\ processTimeout # Idle /\ processTimeout' = Idle
  /\ ProcessList(processTimeout, flights, FALSE)
  /\ IF flights' = flights THEN TRUE ELSE UNCHANGED loading
  /\ UNCHANGED <<source, generation, directValue, mixed, typedCount, failedCount, valueVars>>

\* The list has come; then the text is compared with the one that is there now.
\* Mutant: it is not.
MustProcessAgainNever(f) == FALSE
MustProcessAgain(f) == ~f.watch /\ f.value # directValue
ListComes(f, ok) ==
  /\ f \in flights /\ IF ok THEN UNCHANGED failedCount ELSE failedCount < MaxListFails /\ failedCount' = failedCount + 1
  /\ loading' = IF f.watch THEN loading ELSE FALSE
  /\ fetched' = IF ok THEN f.gen ELSE NoSource
  /\ LET again == [f EXCEPT !.value = directValue, !.gen = generation]
         sync == MustProcessAgain(f) /\ ~NeedsFetch(fetched')
     IN  /\ flights' = (flights \ {f}) \cup (IF MustProcessAgain(f) /\ ~sync THEN {again} ELSE {})
         /\ displayed' = Filtered(IF sync THEN directValue ELSE f.value, f.gen, ~ok)
  /\ UNCHANGED <<source, generation, directValue, processTimeout, mixed, typedCount, valueVars>>

\* The watcher of directValue: the timer is started anew; while a list is awaited nothing is done.
WatchedList(t) ==
  IF processTimeout # Idle \/ ~loading THEN processTimeout' = t /\ loading' = TRUE ELSE UNCHANGED <<processTimeout, loading>>

\* The watcher of rawList.
ListReplaced ==
  /\ generation < MaxSourceChanges /\ generation' = generation + 1
  /\ mixed' = (mixed \/ flights # {} \/ processTimeout # Idle)
  /\ IF source = "static"
     THEN fetched' = generation + 1 /\ displayed' = Filtered(directValue, generation + 1, FALSE) /\ UNCHANGED flights
     ELSE /\ fetched' = NoSource /\ UNCHANGED displayed
          /\ flights' = flights \cup {[id |-> Max({0} \cup {f.id : f \in flights}) + 1, value |-> directValue, gen |-> generation + 1, watch |-> TRUE]}
  /\ UNCHANGED <<source, directValue, processTimeout, loading, typedCount, failedCount, valueVars>>

-----------------------------------------------------------------------------
(* The input: handleInput(), handleBlur(), valueSet(), and select().        *)

HandleFocus ==
  /\ ~isActive /\ isActive' = TRUE /\ typedCount < MaxTyped
  /\ UNCHANGED <<source, directValue, searchVars, chosen, hasChanged, toSelect, intent, typedCount, selectCount>>
HandleInput(t) ==
  /\ isActive /\ typedCount < MaxTyped /\ t # directValue
  /\ directValue' = t /\ hasChanged' = TRUE /\ intent' = <<>> /\ typedCount' = typedCount + 1
  /\ WatchedList(t) /\ mixed' = (mixed \/ \E f \in flights : f.watch)
  /\ UNCHANGED <<source, generation, flights, fetched, displayed, failedCount, chosen, isActive, toSelect, selectCount>>
Blurred == /\ isActive' = FALSE /\ hasChanged' = FALSE /\ chosen' = IF hasChanged THEN directValue ELSE chosen
HandleBlur ==
  /\ isActive /\ Blurred
  /\ UNCHANGED <<source, directValue, searchVars, toSelect, intent, typedCount, selectCount>>

\* select(): a press on an entry; the focus is lost by it, the value is set after a timeout.
\* Mutant: the value is set at once.
SelectAtOnce(i) ==
  /\ selectCount < MaxSelects /\ selectCount' = selectCount + 1 /\ intent' = IF chosen = i THEN <<>> ELSE i
  /\ isActive' = FALSE /\ hasChanged' = FALSE /\ chosen' = IF hasChanged THEN directValue ELSE i
  /\ UNCHANGED <<source, directValue, searchVars, toSelect, typedCount>>
Select(i) ==
  /\ selectCount < MaxSelects /\ selectCount' = selectCount + 1
  /\ toSelect' = IF chosen = i THEN toSelect ELSE Append(toSelect, i)
  /\ intent' = IF chosen = i THEN <<>> ELSE i
  /\ Blurred
  /\ UNCHANGED <<source, directValue, searchVars, typedCount>>
SelectFires ==
  /\ toSelect # <<>> /\ toSelect' = Tail(toSelect) /\ chosen' = Head(toSelect)
  /\ UNCHANGED <<source, directValue, searchVars, isActive, hasChanged, intent, typedCount, selectCount>>

DropdownNext ==
  \/ TimerFires \/ ListReplaced \/ HandleFocus \/ HandleBlur \/ SelectFires
  \/ \E f \in flights, ok \in BOOLEAN : ListComes(f, ok)
  \/ \E t \in Texts : HandleInput(t)
  \/ \E i \in DropItems : Select(i)

-----------------------------------------------------------------------------
(* getMatchingWeight(), times 200 and times the length of the word.         *)

CharAt(s, i) == IF i \in DOMAIN s THEN s[i] ELSE "none"
WeightFrom(word, sentence, start) ==
  LET step(s, c) ==
        CASE CharAt(sentence, s.at + 1) = c -> [w |-> s.w + 20, at |-> s.at + 1]
          [] CharAt(sentence, s.at + 2) = c -> [w |-> s.w + 10, at |-> s.at + 2]
          [] CharAt(sentence, s.at - 1) = c -> [w |-> s.w + 10, at |-> s.at]
          [] OTHER                          -> [w |-> s.w, at |-> s.at + 1]
  IN  FoldLeft(step, [w |-> IF start = 1 THEN 20 ELSE 18, at |-> start], Tail(word)).w
\* Mutant: without the penalty on the length.
PenaltyNone(word, sentence) == 10
Penalty(word, sentence) == IF Len(word) = Len(sentence) THEN 10 ELSE 9
MatchingWeight(word, sentence) ==
  LET starts == {i \in DOMAIN sentence : sentence[i] = word[1]}
      weight == Max({0} \cup {WeightFrom(word, sentence, i) : i \in starts}) * Penalty(word, sentence)
  IN  IF weight > 120 * Len(word) THEN weight ELSE 0

-----------------------------------------------------------------------------
\* When nothing is on its way any more, what is displayed is for the text that is in the input and
\* from the list of the element, however the answers to earlier texts came in between.
ListSettles ==
  flights = {} /\ processTimeout = Idle /\ ~mixed => displayed.text = directValue /\ displayed.gen = generation

\* The entry that was selected is the value once its timeout fired, although the input gives its
\* text as the value when it loses its focus.
SelectedWins == toSelect = <<>> /\ intent # <<>> => chosen = intent

\* "an exact match always get more weight than a substring match" (dropdown.vue:195).
ExactMatchFirst ==
  displayed.text \in ListWords =>
    \A sentence \in ListWords \ {displayed.text} :
      MatchingWeight(displayed.text, sentence) < MatchingWeight(displayed.text, displayed.text)

-----------------------------------------------------------------------------
(****************************************************************************)
(* The list of files of a form (vue/components/form/element/file.vue, an    *)
(* array.vue) and the uploads that fill it (core/upload.js): files that are *)
(* dropped are uploaded at the same time and end in any order; files that   *)
(* are picked in a dialog are added without an upload, as the list gives no *)
(* URL to it.  What a handler sets is rendered before the next event.       *)
(****************************************************************************)
CONSTANTS
  UploadFiles,  \* files of the user, each used once
  MaxFiles,     \* max of the element, 0 when there is no limit
  MaxTouches    \* bound: entries that are deleted or replaced

ASSUME FileListAssumption == MaxFiles \in Nat /\ MaxTouches \in Nat /\ IsFiniteSet(UploadFiles)

VARIABLES
  fileValues,       \* the value of the element
  uploadValueList,  \* the uploads that are displayed after it
  xhr,              \* file |-> "unused", "sent", "failed", "done", "aborted"
  dialog,           \* the file dialog: "closed", "add", "replace", or "late" when it was taken for cancelled
  withdrawn,        \* files that were deleted from the value
  touches

fileVars == <<fileValues, uploadValueList, xhr, dialog, withdrawn, touches>>

FileListInit ==
  /\ fileValues = <<>> /\ uploadValueList = <<>> /\ xhr = [f \in UploadFiles |-> "unused"]
  /\ dialog = "closed" /\ withdrawn = {} /\ touches = 0

\* nbLeft of array.vue, of the entries that are displayed.
Least(a, b) == IF a < b THEN a ELSE b
NbLeft(values, uploads) == IF MaxFiles = 0 THEN Cardinality(UploadFiles) ELSE MaxFiles - Least(MaxFiles, Len(values) + Len(uploads))
IsAddEnabled(values, uploads) == NbLeft(values, uploads) > 0

\* itemAdd(); itemDelete() takes the last entry, whichever was meant.
FileAdd(values, uploads, f) == IF IsAddEnabled(values, uploads) THEN Append(values, f) ELSE values
FileDelete(values) == IF values = <<>> THEN values ELSE Front(values)
Deleted(values) == IF values = <<>> THEN {} ELSE {Last(values)}

-----------------------------------------------------------------------------
\* handleFiles(): no more than what is left, all requests at once; onInit() displays them.
\* Mutant: all the files.
AcceptedAll(files, values) == files
Accepted(files, values) == SubSeq(files, 1, Least(Len(files), NbLeft(values, uploadValueList)))

\* drop(): the only file of a list of one is replaced.
Drop(files) ==
  LET replaces == MaxFiles = 1 /\ NbLeft(fileValues, uploadValueList) = 0 /\ fileValues # <<>>
      values == IF replaces THEN FileDelete(fileValues) ELSE fileValues
      accepted == Accepted(files, values)
  IN  /\ \A i \in DOMAIN files : xhr[files[i]] = "unused"
      /\ fileValues' = values /\ withdrawn' = withdrawn \cup IF replaces THEN Deleted(fileValues) ELSE {}
      /\ uploadValueList' = uploadValueList \o accepted
      /\ xhr' = [f \in UploadFiles |-> IF f \in ToSet(accepted) THEN "sent" ELSE IF f \in ToSet(files) THEN "aborted" ELSE xhr[f]]
      /\ UNCHANGED <<dialog, touches>>

\* uploadItemToIndex(), and the entry that a finished request takes out.
\* Mutant: the first one.
TakenOutFirst(f) == Tail(uploadValueList)
TakenOut(f) == SelectSeq(uploadValueList, LAMBDA x : x # f)

\* onComplete(): out of the uploads, into the value.
\* Mutant: into the value while it still is one of the uploads.
AfterCompleteEarly(f) == FileAdd(fileValues, uploadValueList, f)
AfterComplete(f) == FileAdd(fileValues, TakenOut(f), f)
UploadCompletes(f) ==
  /\ xhr[f] = "sent" /\ xhr' = [xhr EXCEPT ![f] = "done"]
  /\ uploadValueList' = TakenOut(f) /\ fileValues' = AfterComplete(f)
  /\ UNCHANGED <<dialog, withdrawn, touches>>
\* onError(): the entry stays and keeps its place.
UploadFails(f) ==
  /\ xhr[f] = "sent" /\ xhr' = [xhr EXCEPT ![f] = "failed"]
  /\ UNCHANGED <<fileValues, uploadValueList, dialog, withdrawn, touches>>
\* onCancel().
UploadAborted(f) ==
  /\ xhr[f] = "sent" /\ xhr' = [xhr EXCEPT ![f] = "aborted"] /\ uploadValueList' = TakenOut(f)
  /\ UNCHANGED <<fileValues, dialog, withdrawn, touches>>

\* itemDelete() of an entry: an upload has no cancel() here, so that nothing happens.
DeleteEntry(i) ==
  /\ touches < MaxTouches /\ touches' = touches + 1 /\ i \in 1 .. Len(fileValues) + Len(uploadValueList)
  /\ fileValues' = IF i <= Len(fileValues) THEN FileDelete(fileValues) ELSE fileValues
  /\ withdrawn' = withdrawn \cup IF i <= Len(fileValues) THEN Deleted(fileValues) ELSE {}
  /\ UNCHANGED <<uploadValueList, xhr, dialog>>

-----------------------------------------------------------------------------
\* trigger(): the dialog opens for triggerUpload() or itemClick().
DialogOpens(purpose) ==
  /\ dialog = "closed" /\ touches < MaxTouches /\ touches' = touches + 1
  /\ IF purpose = "add" THEN IsAddEnabled(fileValues, uploadValueList) ELSE fileValues # <<>>
  /\ dialog' = purpose
  /\ UNCHANGED <<fileValues, uploadValueList, xhr, withdrawn>>
\* resolveCancel(): 100 ms after the focus is back there are no files.
DialogTakenForCancelled ==
  /\ dialog \in {"add", "replace"} /\ dialog' = IF dialog = "add" THEN "late" ELSE "late replace"
  /\ UNCHANGED <<fileValues, uploadValueList, xhr, withdrawn, touches>>
DialogCloses ==
  /\ dialog \in {"late", "late replace"} /\ dialog' = "closed"
  /\ UNCHANGED <<fileValues, uploadValueList, xhr, withdrawn, touches>>
\* The "change" event.  triggerUpload() adds each file to the list as it was rendered, itemClick()
\* deletes an entry and forgets the files.
DialogChange(files) ==
  LET replaces == dialog \in {"replace", "late replace"}
      values == IF replaces THEN FileDelete(fileValues) ELSE fileValues
  IN  /\ dialog # "closed" /\ dialog' = "closed" /\ \A i \in DOMAIN files : xhr[files[i]] = "unused"
      /\ fileValues' = IF dialog = "add" THEN FileAdd(values, uploadValueList, Last(files)) ELSE values
      /\ withdrawn' = withdrawn \cup IF replaces THEN Deleted(fileValues) ELSE {}
      /\ xhr' = [f \in UploadFiles |-> IF f \in ToSet(files) THEN "aborted" ELSE xhr[f]]
      /\ UNCHANGED <<uploadValueList, touches>>

Selections == {<<f>> : f \in UploadFiles} \cup {<<p[1], p[2]>> : p \in {q \in UploadFiles \X UploadFiles : q[1] # q[2]}}

FileListNext ==
  \/ \E files \in Selections : Drop(files) \/ DialogChange(files)
  \/ \E f \in UploadFiles : UploadCompletes(f) \/ UploadFails(f) \/ UploadAborted(f)
  \/ \E i \in 1 .. 2 * Cardinality(UploadFiles) : DeleteEntry(i)
  \/ \E p \in {"add", "replace"} : DialogOpens(p)
  \/ DialogTakenForCancelled \/ DialogCloses

-----------------------------------------------------------------------------
\* Files and uploads together never exceed the maximum, also when files are dropped while others
\* are still uploaded.
FilesBounded == MaxFiles > 0 => Len(fileValues) + Len(uploadValueList) <= MaxFiles

\* What is displayed as an upload is what is being sent or failed, whatever the order of the ends.
UploadsExact == ToSet(uploadValueList) = {f \in UploadFiles : xhr[f] \in {"sent", "failed"}}

\* A file that was uploaded is in the value until it is deleted there.
UploadedKept == \A f \in UploadFiles : xhr[f] = "done" => f \in ToSet(fileValues) \cup withdrawn

-----------------------------------------------------------------------------
(****************************************************************************)
(* Elements of a form that keep a position or a history of their own beside *)
(* the value of the form (vue/components/form/element): the rows of a table *)
(* that is sorted (table.vue), the history of the editor (editor.vue), the  *)
(* slide of a carousel (carousel.vue) and the month of a calendar           *)
(* (date.vue).  One element is looked at in a behaviour.                    *)
(****************************************************************************)
CONSTANTS
  Cells,          \* contents of the cells of the table's column, numbers
  TableSize,      \* rows of the table
  Documents,      \* contents of the editor
  HistoryMax,     \* entries of its history
  SlideValues,    \* values of the slides of the carousel, in their order
  FirstDays,      \* days where the calendar may start, as [m, d] of a year that is no leap year
  MaxWidgetSteps  \* bound: what the user does

ASSUME WidgetsAssumption == {TableSize, HistoryMax, MaxWidgetSteps} \subseteq Nat \ {0} /\ SlideValues # <<>>

VARIABLES
  widget,       \* the element
  cells,        \* the value of the table, a row is its cell
  sortOrder,    \* "none", "descending" (lowest first) or "ascending", as the code calls them
  edited,       \* the last edit of the table: the row as displayed, its cell, the cell before, the table before
  document,     \* the value of the editor
  history,      \* its earlier values, newest first
  before,       \* reference: the values before each edit that was not undone, newest first
  slide,        \* the index of the carousel
  slideValue,   \* its value
  day,          \* days since the first of January of the calendar's first year
  widgetSteps

widgetVars == <<widget, cells, sortOrder, edited, document, history, before, slide, slideValue, day, widgetSteps>>
tableVars == <<cells, sortOrder, edited>>
editorVars == <<document, history, before>>
carouselVars == <<slide, slideValue>>

-----------------------------------------------------------------------------
(* The calendar.                                                            *)

MonthDays == <<31, 28, 31, 30, 31, 30, 31, 31, 30, 31, 30, 31>>
FirstOfMonth == <<0, 31, 59, 90, 120, 151, 181, 212, 243, 273, 304, 334>>
DaysBefore(m) == FirstOfMonth[m]
YearOf(n) == n \div 365
MonthOf(n) == CHOOSE m \in 1 .. 12 : DaysBefore(m) <= n % 365 /\ n % 365 < DaysBefore(m) + MonthDays[m]
DateOf(n) == (n % 365) - DaysBefore(MonthOf(n)) + 1
NextMonth(m) == (m % 12) + 1
PrevMonth(m) == ((m + 10) % 12) + 1

\* daysMatrix(): rows of seven, the days of the month where their weekday is.  The first day of the
\* first year is taken for a Sunday.
\* Mutant: as if each month began with a Sunday.
FirstWeekdaySunday(n) == 0
FirstWeekday(n) == (n - DateOf(n) + 1) % 7
DaysMatrix(n) ==
  LET first == FirstWeekday(n)
      count == MonthDays[MonthOf(n)]
      rows == (first + count + 6) \div 7
      cell(i) == IF i < first \/ i >= first + count THEN 0 ELSE i - first + 1
  IN  [r \in 1 .. rows |-> [c \in 1 .. 7 |-> cell(7 * (r - 1) + c - 1)]]

-----------------------------------------------------------------------------
WidgetsInit ==
  /\ widget \in {"table", "editor", "carousel", "date"}
  /\ cells \in IF widget = "table" THEN [1 .. TableSize -> Cells] ELSE {<<>>}
  /\ sortOrder = "none" /\ edited = [row |-> 0, cell |-> 0, old |-> 0, table |-> <<>>]
  /\ document \in IF widget = "editor" THEN Documents ELSE {"none"}
  /\ history = <<>> /\ before = <<>>
  /\ slide = 1 /\ slideValue \in IF widget = "carousel" THEN {SlideValues[1], "other"} ELSE {"none"}
  /\ day \in IF widget = "date" THEN {DaysBefore(f.m) + f.d - 1 : f \in FirstDays} ELSE {0}
  /\ widgetSteps = 0

Step(w) == widget = w /\ widgetSteps < MaxWidgetSteps /\ widgetSteps' = widgetSteps + 1 /\ UNCHANGED widget

\* rowListToDisplay(): the indexes of the rows in the order of the column; a stable sort.
DisplayedRows(values, order) ==
  LET precedes(i, j) ==
        CASE order = "descending" -> values[i] < values[j] \/ (values[i] = values[j] /\ i < j)
          [] order = "ascending"  -> values[i] > values[j] \/ (values[i] = values[j] /\ i < j)
          [] OTHER                -> i < j
  IN  SetToSortSeq(DOMAIN values, precedes)
HeaderClick ==
  /\ Step("table") /\ sortOrder' = IF sortOrder = "descending" THEN "ascending" ELSE "descending"
  /\ UNCHANGED <<cells, edited, editorVars, carouselVars, day>>
\* itemUpdate(): of the row's own index.
\* Mutant: of the place where it is displayed.
RowIndexDisplayed(r) == r
RowIndex(r) == DisplayedRows(cells, sortOrder)[r]
RowEdit(r, c) ==
  /\ Step("table") /\ cells' = [cells EXCEPT ![RowIndex(r)] = c]
  /\ edited' = [row |-> r, cell |-> c, old |-> cells[DisplayedRows(cells, sortOrder)[r]], table |-> cells]
  /\ UNCHANGED <<sortOrder, editorVars, carouselVars, day>>

\* handleUpdate() and pushToHistory(); undo.
\* Mutant: what was typed is remembered, not what was there.
PushedTyped(d) == IF history # <<>> /\ Head(history) = d THEN history ELSE <<d>> \o history
Pushed(d) == IF history # <<>> /\ Head(history) = document THEN history ELSE <<document>> \o history
EditorUpdate(d) ==
  /\ Step("editor") /\ d # document /\ document' = d
  /\ history' = SubSeq(Pushed(d), 1, Min({Len(Pushed(d)), HistoryMax})) /\ before' = <<document>> \o before
  /\ UNCHANGED <<tableVars, carouselVars, day>>
EditorUndo ==
  /\ Step("editor") /\ history # <<>> /\ document' = Head(history) /\ history' = Tail(history) /\ before' = Tail(before)
  /\ UNCHANGED <<tableVars, carouselVars, day>>

\* slideSelectByIndex(): limited to the list; the value is set.
\* Mutant: limited on one side.
ClampedBelow(i) == IF i < 1 THEN 1 ELSE i
Clamped(i) == Max({Min({i, Len(SlideValues)}), 1})
SlideSelect(i) == slide' = Clamped(i) /\ slideValue' = IF Clamped(i) \in DOMAIN SlideValues THEN SlideValues[Clamped(i)] ELSE "error"
SlideMove(offset) ==
  /\ Step("carousel") /\ SlideSelect(slide + offset)
  /\ UNCHANGED <<tableVars, editorVars, day>>
SlideClick(i) ==
  /\ Step("carousel") /\ SlideSelect(i)
  /\ UNCHANGED <<tableVars, editorVars, day>>
\* onSwipe(): as many slides as were dragged over, then some more for the speed.
Dragged(direction, n) == IF direction = "right" THEN Max({slide - n, 1}) ELSE Min({slide + n, Len(SlideValues)})
SlideSwipe(direction, n, extra) ==
  /\ Step("carousel") /\ SlideSelect(Dragged(direction, n) + IF direction = "right" THEN -extra ELSE extra)
  /\ UNCHANGED <<tableVars, editorVars, day>>

\* The arrows of the calendar: by the length of this month or of the one before.
\* Mutant: both by the length of this month.
DecrementStepCurrent(n) == MonthDays[MonthOf(n)]
DecrementStep(n) == MonthDays[PrevMonth(MonthOf(n))]
IncrementStep(n) == MonthDays[MonthOf(n)]
CalendarMove(forward) ==
  /\ Step("date") /\ (IF forward THEN TRUE ELSE day >= 31)
  /\ day' = IF forward THEN day + IncrementStep(day) ELSE day - DecrementStep(day)
  /\ UNCHANGED <<tableVars, editorVars, carouselVars>>
\* selectDate() of a month: setMonth(), which goes on into the next month when the day does not exist.
CalendarMonth(m) ==
  /\ Step("date") /\ day' = 365 * YearOf(day) + DaysBefore(m) + DateOf(day) - 1
  /\ UNCHANGED <<tableVars, editorVars, carouselVars>>
CalendarDay(d) ==
  /\ Step("date") /\ d <= MonthDays[MonthOf(day)] /\ day' = day - DateOf(day) + d
  /\ UNCHANGED <<tableVars, editorVars, carouselVars>>

WidgetsNext ==
  \/ HeaderClick \/ \E r \in 1 .. TableSize, c \in Cells : RowEdit(r, c)
  \/ EditorUndo \/ \E d \in Documents : EditorUpdate(d)
  \/ \E o \in {-1, 1} : SlideMove(o)
  \/ \E i \in DOMAIN SlideValues : SlideClick(i)
  \/ \E direction \in {"left", "right"}, n \in 0 .. 1, extra \in 0 .. 2 : SlideSwipe(direction, n, extra)
  \/ \E forward \in BOOLEAN : CalendarMove(forward)
  \/ \E m \in 1 .. 12 : CalendarMonth(m)
  \/ \E d \in {1, 28, 31} : CalendarDay(d)

-----------------------------------------------------------------------------
\* An edit of a row changes the row that the user sees and no other, however the table is sorted.
EditHitsRow ==
  widget = "table" /\ edited.row # 0 =>
    \E i \in DOMAIN cells : /\ edited.table[i] = edited.old /\ cells = [edited.table EXCEPT ![i] = edited.cell]

\* Undo gives back what was there before the newest edit that was not undone, as far as the history
\* reaches.
UndoGivesBack == widget = "editor" /\ history # <<>> => Head(history) = Head(before)

\* The slide that is shown exists, and once the user moved it is the value.
SlideIsValue == widget = "carousel" => slide \in DOMAIN SlideValues /\ (widgetSteps > 0 => slideValue = SlideValues[slide])

\* The arrows of the calendar lead to the next and to the previous month with the same day, when
\* that month has it for certain.
MonthByMonth ==
  widget = "date" /\ DateOf(day) <= 28 =>
    LET lands(n, month) == DateOf(n) = DateOf(day) /\ MonthOf(n) = month
    IN  /\ lands(day + IncrementStep(day), NextMonth(MonthOf(day)))
        /\ day >= 31 => lands(day - DecrementStep(day), PrevMonth(MonthOf(day)))

\* Every day of the month is displayed once, below its weekday.
DaysUnderWeekdays ==
  widget = "date" =>
    LET matrix == DaysMatrix(day)
        first == day - DateOf(day) + 1
    IN  \A d \in 1 .. MonthDays[MonthOf(day)] :
          \E r \in DOMAIN matrix : /\ matrix[r][((first + d - 1) % 7) + 1] = d
                                   /\ \A q \in DOMAIN matrix, c \in 1 .. 7 :
                                        matrix[q][c] = d => q = r /\ c = ((first + d - 1) % 7) + 1


-----------------------------------------------------------------------------
\* Forms submit valid values, lists settle on the newest source, files and widgets keep their items.
FormElementsSafe ==
  /\ SubmittedValid
  /\ ChoiceKept
  /\ ListSettles
  /\ SelectedWins
  /\ ExactMatchFirst
  /\ FilesBounded
  /\ UploadsExact
  /\ UploadedKept
  /\ EditHitsRow
  /\ UndoGivesBack
  /\ SlideIsValue
  /\ MonthByMonth
  /\ DaysUnderWeekdays
=============================================================================
