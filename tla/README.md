# imimap in TLA+

imimap is the Rails application with which a degree programme administers the
internships of its students: students describe an internship and place it at a
company, an officer approves it, and later students search in what earlier
ones have done; companies and internships are shown on a map in the browser.
This directory holds TLA+ models of the parts of it that
carry state and rules, the TLC configurations that check them, and TLAPS
proofs of what matters most.

Paths below are relative to the repository.  Everything runs inside this
directory:

    tlc -workers 2 -config CompanyVisibilityThreads.cfg MCCompanyVisibility
    tlapm CompanyVisibilityProofs.tla

## 1. The system

One PostgreSQL database, served by puma with 5 threads (`config/puma.rb:9`) or
unicorn with 4 workers (`config/unicorn.rb`).  Threads share nothing but the
database.  There is no job queue, no cache and no explicit transaction or lock
in any request; ActiveRecord wraps each single `save` or `destroy` in a
transaction, every other sequence of statements can be interleaved with
anything.  No table has a `lock_version`; the only unique indexes that matter
are those on `users`.

| component | state | operations | interacts with |
|---|---|---|---|
| Company visibility (`user_can_see_company.rb`, `companies_helper.rb`) | rows of `user_can_see_companies` | `check_created_by`, `under_limit?`, two resets | company search and address list spend it; companies hold it by foreign key |
| Companies and addresses (`companies_controller.rb`, `company_addresses_controller.rb`) | `companies`, `company_addresses` | create, edit, suggest, select, destroy | give an internship its address |
| Internship search (`searches_controller.rb`, `searches_helper.rb`, `user_can_see_internship.rb`) | rows of `user_can_see_internships`, the form in the browser | search, confirm, shuffle, no_more_results, reset | destroyed with an internship |
| Internship approval (`internships_controller.rb`, `abilities/user.rb`, `app/admin/internships/`) | `internships` | create, update, destroy, address selection, officer's form | complete internships list them |
| Complete internships (`complete_internship.rb`) | `complete_internships` | create, update, `aep`/`passed` by the officer | one per student, holds partial internships |
| Login (`ldap_authenticatable.rb`, `user.rb`, `student.rb`) | `users`, `students` | find or create at the first login | everything hangs on the student |
| Semesters (`semester.rb`, `semester_helper.rb`) | `semesters` | date, name and id conversion | internships, postponements |
| Duration (`internship_duration.rb`, JavaScript of `_form_internship.html.erb`) | none | start, end and weeks of an internship | internship form |
| Postponements (`postponements_controller.rb`) | `postponements` | apply, approve, destroy | students, semesters |
| Record references (`schema.rb`, the `dependent:` options) | foreign keys | destroy | all tables |
| Authorization rules (`app/models/abilities/`) | none | `can?` | every request |

The rest of the program runs in the browser, in one thread, but as callbacks:
events, timers, animation frames and images come in an order nobody chose, and
listeners call back into what is calling them.  All of it is
`app/assets/javascripts/leaflet.js` but the last row.

| component | state | operations | interacts with |
|---|---|---|---|
| Events (`L.Evented`) | listener lists of every object | `on`, `once`, `off`, `fire`, event parents | everything below |
| Movement (`L.Map`, `PosAnimation`, `Map.Drag`, `TouchZoom`) | centre, zoom, animations under way | `setView`, `panBy`, `flyTo`, `stop`, drag, pinch, resize | tells layers `movestart`, `zoom`, `moveend`, ... |
| Zoom limits (`updateZoomLevels`, `Control.Zoom`) | limits of map and layers, the buttons | add and remove tile layers, set limits | movement asks them |
| Tiles (`L.GridLayer`, `L.TileLayer`) | tiles, levels, their images | load, fade, prune, abandon | follow the movement |
| Layers and popups (`Layer`, `LayerGroup`, `Popup`, `Attribution`) | who is on the map, bound to whom, open | add, remove, bind, open, close | zoom limits, list of layers |
| Tooltips (`L.Tooltip`, `DivOverlay`) | bound, open, fading | bind, open, close, toggle | come and go with their layer |
| List of layers (`Control.Layers`) | entries, inputs, what it hears | add, remove, click, expand | layers, zoom |
| Paths (`Canvas`, `Polyline`, `Polygon`, `Bounds`, `LineUtil`) | draw list, canvas, rings, bounds | draw, reorder, clip, hit test | movement, mouse |
| GeoJSON (`L.GeoJSON`) | layers made of data | `addData`, `toGeoJSON` | groups, markers, paths |
| Gestures (`Draggable`, `BoxZoom`, `Tap`, `ScrollWheelZoom`, `Keyboard`) | what is pressed, held, turned, in focus | start, move, end, enable, disable | one drag at a time |
| Browser events (`DomEvent`, `_fireDOMEvent`, pointers, double taps) | handlers, pointers, flags | add, remove, filter, deliver | map and layers |
| Confetti (`happy_birthday.js`) | keys typed, loop, timers | key, timer, frame | - |

What has no state or no rules of its own is listed with its reason in
`PROJECT.json`: offers, notifications, ratings, the JSON of maps, PDF/CSV output,
mailers, status pages, rake tasks.

### What is hard here

* **Check then act over several statements.**  Both visibility limits look for
  a row, count rows and create one; the ability to edit an internship is
  checked on a loaded row and used in a later `UPDATE`; a first login looks for
  a user and then creates one.
* **Old pages.**  A form stays in a browser while the record it edits is
  approved, edited or destroyed, and a search form sends its buttons to
  different requests depending on a count that was true when it was rendered.
* **Steps that are not atomic although they read so**: `destroy_all` loads
  the rows and deletes them one at a time.
* **Limits at their boundary**: a comparison with `==` instead of `>=`, a count
  taken after the last place was spent, a list of one `nil`.
* **Records that outlive what they refer to**: several foreign keys exist only
  as columns.
* **Callbacks that come late** (browser): a timer, a frame or an image that was
  asked for before the map moved on, the layer was removed or the gesture broken
  off.
* **Reentrance** (browser): a listener removes listeners, removes layers or raises
  while the loop that called it is under way.
* **The same fact in several registers** (browser): a layer is in `_layers`, in a
  group, in the list of layers and credited; a path is in a linked list and on
  the canvas; a limit is in options and in a button.
* **JavaScript at its edges** (browser): `Infinity - a`, a limit of 0 that is
  falsy, an index of -1, a variable that is unset until the first frame.

### What makes each component correct

* Visibility: nobody sees more than the limit (plus what overlapping requests
  can slip past it); what was seen stays visible at the limit and costs nothing
  again; what is granted is recorded; a reset gives the user room again.
* Search: a result page lists exactly what the student has paid for and what
  matches; a student without slots is told so.
* Approval: after approval the student's requests no longer change the
  internship; a successful answer means that the form has been stored.
* Complete internships, login: at most one per student or account, whatever
  the interleaving of the first requests.
* Semesters, duration: conversions are inverse to each other; the server and
  the browser agree on what is a valid duration.
* Browser map: a movement that begins ends; a map at rest shows its whole view; a
  listener that is attached is called once; registers of the same fact agree;
  the canvas shows the paths as they are and the mouse meets what is shown; a
  gesture is told as what it was; data comes back as it went in.

## 2. The modules

| module | models | kind |
|---|---|---|
| `VisibilityQuota` | what a visibility limit promises: a set of objects per user and kind that grows only below an allowance | abstract specification |
| `CompanyVisibility` | `user_can_see_company.rb`, `companies_helper.rb`, the four requests around it | statement-level, implements `VisibilityQuota` |
| `CompanyVisibilityProofs` | theorems about `CompanyVisibility` | TLAPS |
| `InternshipSearch` | `searches_controller.rb`, `searches_helper.rb`, `user_can_see_internship.rb`, the form in the browser | statement-level, implements `VisibilityQuota` |
| `InternshipSearchProofs` | theorems about `InternshipSearch` | TLAPS |
| `InternshipApproval` | `internships_controller.rb`, the address requests of `company_addresses_controller.rb`, the officer's form, the edit ability | load, check and save as separate steps |
| `InternshipApprovalProofs` | theorems about `InternshipApproval` | TLAPS |
| `Accounts` | `User.find_or_create`, `Student.find_or_create_for`, ActiveAdmin on users and students | statement-level |
| `AccountsProofs` | theorems about `Accounts` | TLAPS |
| `SemesterHelper` | `semester_helper.rb` | pure operators |
| `Semesters` | `semester.rb`, ActiveAdmin on semesters | statement-level, uses `SemesterHelper` |
| `InternshipDuration` | `internship_duration.rb` and the JavaScript of the internship form | form and verdict, uses `SemesterHelper` |
| `SemestersProofs` | theorems about `SemesterHelper`, `Semesters` and `InternshipDuration` | TLAPS |
| `Evented` | `L.Evented` | heap of arrays and listeners, stack of fires |
| `MapMovement` | `L.Map` and the animations and gestures that move it | one action per call, frame, timer and event |
| `GridLayer` | tiles of a layer | composed with `MapMovement`, handles what the map fires |
| `MapLayers` | layers, groups, popups, attribution | one action per call with its listeners |
| `Tooltips`, `ZoomLimits`, `LayersControl` | the component of that name | one action per call or event |
| `DrawOrder` | what a draw list promises: a sequence of paths | abstract specification |
| `DrawList` | the doubly linked list of `L.Canvas` | implements `DrawOrder` |
| `CanvasRenderer` | partial redraws of `L.Canvas` | extends `DrawOrder` |
| `Bounds`, `Clipping` | `L.Bounds`, `LatLngBounds`, `LineUtil`, `PolyUtil` | pure operators |
| `Boxes` | bounds extended in any order | uses `Bounds` |
| `Polylines` | projecting, clipping, simplifying and hitting a path | uses `Clipping` |
| `GeoJson` | data to layers and back | uses `Clipping` |
| `Draggables`, `MapHandlers`, `DomEvents` | gestures and events of the browser | one action per event, timer or frame |
| `EventProofs` | theorems about `Evented`, `MapHandlers` and `DomEvents` | TLAPS |
| `LayerProofs` | lemmas about folds; theorems about `Bounds`, `Boxes`, `DrawList`, `Tooltips`, `Draggables`, `MapLayers`, `LayersControl` and `CanvasRenderer` | TLAPS |
| `MovementProofs` | theorems about `MapMovement`, `GridLayer`, `ZoomLimits` and `Confetti` | TLAPS, uses `LayerProofs` |
| `Confetti` | `happy_birthday.js` | one action per key, timer, frame |

`MC...` modules extend these and give TLC its values; each `.cfg` is one run.

### Conventions

* `req[w]` is the request that thread `w` serves: `pc` is the statement it will
  execute next, the other fields are the local variables that live across
  statements.  `pc = "answered"` means that the thread is free; what it keeps is
  the answer it gave last (and history that a property needs).
* One action is one SQL statement with the Ruby around it.  Reading into a local
  variable and deciding on it belong to the same action as the read, since no
  other thread can notice where between them the time passes.
* Primary keys are never reused, not even while a thread holds a row that has
  been destroyed: the `Fresh...` operators exclude them.
* `where(...).first` without an order, and the `has_one`s, take *any* matching
  row.
* `overlapped` is a history variable: it becomes and stays true when a thread
  takes a step while another is in the middle of a request.  A property with
  `~overlapped` is about requests that follow one another, in any order and
  over pages of any age.  It is used where the code is right sequentially and
  promises nothing for requests side by side; what can go wrong side by side is
  then bounded by another property of the same module.
* An operator whose comment starts with *Mutant* is a plausible mistake.  No
  specification uses it; `PROJECT.json` lists in which definition's place each
  one must break which property.

### CompanyVisibility

`companies` and `rows` are the tables.  A row carries a `copy` number because
the table has no unique index and can hold equal rows.

`Suggest` (`companies#suggest`) and `SuggestAddress`
(`company_addresses#suggest_address`) accept a request with the set of companies
the name matches or the link names.  `FindCompany`, `CheckLimit` and `Create`
are the three statements of `check_created_by`, executed for every result in
turn; `ResultsChecked`, `UnderLimitSearch` and `UnderLimitSuggest` are what
follows the `select` until the page is rendered.  `ResetLimit`, `DestroyRow` and
`ResetDone` are `destroy_all`, which loads the rows and deletes them one at a
time.  `DestroyCompany` is refused by the foreign key for a company that
somebody has seen; a company destroyed in the middle of a check fails the
request, in `FindCompany` (`Company.find` raises) or in `Create` (the foreign
key).  Fuzzy matching is abstracted to the sets of matches `fuzzy` and `exact`,
with the length rule of `search_name` and `case_for_count`.

### InternshipSearch

`page[u]` is the form in the browser of `u`: whether it was rendered with free
slots decides where its buttons lead, and it stays as it was while the count
changes.  `StartSearch`, `ShowResults`, `Search`, `Shuffle` and `NoMoreResults`
are the five requests, `Confirm` the button of the confirmation page.
`FindInternship`, `CheckLimit`, `Create` are the statements of
`internship_search`; `SampleChecked`, `ViewedInternships` and `RenderResults` the
rest of `pick_random_results`.  A search form is the set of internships its
filters let through (`Match`); `Past` are those that have begun, `Recent` those
of the last two years, `Samples` what `sample(12)` can draw.  Admins search
without limit.

### InternshipApproval

A row is a function from columns to values.  `Authorize` loads the row and asks
the ability, `Save` writes the columns in which the form differs from what was
loaded (ActiveRecord's dirty tracking), `Delete` deletes; the row can have
changed or gone between.  `Update`, `CreateAndSave` and `Destroy` are the
student's requests with an ability, `SaveAddress` the one without;
`OfficerUpdate` and `OfficerDestroy` are ActiveAdmin's.  Forms post all their
fields.  `late` counts what a check from before the closing lets through after
it.

### Accounts

`LogIn` starts when the LDAP server has said yes.  `FindUser`, `ValidateUser` and
`InsertUser` are `User.find_or_create`; `FindStudent`, `CreateStudent` and
`SaveUser` are `Student.find_or_create_for`.  An address can be typed with
capital letters, and a password can be one that devise's length limits refuse
although the LDAP server accepted it; both make a login take other branches.
The `Admin...` actions are the officer's, and `Crash` kills a thread between two
statements.

### SemesterHelper, Semesters

A date is the number of its month, since semesters begin on the first of a
month; a sid such as 2013.1 is 20131.  `Semesters` has `for_date` in its two
statements, `current`, `previous`/`next`, and the officer's create, rename and
destroy with the `before_save` that derives the name from the sid or the sid from
the name.

### InternshipDuration

A date is the number of its day, day 0 a Monday.  `weeks` and `do_validation` are
the server's rule in hundredths of a week, `weeksBetween` and `validate` the
browser's.  `note` is the verdict next to the dates: the server writes it with the
page, the browser overwrites it when the student leaves a date field.

### Evented

`arrays` and `cells` are the heap, since `fire` walks through an array that `_on`
and `_off` replace or keep depending on `_firingCount`.  `stack` holds the fires
under way: between two steps of a loop the page's listener runs (`mode = "run"`)
and may do everything, also `fire` again or raise (`Throw`), which skips the
decrement of `_firingCount` and leaves the list copied for ever.  `Splice` and
`Silence` are the two halves of removal during a fire: copy the array, and put
`falseFn` where the loop will still come by.

### MapMovement, GridLayer

The world has one dimension and two or three zooms; a position is a pixel of the
closest zoom.  `anim`, `pan` and `fly` are the three animations, `frames` and
`timers` the callbacks on their way, each of which the browser may bring at any
moment; `transitionend` may come, come late or never, in which case
`ZoomTimeout` ends the animation.  Every call stops what is under way as the code
does, which is where a flight loses its `zoomend` (`flightCut`) and two fingers
or a second press a `moveend` (`hushed`).  `fired` is what the map fires in a
step, in order.

`GridLayer` composes a tile layer with that map: a step of the map is a step of the
layer, which handles `fired` event by event (`Handle`), each with the map as it
was then.  Images arrive, fail or are late (`TileArrives`, `LateArrives`), fading
takes frames, pruning waits 200 ms, `move` is throttled.

### Layers: MapLayers, Tooltips, ZoomLimits, LayersControl

`MapLayers` has one record `reg` of all registers: `_layers`, `_map` of each layer,
load listeners, members of groups, popups and sources, credits.  An action is one
call of the page with everything that its events trigger.  `Tooltips` does the
same for one layer and tooltips of every kind; the fade-out timer is an action.
`ZoomLimits` keeps `_layersMinZoom`, `_layersMaxZoom`, the options and the buttons;
`Endless` stands for `Infinity`, which is also the span up to it.  A zoom that is asked for
is limited when it is asked for, and then reset to at once, animated to, or, while an
animation goes on, forgotten (`ChangeZoom`); the map is at the old zoom until
`ZoomTransitionEnd` moves it to where the animation leads, which nobody limits again.
`frames` holds, in their order, the animations that are still to start and the `zoomend`s
that are still to be told.  `FlyToZoom` is not limited, and every call that stops the map
cuts the flight where it is.
`LayersControl` keeps entries, inputs and what the map shows; a page that hides
overlays on `baselayerchange` calls back in the middle of a click.

### Paths: DrawList, CanvasRenderer, Bounds, Boxes, Clipping, Polylines

`DrawList` patches pointers as the code does and is shown to implement the sequence
`DrawOrder`; `CanvasRenderer` then draws in that sequence.  The canvas is a row of
cells, each with what was painted on it; only the redraw bounds are cleared and
drawn, in the next frame, which may be one that `_destroyContainer` could not
cancel (`OrphanFrame`).  Where a path is follows from the origin of the map's pixels
(`shape`), what it was projected to from the events the renderer was told (`rings`), and
what is drawn of it from the area it was cut to (`parts`): a renderer that is off the map
is told nothing, updates its area before it listens to itself when it comes back
(`AddRenderer`), and does not update while a zoom is animated (`UpdateCanvas`).  Four marks
keep what that leaves behind: `cut`, `skipped`, `unclipped` and `turned`.

`Polylines` has integers for pixels: a path keeps the rings
of the zoom it was projected for, and `FirstCode` the outcode that one call of
`clipSegment` leaves to the next.  `Clipping` rounds as `Math.round` does, halves up, also
where a side is followed against its direction and the denominator is negative; that the
ends of a line that was cut lie within half a pixel of the line is part of
`LineIsWhereItIs` (`CutWhereItLeaves`).

### GeoJson

A layer on the map is kept with what the data said of it, `said`, as markers are
dragged and rings closed; `ToGeoJSON` has to say the same.

### Browser events: Draggables, MapHandlers, DomEvents

`Draggables` has the map and a marker as two draggables that share one
`_dragging`, and presses, moves and releases that the document may not hear of.
`MapHandlers` has box, tap, wheel and keyboard, `DomEvents` clicks that bubble,
pointers, double taps, Android's second clicks and `on`/`off` of an element; in
both each is a variable of its own.

### Confetti

`disc` is the random line of points with the intervals still free, `party` the
keys, the loop and the timers.

## 3. What the runs check

Runs that pass (TLC finishes without error):

| run | instance | distinct states | properties |
|---|---|---|---|
| `CompanyVisibilityThreads` | 1 user, 2 companies, 2 threads, limits 1 and 2 | 238 026 | `OvershootBound`, `DuplicateBound`, `GrantIsRecorded`, `SeenStaysVisible`, `SuggestionIsComplete`, `ImplementsQuota` |
| `CompanyVisibilityLive` | the same, limit 2, `suggest_address` and resets only, with fairness | 20 489 | `RequestsAreAnswered`, `ResetGivesRoom` |
| `InternshipSearch` | student and admin, 3 internships, 2 forms, 2 threads, limit 2 | 888 504 | `ListsExactlySeenMatches`, `FullUserIsTold`, `ImplementsQuota` |
| `InternshipApproval` | 2 students and the officer, 1 internship, 2 threads | 518 957 | `LateEditsBounded`, `EditsOnlyOwnOpen`, `SuccessMeansSaved` |
| `Accounts` | 1 student's address, 2 users, 3 students, 2 threads | 514 659 | `DuplicateStudentBound`, `SuccessMeansAssociated`, `StudentIsKept` |
| `Semesters` | 3 rows, 2 threads, months on both sides of every boundary; or a form with 7 first days, 56 last days, 2 semesters | 58 186 | `ForDateCovers`, `NamesDenoteSids`, `LookupAddsNoDuplicate`; `WeeksAreWorkingWeeks`, `BrowserNeverStricter` |
| `BrowserMap` | one tile layer, zooms 0 to 2, a window of 2 pixels, tiles of 4, 2 calls | 700 946 | `TilesFollowMap`, `NoHoles` |
| `BrowserParts` | one part of the browser code moves at a time, in one of 24 ways, see below | 429 360 | `EndsWhatItStarts`, `MovementEnds`, `ListenersAreCalled`, `RegistersAgree`, `ImplementsOrder`, `CanvasIsTrue`, `DragsAreOrderly`, `GesturesAreTold`, `TipsFollowLayer`, `LimitsAreKept`, `ListAndMapAgree`, `EventsAreToldOnce`, `BoundsAreRight`, `LineIsWhereItIs`, `DataComesBack`, `PartyInOrder` |

In `Semesters` and `BrowserParts` parts that share no variable are run together: a
variable `moving`, chosen at the start, says which of them moves, and the others
keep their first state.  A behaviour of such a run is therefore a behaviour of one
part, and its states are the sum, not the product, of those of the parts.  The canvas
moves in two ways, with two paths on a map at rest, and with one on a map that pans, flies
and zooms; two paths in other views are left to the proof.  A
browser property that is written `[][v' # v => Inv' /\ Step]_v` states an invariant
and what a step may do together; the guard only spares TLC from evaluating it
while another part moves.

What they show:

* **The limits can be passed, but only by what overlaps.**  `check_created_by`
  and `internship_search` count and create in separate statements, so requests
  side by side can each take the last place.  `OvershootBound` says the excess is
  at most the number of threads less one; it counts the rows together with the
  threads about to create one, which is what makes it inductive.
* **The quota as such** is `VisibilityQuota`, which both components implement with
  that excess as slack: nothing becomes visible except by a grant below the
  allowance, and nothing disappears except by a reset or with the object.
* **Nothing paid for is lost.**  `GrantIsRecorded`: what was visible when a request
  came in, or was granted to it, keeps its row until a reset takes it.
  `SeenStaysVisible`: at the limit, a company seen before is not refused.
  `SuggestionIsComplete`: a list of suggestions that is shown lacks no match.
  `ListsExactlySeenMatches`: a student's search lists what the student has seen
  and what matches, nothing else and no less.
* **A reset works against concurrent searches** (`ResetGivesRoom`), although
  `destroy_all` deletes row by row while other threads create: a thread adds at
  most the row it had counted for.  For that the limit has to have more places
  than there are other threads (2 and 1 in the run; 5 or more and 4 in the
  application: `LIMITS` are 5 and 12 in the code).
* **Approval closes an internship**: after it, only requests whose check came
  before can still write, each once (`LateEditsBounded`).
* **A login repairs**: whatever killed logins and officers have left, a login that
  succeeds leaves the user with a student that exists, and never exchanges the
  student of a user that has one.
* **Semesters**: for every date the lookup yields the semester that contains it.
* **A map at rest is whole** (`TilesFollowMap`): no tile of its view is missing or
  unwanted, whatever calls and callbacks crossed; a tile counts as loaded only by
  the image it asked for, not by that of a tile that had its place before; and
  pruning never takes away what covers a place that is still loading
  (`NoHoles`).
* **What begins ends**: a `movestart` is followed by a `moveend`
  (`MovementEnds`, under fairness of timers and frames), and a map that rests has
  told so, but for the two ways the code itself forgets it (`EndsWhatItStarts`).
* **Listeners hear what they asked for** (`ListenersAreCalled`): nobody is called
  after `off`, twice, or not at all, even if listeners raise.
* **Registers agree**: layers, groups, popups and credits (`RegistersAgree`), the
  list of layers and the map (`ListAndMapAgree`), limits and buttons
  (`LimitsAreKept`), a tooltip and its layer (`TipsFollowLayer`).
* **Limits are kept** (`LimitsAreKept`): a map at an allowed zoom, or on its way to one,
  stays so through all that is under way.  It goes astray only by what the code does not
  limit: a limit that is set while an animation leads beyond it, a flight, a layer's upper
  limit of zero, and limits that leave no zoom.
* **The canvas is true** (`CanvasIsTrue`): paths are cut as they are where the map is, but
  for what the renderer was not told; outside the region that waits for a frame
  every cell shows exactly what was cut of the paths, in their order, and the mouse meets
  the topmost; the order is that of a sequence although pointers are patched by
  hand (`ImplementsOrder`); clipping and simplifying move a line by no more than
  they may, and a path is hit where it is (`LineIsWhereItIs`).
* **Gestures are told as what they are** (`GesturesAreTold`, `DragsAreOrderly`,
  `EventsAreToldOnce`): a touch is a tap or a hold or neither, a turned wheel zooms
  within the debounce time, keys are heard in focus only, one thing is dragged at
  a time, a click reaches everyone who listens on its way once, two taps are one
  double tap.
* **Data comes back** (`DataComesBack`), for every type of geometry.
* **One loop of confetti** (`PartyInOrder`), unless the code is typed before the first
  frame.
* **Weeks are weeks of five working days**: moving a weekend end to Monday and the
  rounding make the thresholds 4, 16 and 19 fall exactly on whole working weeks.

Runs that find a violation, each of one statement of a comment or document:

| run | the statement | what the code does |
|---|---|---|
| `CompanyVisibilityLastSlot` | `config/locales/controllers/en.yml:41`: "You have exceeded the limit" | the search that spends the last place is granted everything and then answered with this, without its list, because `under_limit?` is evaluated after the grants |
| `InternshipApprovalAddress` | `doc/authorization/concept.md:43`: the address is editable only before the application | `save_address` asks no ability |
| `InternshipDurationAgreement` | `internship_duration.rb:29`: the rule is "also in js" | the browser rounds to whole weeks, ignores weekends and always requires 16 |
| `AccountsCapitals` | `config/initializers/devise.rb:45`: the email is downcased when used to find a user | `find_or_create` looks for it as typed; the second login with capitals gets a user that is not in the table |

Findings about the code that are not violations of a documented statement are in
the hazards of `PROJECT.json`: `no_more_results` recognises a full user with
`== 12` only, and the random button fails when there is no recent internship.

In the browser code the models met more places where the code does what its
authors hardly meant.  Each is in the model as the code has it, and the
properties say so where it matters (`hushed`, `flightCut`, `strayed`, `mixed`,
`left`, `early`, `missed`, ... are history variables for them).  Lines are those of
`leaflet.js`:

* Layers: adding the attribution control again counts every credit twice (5612);
  a tile layer removed before the first view leaves its zoom limit (6664, 6725).
* Drags: the frame of an automatic pan outlives a marker that is removed in
  mid-drag (7262, 7308); a second press forgets that the first one moved (5859).
* Handlers: Escape leaves `_moved` (13116), a second press with shift orphans a
  box, a cancelled touch leaves the hold timer (13722), enabling the keyboard
  while the map is in focus does not listen (13492).
* Tooltips: binding another one leaves the open one on the map (10398).
* Limits: when both spans are infinite nobody is told of a changed limit (6753), and
  a maximum of 0 does not move the map (6757).
* Events: the canvas does not ask `_simulated` (12400), the touch of a double tap
  and `_simulatedClick` are never reset (2161, 2883), `off(el)` without types
  forgets all handlers and removes none (2648).
* Bounds: `overlaps` holds for a box without area inside another, though its
  comment speaks of an area (1289).
* Paths: `setStyle` with a weight raises on a line that never had points (8303), a
  weight that has grown since clipping is not clipped anew (8539).
* GeoJSON: a nested group becomes `undefined` in a GeometryCollection (8990), an
  empty polygon has an undefined point (8856).
* Confetti: an arrow key too many before the code hides it
  (`happy_birthday.js:245`); the loop starts twice when the code comes before the
  first frame (200).

### Why the bounds are enough

Two threads show every race of two statements; a third one could only add
another overlapping request of the same kind, and the bounds that count threads
are stated for any number (and `OvershootBound` is proved for any).  One student
is enough where limits are per user; two where ownership moves between students.
Limits of 1 and 2 give the empty, the partly filled, the full and the overfull
table; `Copies` has one more element than threads, so that a row too many would
fit.  `UserIds` and `StudentIds` have one more than what the bounds allow, too.
Months and days lie on both sides of every comparison in the code.  Symmetry is
declared for threads, users, companies and texts, which the specifications treat
alike, never in the liveness run.

In the browser, zooms 0 to 2 with windows smaller and larger than a tile give views
that share tiles with others at every zoom, or none; two calls interrupt each other
once and callbacks remain from both.  Two fires inside one
another and two listener objects in `Evented` give a listener that removes itself
or the other in a nested fire.  Two paths on two
cells give every overlap; three paths every case of list surgery (first, middle,
last).  The lines of `Polylines` cross the window, leave it on both sides, run
around it and touch its corner at both scales.  `GeoData` has every type of
geometry, closed, open and empty.  Clocks run past the longest delay twice.

More bounds are in `MCBrowserParts`: at most one layer waits for the first view
(`FewWait`), and one popup is bound to groups (`GroupsBindFirst`).  Of the canvas, one path
is restyled on a map at rest (`OneIsStyled`, `MapRests`), one is on the map in other views
(`OneIsThere`), with two origins and two areas (`Origins`, `Windows`), and the mouse looks
when no redraw waits and leaves before anything else happens (`LooksAndLeaves`); nothing but
the mouse reads what it has met.  Of the limits, two animations, flights, pinches or frames
are under way at once (`MaxUnderway`), which is what it takes for one to cross another; one
option is set at a time (`OneOption`); of layers with limits, options and what is under way
three meet (`ThreeMeet`); and while the zoom control is disabled nothing is under way
(`RestsDisabled`).  Both are proved without these bounds.

### Fairness

`FairSpec` (and its restriction in the liveness run) assumes weak fairness of
`Serve(w)` for every thread: a thread that has accepted a request goes on
executing it, which is what puma's thread pool does; there is no blocking wait in
any request.  No fairness is assumed of users, officers or of the acceptance of
requests.  The liveness run leaves out searches by name: both kinds execute the
same statements, and the limit 2 and two companies with copies suffice for the
interplay of reset and creation.

`BrowserParts` assumes weak fairness of `Due`: the browser brings the frames and
timers it was asked for (`requestAnimationFrame` may wait for a hidden page, but
not for ever on a page in view).  No fairness is assumed of `transitionend`, of
images, of the user or of calls.

`CHECK_DEADLOCK FALSE` is set in the runs whose calls are bounded: the browser may
have nothing left to do.

## 4. What is proved

`CompanyVisibilityProofs`, for all values of the constants (any number of users,
companies and threads, any limits):

* `TypeCorrect`: `Spec => []TypeOK`, one step per action.
* `Overshoot`: `Spec => []OvershootBound`.  The bound itself is not enough for an
  induction, because cardinalities only mean something for finite sets:
  `Inv == TypeOK /\ IsFiniteSet(rows) /\ OvershootBound` is inductive.  The step
  that matters is a passed `CheckLimit`: the rows are then fewer than the limit,
  and the threads about to create are at most all of them (`BoundKeptByCheck`);
  a `Create` turns one of those threads into one row (`BoundKeptByCreate`);
  every other step neither adds a row nor a creating thread (`BoundKept`).
* `SequentialLimit`: with one thread, the limits hold as they are written.
* `Refinement`: `Spec => ImplementsQuota`.  A creation is a `Grant`, or a stutter
  when the row is a copy; a deletion is a `Forget`, or a stutter when a copy
  remains.  That `Grant` finds room uses `Overshoot`: the rows and the creating
  thread together are within the slack.
* `Duplicates` (`DuplicateBound`): a thread that turns to creating has just found no
  row of its user and company, so the copies are none and the threads about to add
  one at most all; each `Create` turns one such thread into one copy
  (`CopiesKept`, `CopiesKeptByCreate`).
* `SeenStays`, `GrantsAreRecorded` and `SuggestionsAreComplete` speak of the moment a
  thread decides or answers, and what it then knows was collected many statements
  before.  `Knowledge == \A v : Honest(v) /\ Complete(v)` says what that is at every
  statement: the companies a thread was granted, or whose user could see them at
  the start, have their rows, and none is both known and refused (`Honest`); a
  thread that has refused a company works for a user at the limit (`Complete`).
  Both survive rows that others add (`StaysTold`), and a reset that takes a row away
  from under a request (`DestroyTold`) because the history variables `known` and
  `refused` of its threads forget what depended on the row.

Assumptions: `LimitsAssumption` (limits are positive numbers),
`WorkersAssumption` (finitely many threads, at least one), `NoneAssumption` (`None`
is none of the values it stands beside).

`InternshipSearchProofs`, for any users, internships, searches and threads: the same
`TypeCorrect`, `Overshoot` and `Refinement` of the search, along the same argument.
What differs: the types of a request have to say that one which filters by a search
has one (a random pick has none), a destroyed internship takes the rows of all users
with it (`DestroyImplementsWithdraw`), and the bound `Overshoot` proves is checked
by no run of its own, since `ImplementsQuota` fails as soon as it does.
`ListIsExact` (`ListsExactlySeenMatches`) and `FullUsersAreTold` (`FullUserIsTold`) rest on
`Solo`: as long as no requests have overlapped, one thread at most is at work; what
it has granted and has still to look at are matches, what it has granted has its
row, and a page is rendered with exactly the matches seen (`Searching`); and no user
has got past the limit, so that the `==` of `no_more_results` meets a full user.

`InternshipApprovalProofs`, for any students, internships, forms and threads:

* `TypeCorrect`: every row is a function from columns to values that fit them, and
  what a form posts fits its columns (`RowOfColumns`, `FormFits`, `WrittenRow`).
* `LateEdits` (`LateEditsBounded`) counts: when an officer closes an internship,
  the checked requests in flight are at most those of the other threads, and a
  `Save` after it turns one of them into one late edit (`LateInductive`,
  `SaveKeepsBound`).
* `OwnOpenEdits` (`EditsOnlyOwnOpen`) and `SavesAreWhole` (`SuccessMeansSaved`) rest on
  `Solo`: as long as no requests have overlapped, the row a thread has loaded is
  the row in the table, and what it has checked still holds; so the columns in
  which its form differs from what was loaded are those in which it differs from
  the table.

`AccountsProofs`, for any accounts and threads:

* `TypeCorrect` and `AddressesAreUnique` (`OneUserPerAddress`): `Kept`, which adds
  unique primary keys, is inductive.  All that any step does to the table of users
  is one of four things (`UsersStep`, `UsersStay`), as for the students
  (`StudentsStep`, `StudentsStay`).  A new primary key is the least that nobody
  has; that there is one is the well-founded order of the numbers (`LeastIn`).
* `DuplicateStudents` (`DuplicateStudentBound`): when a thread finds no student and
  decides to create one, the copies are none and the threads that have decided
  the same at most all (`DecidingKeeps`); a creation turns one of them into a copy
  (`CreatingKeeps`); what officers enter under the number is not counted, and when
  they destroy a student its key counts again, which is right because no other
  student has it (`AdminBounded`).
* `SuccessAssociates` (`SuccessMeansAssociated`) and `StudentsAreKept`
  (`StudentIsKept`) rest on `Solo`: a login that nothing overlaps knows its user's
  student as it is in the table; when it goes on to give it one, that user has
  none; and if the address was typed in small letters and the password suits, that
  user is in the table (`OnItsWay`, one lemma per statement).

`SemestersProofs`, for any threads, keys and names and all dates of 2000 to 2099:

* `SidOfMonth`, `MonthInSemester` and `NameRoundTrip` are the arithmetic: every
  month lies in exactly the half-year whose sid `date2sid` computes, and a sid of
  this century survives the conversion to a name and back.
* `TypeCorrect`, `NamesCorrect` (`NamesDenoteSids`) and `LookupCorrect`
  (`ForDateCovers`) follow from one inductive invariant,
  `Inv == TypeOK /\ Keyed /\ Remembered /\ NamesDenoteSids`.  `ForDateCovers` is
  not inductive: a lookup remembers a key, and only because keys are unique
  (`Keyed`), never given out twice and given out before they are remembered
  (`Remembered`) does the row with that key keep the sid of the looked-up date.
* `NoDuplicates` (`LookupAddsNoDuplicate`): until requests overlap, a thread about
  to create has seen the table as it is (`NothingMissed`).

It also proves of the duration, for all dates and semesters, `NeverStricterThanServer`
(`BrowserNeverStricter`) and `DurationTypeCorrect`.  The server adds at most three days to
the end, so whole weeks in its hundredths mean at most three days fewer between
the dates as typed, and half a week is what `Math.round` forgives
(`WeeksBound`, `WeeksBetweenBound`).  The invariant adds that a note written by
the browser belongs to the dates that are on the form.

It also proves `WeeksAreRight` (`WeeksAreWorkingWeeks`), for any two dates and any
semester.  The property counts working days between two dates one by one; the closed form
`WorkedBefore` counts those before a date, and the two agree for any period because no
shortest period can be the first to differ (`CountsWorked`).  Whole weeks then have five
working days each (`WeeksAreWorked`), and a period of so many working days is accepted as
so many weeks (`WorkedAreWeeks`).

`EventProofs`, for any objects, types, listeners and depth of nested fires:
`ListenersCalled` (`ListenersAreCalled`).  That the array a `fire` walks through still
starts with its snapshot is not inductive by far.  `EventedInv` says of the heap that no
array is the list of two, that what is in a list has its function, and that every listener
object is in one list and once (`OwnArrays`, `Alive`, `Apart`); and of each call on the
stack (`Walks`) that its array is no list but that of its event, and that what is not
silenced in it is in that list or was wiped by `off()`.  The calls of one object have
levels that rise with the stack and are at most its `_firingCount` (`Nested`), so that an
array under way is never spliced in place, and still is not when the call on top has
returned (`FireDoneKeeps`).  Attaching and removing are shown to be kind to whatever
`fire` is under way (`ArraysKept`, `CellsKept`, `WalkGoesOn`, `StackStays`), whether the
array is copied or not (`NewArrayTells`, `SameArrayTells`).

The same module proves, for any number of touches and ticks, `GesturesTold`
(`GesturesAreTold`).  The invariant adds: of boxes, that the reset of a drawing is
due only when it is over and nothing has been drawn by a press since (`ResetInTime`), and
which press the click to come belongs to (`ClickKnown`); of taps, that what can still
become a click was the last touch, timed as the current one, and no contextmenu
(`TapSound`).

And, for any fingers, functions, numbers of listeners and lengths of time, `EventsToldOnce`
(`EventsAreToldOnce`).  Each of the five parts has an invariant of its own, and that of the
clicks and that of Android are the ones to argue about.  Of clicks: what was pressed counts
as dragged exactly if there was a movement, and `skipEvents` is left set only if a control
was clicked before the first view (`ClicksSound`); a click is told in one go to the targets
found (`TellsOnce`), and when the canvas has told it, either the flag or `_stopped` keeps
the map from telling it again (`PathHandles`).  Of Android: the listeners of one
click all hear it or none does, as the first to hear it sets `lastClick` to now
(`ClickTells`, where a least counterexample takes the place of induction over the
listeners); a second click comes within four ticks of its touch, `lastClick` is within four
of some touch, and of a touch with no other near it `lastClick` is left as its first
click set it, or nothing was told because simulated clicks had been (`InTime`, `TouchTold`).

`MovementProofs`, for any views, sizes and numbers of calls: `MapTypeCorrect` and
`MovementsEnd` (`EndsWhatItStarts`).  The property only speaks of a map at rest; the
invariant names what is still to end a movement (`MoveGoesOn`) and a zoom (`ZoomGoesOn`):
an animation, a flight, a gesture that moves, or a frame on its way that will.  Each helper
of the calls keeps both, and each action is a lemma.

For any tile layers with any limits, and any number of animations, flights and pinches under
way, `LimitsKept` (`LimitsAreKept`).  The inductive invariant (`Sound`) is about the buttons:
that they tell the limits of a settled map needs that they told the zoom that was noted
before the first view.  That the zoom stays allowed is a property of steps, for a map that
was on course before (`LimitsStay`, one lemma per action).  Its core is what a call that
asks for a zoom leaves (`ZoomsTo`): whether it is reset to, animated to or forgotten, what
goes on goes on, what is added leads to an allowed zoom, and the map is at one or on its
way.  Checking the zoom when layers come and go asks twice, and the second call meets what
the first has left, perhaps an animation that makes it nothing (`UpdatesLevels`).

`TilesFollow` (`TilesFollowMap`) is about the composition of the map with a layer of
tiles, for any size of tiles and of the margin that is kept, any limits of zoom and any
window.  A step of the map fires several events, and the layer hears each of them in
the middle of the step, with the map as it is then; so the lemmas speak of `Grid(m)`, the
layer once it has heard all that a map `m` has fired, and follow a call through its
helpers: `SetView`, `MoveOn`, a frame of a flight or the end of an animation each take a map
that the layer follows, or nearly does, to one of which that is true again.  The
inductive invariant is `GridInv`:

* the map is orderly (`MapInv`, what `MovementsEnd` needs as well);
* the layer is `Bare` (no tiles, no levels, no image awaited) or `Placed`: every tile
  stands on a level, and awaited are exactly the images of tiles not loaded yet.  Each
  of the layer's operations keeps that, also when it is called in a state in which
  the layer does not show the view;
* a layer on the map has the zoom of the map or that of its animation (`Near`), and shows
  the whole view, with each tile of it kept (`Follows`), unless the map is on its way or
  the throttled update was asked to come again (`lock = "again"`).

The property only speaks of a lock that is free; that it is *not* `"again"` is what can be
kept, since an update that was dropped leaves the note that it was.  Pruning is where it
could go wrong: a tile that is `current` is retained before anything is dropped, and what is
retained is never among what is dropped.  The handlers are folds over sets of tiles; see
below for how these are reasoned about.

`NoHolesOpen` (`NoHoles`) says of the same composition what a step may not do: a current
tile that has not faded in, whose place an active parent or child shows, goes on being
shown.  To the invariant it adds `Backed`: what has faded in has an image.  So an image that
is awaited may be dropped (`AbortingGoesOn`), and an active tile
counts as loaded, which is what pruning looks for: going up from a current tile it keeps the
nearest ancestor that is active, and only if there is none it goes down, where it keeps
the nearest that are (`NearestParent`, `NearestChild`, `PruningKeeps`).  A step of the map
cannot be one application of that lemma: had one event pruned while a tile was not current
and the next made it current again, its place could have been emptied in between.  So
the events of a step are followed one after the other.  All of them, a `zoom` apart and a
`move` while the layer stands at another zoom than the map, leave every active tile where it
is (`GoesOn`, `HearingGoesOn`); those two prune as the last thing they do, and after them
the layer shows the whole view (`Full`), in which what the rest of the step tells makes no
tile current that was not (`Steady`, `ZoomSteady`, `MovesSteady`).  Which calls tell what,
in which order, is in `AnimatesSettled` and `MapNextSettles`; of the steps of the layer,
`LayerStepHoles`.  A view that is reset and a layer that is redrawn drop everything by
design, and the property excludes them.

For `Confetti`, with any radius, length of the line and of the fall: `ConfettiKeepOrder`
(`PartyInOrder`), from the invariant of `ConfettiStaysSound`.  A line is sound if every
place that its free stretches hold is out of reach of every point, and every other place
between the margins is within reach of one (`DiscSound`): a dart cuts out of each stretch
exactly what it reaches, so both stay true, and a line without free stretches has no room.  Of
the keys: those before the pointer are the last ones that were typed (`Matches`), so the
code that the pointer completes has been typed in full; and there is a second loop only
if a poof came before the first frame (`PartySound`).

For `MapLayers`, with any finite number of layers, groups and popups: `LayersAgree`
(`RegistersAgree`), from the invariant of `RegistersStayRight`.  The property relates what the
map has to what is shown, and that fails in the middle of a call, of a group's above
all, and while `load` goes from one waiting layer to the next.  So the invariant
(`RegSound`) has the set of the layers that are still to be shown as a parameter: the map
shows only what it has, what it has and does not show is in that set, and a layer of the
set that was not removed early is on the map and not shown (`ToCome`).  Showing a
layer takes it out of the set (`Shown1`), registering one puts it in (`Registers`), and
between calls the set is that of the `load` listeners, or empty once there is a view.
Besides, a layer listens for its popup exactly while it has one (`Listens`), which
`RemovalClosesPopup` rests on; and at most one popup is on the map, which the map knows, so
closing that one before another opens is enough (`Closes`, `PopupOpens`).  The model takes a
layer off the map after its popup has closed; the lemma that eased this most is that
the order makes no difference (`UnmapCloses`).

Folds take an operator, and the library's induction does too, which no prover here can
instantiate.  What helps is that the definition of a fold over a set or a sequence can be
unfolded into the recursive function behind it, whose values are then numbered from 0
(`AllNumbers`, `FoldStays`, `FoldFound` and the lemmas beside them): if a fold broke what
each of its steps keeps, there would be a least place at which it is broken, and the
well-founded order of the numbers has that least place.  This is done once for a fold that stays in
a set given as a *constant*, and each use names its set.

`LayerProofs` has seven components, `MapLayers` among them.  For any set of integer coordinates: `TightBounds`, that
bounds hold what they were given and each of their sides has one of those points, is
inductive (`ExtendKeepsTight`, `ExtendByKeepsTight`); from it the corners are in
order, without which comparing corners would tell nothing of the points inside
(`Relations`, `CornersTell`).  `BoundsCorrect` is the run's property `BoundsAreRight`.

For any number of paths: `ListImplementsOrder` (`ImplementsOrder`) and `TheListIsWhole`.
The refinement mapping walks along the `next` pointers.  The invariant is that some
sequence of all the paths, each once, is linked by `next` and `prev` from `first` to `last`
(`Links`); the walk yields that sequence, as no first place can differ (`Walks`); and
for each of the operations that patch pointers a lemma names the sequence that is linked
after it, which is what `DrawOrder` asks for.

For any tooltips of any kinds: `TipsFollow` (`TipsFollowLayer`).
The property is not inductive: that an old timeout cannot take an open tooltip out
of the page needs that opening ends the fading (`InPlace`); that a layer takes its
tooltip along needs that it listens to its own removal as long as one is bound, and
that a permanent tooltip is not closed by the mouse needs that the layer listens
for exactly what its tooltip asked for, unless another was bound over it
(`Listening`).  Opening and closing are lemmas about states (`Opening`, `Closing`);
each action is one of them, after what it does to the layer.

And for the map and a marker, by mouse or touch: `DragsOrderly`
(`DragsAreOrderly`).  The invariant adds how the flags of one draggable go together
(`Consistent`: what moves listens; an undisturbed drag was announced if and only if
it moves, and then `_moved` is set, so that its end will be announced) and that the
marker's draggable is enabled while it is shown, without which its removal would
leave the static field taken.  Each of `OnDown`, `OnMoved`, `FinishDrag`, `Disable`
and `Enable` keeps a state sound, whichever draggable it is about; a press, a move
and a release apply two of them in a row.

For `LayersControl`, with any finite number of base layers and overlays: `ListTells`
(`ListAndMapAgree`), from the invariant of `ListStaysRight`.  The property says nothing of a
list that is off the map or broken, or that is stale because the page hid overlays in the
middle of a click; the invariant `ListingInv` goes on saying of those what makes them right
again: each layer is listed once, the list hears exactly what it lists while it is on
the map and nothing when it is not (`HearsListed`, what keeps a list that is off the map
from being updated, and one that is on it from missing a change), and of the
radio buttons one is checked at most, also in inputs left over from an earlier time on the
map.  A click is two loops over the inputs, each a fold from the right in which every
step may call the page back.  `FoldKeeps` and `FoldReaches` tell what the loops leave:
what all steps keep holds after the loop, and so does what one step brings about and all others
keep.  So nothing that is not chosen is shown (`UnchosenHidden`), what is chosen is, unless
it is an overlay and the list stale (`ChosenShown`), and the list was muted throughout
(`Handling`); then the inputs tell the map, and one base layer is left (`InputClicked`).

For `CanvasRenderer`, with any paths, shapes, styles, views and width: `CanvasShows`
(`CanvasIsTrue`), from the invariant of `CanvasStaysSound`.  The property tells what a
canvas shows; why it goes on doing so is in `_pxBounds` and `_redrawBounds`.  What a path of
the list was projected to is within its `_pxBounds` and is where the map is, but for a map
that was `turned` (`RingFits`); what was cut of it is the part of that in the area, but for
a renderer that is `unclipped` or `skipped` an update (`PartFits`).  So `_draw`, which leaves
out the paths whose bounds miss the redraw, leaves out none that reaches into it (`Drawn`);
and a cell that is wrong is within `_redrawBounds` while a frame is on its way
(`ShowsOrWill`).  Each call that changes a path or its place makes wrong at most the
cells within the bounds of that path, the old ones or the new (`RightButFor`), and
`_requestRedraw` adds those (`Requested`); a frame draws them again and leaves the others
as they were (`Redrawn`).  A list that lost, gained or moved one path paints the others as
before, which is about two folds that go on in step, past one place where one of
them pauses (`CoatsSkipped`, `CoatsAppended`).  That the mouse meets what is on top is that
the last path to paint a cell is the last one met (`LastIsOnTop`).  The invariant says
nothing of the cells of a renderer that came back with a redraw left over (`cut`), was kept
from an update (`skipped`) or is off the map, except that its paths are still within their
bounds; and what sets a mark is as much a part of it as what takes it away, so that
nothing but the next `moveend`, `zoomend` or `viewreset` is needed to be right again.

Assumptions: `TipsAssumption` (a permanent tooltip is of no other kind), `DragsAssumption`
(a mouse or a finger; `Nobody` is no draggable), `BoxesAssumption`, `MonthsAssumption` (the dates looked up lie between April 2000 and
2099, the years a two-digit name can tell), `NamesAssumption`, `IdsAssumption`,
`DatesAssumption` and `SidsAssumption` (dates, sids and coordinates are numbers),
`DrawPathsAssumption`, `HandlersAssumption` and `DomAssumption` (bounds, delays and the
number of listeners are numbers, those of the last not zero), `NowhereAssumption`,
`ViewsAssumption`, `ZoomAssumption` and `SizesAssumption` (views are pairs of a place and
a zoom), `TileAssumption` (tiles have a size), `ConfettiAssumption`, `ZoomLimitsAssumption` (limits
are numbers or endless), `LayersAssumption` (finitely many layers, each a leaf, a group or a
popup and only one of these; only leaves have an attribution), `ListAssumption` (finitely many
layers, each a base layer or an overlay and not both), `CanvasAssumption` (shapes are sets of
cells; `Nil` is no path and no set of cells).

TLC evaluates all of these in the runs.

Type correctness of `CompanyVisibility`, `InternshipSearch`, `Semesters` and
`InternshipDuration` is proved and not checked by a run of its own.

Only model-checked:

* the liveness properties (`RequestsAreAnswered`, `ResetGivesRoom`, `MovementEnds`): fairness
  and `ENABLED` are beyond the proof system;
* what rests on recursion over data: `LineIsWhereItIs` (clipping a line point by point) and
  `DataComesBack` (nested geometry).  Where an operator is a set, a number, a walk or a fold,
  a least counterexample takes the place of induction; a RECURSIVE operator stays out of
  reach.

## 5. What is not modelled, and the plan

Not modelled because there is nothing to get wrong in an order: offers,
notifications, ratings, the JSON of maps, PDF/CSV output, mailers, statistics, rake
tasks.  Within the modelled components: text and layout of pages, the
columns of an internship beyond two representatives, geocoding, attachments.
Of the map: projections, `maxBounds`, geolocation, SVG and VML output (a canvas is
modelled), circles, WMS and wrapping around the world, video overlays, the layout
of popups and icons, and the tables of browser sniffing, of which the branches are
taken as constants or choices.  Concurrency inside PostgreSQL is taken as
documented: single statements are atomic.

Planned, in this order:

1. `Companies`: creating and editing companies and addresses, the rule by which a
   company is editable while only one student uses it (`user_applications.rb`),
   and how a new address reaches an internship.  Composes with
   `InternshipApproval`, whose approvals change the rule's answer.
2. `CompleteInternships`: a `has_one` on a table without unique index, creation
   from old pages, the lock by `aep`, destroyed students whose course stays,
   `over?` on sums of rounded weeks; with `Postponements`, which hang on the same
   student.
