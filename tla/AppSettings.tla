----------------------------- MODULE AppSettings -----------------------------
(***************************************************************************)
(* The settings page of the web panel (src/src/web.js) and the overrides   *)
(* in the vault that it edits (src/src/appSettings.js, secureStore.js).  A *)
(* process that starts lays the overrides over its environment; a form     *)
(* posts every setting of the page, also those that nobody has touched.    *)
(***************************************************************************)
EXTENDS Naturals, Functions

CONSTANTS
  Key, Masked,   \* the settings, and those whose value no page shows
  Value, Dot,    \* what .env and the defaults say of each
  Unset, Unfit,  \* no override, or a blank input; a value that does not fit its setting
  Select, Option, FirstOption,   \* the settings with a list, what that offers, its first
  Neat,          \* of the others: what is made of a value that is posted
  Admin,         \* the administrators, each with a page
  MaxPosts       \* bound of the model

ASSUME SettingAssumption ==
  /\ Masked \in SUBSET Key \ {Key} /\ Dot \in [Key -> Value] /\ MaxPosts \in Nat
  /\ Unset \notin Value /\ Unfit \notin Value \cup {Unset}
  /\ Select \subseteq Key \ Masked
  /\ Option \in [Select -> SUBSET Value] /\ FirstOption \in [Select -> Value]
  /\ \A k \in Select : FirstOption[k] \in Option[k]
  /\ Neat \in [Key \ Select -> [Value -> Value \cup {Unfit}]]
  /\ \A k \in Key \ Select, v \in Value :
       Neat[k][v] # Unfit => Neat[k][Neat[k][v]] = Neat[k][v]

VARIABLES
  stored,     \* secure_items: the overrides
  env,        \* process.env of the running panel
  form,       \* of each administrator: what the inputs of the page say; Blank: no page
  posts,      \* how many forms were saved
  fresh,      \* history: the administrators whose page nobody's save has outdated
  wanted,     \* history: what was last entered for each key, or .env by a clear
  cleared,    \* history: the keys cleared since the panel started
  regiven,    \* history: the keys entered again after that
  crossed     \* history: a form came from a page that was outdated

settingsVars == <<stored, env, form, posts, fresh, wanted, cleared, regiven, crossed>>

Blank == [k \in Key |-> Unset]
Override == [Key -> Value \cup {Unset}]

SettingsTypeOK ==
  /\ stored \in Override /\ env \in [Key -> Value]
  /\ form \in [Admin -> Override] /\ fresh \subseteq Admin
  /\ posts \in 0 .. MaxPosts
  /\ wanted \in [Key -> Value]
  /\ cleared \subseteq Key /\ regiven \subseteq Key /\ crossed \in BOOLEAN

\* applySettingsValuesToEnv, and what buildSettingEntry shows as effective.
Overlay(values, base) == [k \in Key |-> IF values[k] = Unset THEN base[k] ELSE values[k]]

\* What the input of a setting holds that shows a value: a list without that
\* value has nothing selected, and the browser takes the first it offers.
Held(k, value) == IF k \in Select /\ value \notin Option[k] THEN FirstOption[k] ELSE value

\* normalizeSettingValue: trimmed, numbers and lists of values in one spelling, and
\* of a list only what it offers; what cannot be read is unfit.
Normalized(k, value) ==
  IF value = Unset THEN Unset
  ELSE IF k \notin Select THEN Neat[k][value]
  ELSE IF value \in Option[k] THEN value ELSE Unfit

\* A value as a form brings it back that shows it and that nobody touches.
GivenBack(k, value) == Normalized(k, Held(k, value))

\* The inputs of the page; that of a secret is blank.
Inputs(values) ==
  [k \in Key |-> IF k \in Masked THEN Unset ELSE Held(k, Overlay(values, env)[k])]

SettingsInit ==
  /\ stored = Blank /\ env = Dot /\ wanted = Dot
  /\ form = [a \in Admin |-> Blank] /\ fresh = {}
  /\ posts = 0 /\ cleared = {} /\ regiven = {} /\ crossed = FALSE

-----------------------------------------------------------------------------
\* The panel starts, over the vault or, where it could not be read, without it.
\* The pages of its sessions can post no more.
Boot ==
  /\ env' \in {Overlay(stored, Dot), Dot}
  /\ form' = [a \in Admin |-> Blank] /\ fresh' = {}
  /\ cleared' = {}
  /\ UNCHANGED <<stored, posts, wanted, regiven, crossed>>

\* GET /settings.
OpenPage(a) ==
  /\ form' = [form EXCEPT ![a] = Inputs(stored)]
  /\ fresh' = fresh \cup {a}
  /\ UNCHANGED <<stored, env, posts, wanted, cleared, regiven, crossed>>

\* Mutant: what the environment says is never stored.
ParsedByEnv(posted, clears) ==
  [k \in Key |->
     LET value == Normalized(k, posted[k])
     IN  IF k \in clears THEN Unset ELSE IF value \in {Unset, env[k]} THEN stored[k] ELSE value]

\* parseSettingsForm: a secret that is left blank, and a value that is what the
\* environment says where there is no override, change nothing.
Parsed(posted, clears) ==
  [k \in Key |->
     LET value == Normalized(k, posted[k])
     IN  IF k \in clears THEN Unset
         ELSE IF value = Unset \/ (stored[k] = Unset /\ value = env[k]) THEN stored[k]
         ELSE value]

\* What can be entered, in a list only what that offers: Unset where an input is
\* left as it is.  What is entered beside a tick to clear the setting counts for nothing.
Entry(a) ==
  {edits \in Override :
     /\ \A k \in Key : edits[k] = Unset \/ edits[k] # form[a][k]
     /\ \A k \in Select : edits[k] \in Option[k] \cup {Unset}}
Left(edits) == {k \in Key : edits[k] = Unset}
Posted(a, edits) == [k \in Key |-> IF k \in Left(edits) THEN form[a][k] ELSE edits[k]]

\* One value that does not fit its setting refuses the whole form, entered or not.
Refused(posted, clears) == \E k \in Key \ clears : Normalized(k, posted[k]) = Unfit

\* POST /settings: some inputs of the page edited, some keys cleared.  The
\* response is the page again.
SaveSettings(a) ==
  /\ form[a] # Blank
  /\ posts < MaxPosts /\ posts' = posts + 1
  /\ \E edits \in Entry(a) : \E clears \in SUBSET Left(edits) :
       LET edited == Key \ Left(edits)
           next == Parsed(Posted(a, edits), clears)
       IN  /\ ~Refused(Posted(a, edits), clears)
           /\ stored' = next
           /\ wanted' = [k \in Key |-> IF k \in clears THEN Dot[k]
                                       ELSE IF k \in edited THEN Normalized(k, edits[k])
                                       ELSE wanted[k]]
           /\ cleared' = cleared \cup clears
           /\ regiven' = regiven \cup (edited \cap cleared)
           /\ form' = [form EXCEPT ![a] = Inputs(next)]
           /\ fresh' = IF next = stored THEN fresh \cup {a} ELSE {a}
  /\ crossed' = (crossed \/ a \notin fresh)
  /\ UNCHANGED env

SaveRefused(a) ==
  /\ form[a] # Blank
  /\ \E edits \in Entry(a) : \E clears \in SUBSET Left(edits) : Refused(Posted(a, edits), clears)
  /\ form' = [form EXCEPT ![a] = Inputs(stored)]
  /\ fresh' = fresh \cup {a}
  /\ UNCHANGED <<stored, env, posts, wanted, cleared, regiven, crossed>>

SettingsNext == Boot \/ \E a \in Admin : OpenPage(a) \/ SaveSettings(a) \/ SaveRefused(a)

SettingsSpec == SettingsInit /\ [][SettingsNext]_settingsVars
-----------------------------------------------------------------------------
(***************************************************************************)
(* "Settings saved from this page are ... applied when the relevant core   *)
(* or web process starts": whatever was entered last for a key, by whom-   *)
(* ever and with whatever else on the form, is what the next start gives   *)
(* it, and no form changes a key that nobody touched.  Three things break  *)
(* this, and nothing else: a form from a page that another save outdated   *)
(* brings back what that page shows of every key; a key that was cleared   *)
(* and is entered again before the panel restarts is not stored if it is   *)
(* what the panel still runs with; and a value of .env that its input does *)
(* not bring back as it is, is stored as the input brings it back, by any  *)
(* form and untouched: another spelling of it, or, where a list does not   *)
(* offer it ("1" for "true"), the first that the list offers.              *)
(***************************************************************************)
SavedIsNext ==
  /\ SettingsTypeOK
  /\ ~crossed =>
       \A k \in Key : \/ Overlay(stored, Dot)[k] = wanted[k]
                     \/ k \in regiven
                     \/ (wanted[k] = Dot[k] /\ Overlay(stored, Dot)[k] = GivenBack(k, Dot[k]))
=============================================================================
