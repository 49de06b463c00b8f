----------------------------- MODULE ConfigRow -----------------------------
(***************************************************************************)
(* The one row of control_config and everybody who uses it: the operator's *)
(* settings form and mode buttons (control-ui), an administrator at the    *)
(* database, and the controller that loads it anew in every cycle.         *)
(***************************************************************************)
EXTENDS Threshold

CONSTANTS
    Bad,           \* text in a form field that float() or int() rejects
    Choices,       \* per field, what the operator may type into it
    EditedRows,    \* the rows an administrator may leave behind
    FormDefaults,  \* the form where no settings could be read (settings.html)
    CanFail,       \* may the database be down when control-ui needs it?
    Minute,        \* the form's unit of run, in that of the row
    WattsCap,      \* validate_settings' upper bounds: of the thresholds,
    RefCap,        \* of full_sun_ref_kwh
    RunCap         \* and of the run times

Fields == {"base", "min", "off", "ref", "nominal", "run", "adapt"}
Entries == Number \union {Bad}
Forms == [base : Entries, min : Entries, off : Entries, ref : Entries,
          nominal : Entries, run : Entries, adapt : BOOLEAN]

ASSUME ConfigRowAssumption ==
    /\ Bad \notin Number /\ Bad # NULL
    /\ DOMAIN Choices \subseteq Fields
    /\ \A field \in DOMAIN Choices :
          Choices[field] \subseteq IF field = "adapt" THEN BOOLEAN ELSE Entries
    /\ EditedRows \subseteq RawRows
    /\ FormDefaults \in Forms /\ CanFail \in BOOLEAN
    /\ Minute \in Nat \ {0}
    /\ WattsCap \in Nat /\ RefCap \in Nat \ {0} /\ RunCap \in Nat /\ RunCap >= RunFloor

VARIABLES
    row,      \* the control_config row
    cfg,      \* cs.last_cfg
    page,     \* the settings form in the operator's browser
    touched,  \* history: the fields edited since it was opened or saved
    saved,    \* history: the form last saved, NULL once others wrote the row
    chosen    \* history: the mode last chosen, NULL once others wrote it

vars == <<row, cfg, page, touched, saved, chosen>>

TypeOK ==
    /\ row \in RawRows /\ cfg \in RawRows
    /\ page \in Forms /\ touched \subseteq Fields
    /\ saved \in Forms \union {NULL}
    /\ chosen \in ValidModes \union {NULL}

\* The run times are shown in whole minutes; a NULL is the text "None", or a
\* box that is not ticked.
Shown(column) ==
    CASE column = "run" -> Minute * (row.run \div Minute)
      [] row[column] = NULL -> IF column = "adapt" THEN FALSE ELSE Bad
      [] OTHER -> row[column]

\* load_config of control-ui, as the form shows it.
PageOfRow == [column \in Fields |-> Shown(column)]

\* init.sql inserts the defaults; the process starts on clamp_config(DEFAULTS).
\* The form has been opened.
Init ==
    /\ row = Default /\ cfg = Clamped(Default)
    /\ page = PageOfRow /\ touched = {}
    /\ saved = NULL /\ chosen = NULL

-----------------------------------------------------------------------------
(* control-ui's settings form.                                             *)

\* GET /: the form shows the row (the page fails on a run time that is NULL),
\* or the template's own numbers when the database cannot be read.
OpenPage ==
    /\ \/ row.run # NULL /\ page' = PageOfRow
       \/ CanFail /\ page' = FormDefaults
    /\ touched' = {}
    /\ UNCHANGED <<row, cfg, saved, chosen>>

Edit(field, entry) ==
    /\ page[field] # entry
    /\ page' = [page EXCEPT ![field] = entry]
    /\ touched' = touched \union {field}
    /\ UNCHANGED <<row, cfg, saved, chosen>>

\* _num: a comparison with NaN is false, so NaN is within all bounds.
InBounds(entry, lo, hi) == entry # Bad /\ (entry # NaN => lo <= entry /\ entry <= hi)

Exceeds(a, b) == {a, b} \subseteq Int /\ a > b

FieldsInBounds(form) ==
    /\ \A field \in {"base", "min", "off"} : InBounds(form[field], 0, WattsCap)
    /\ InBounds(form.ref, 1, RefCap)
    /\ InBounds(form.nominal, 0, NominalCap)
    /\ InBounds(form.run, RunFloor, RunCap)

\* validate_settings
Accepted(form) ==
    /\ FieldsInBounds(form)
    /\ ~Exceeds(form.min, form.base)
    /\ Exceeds(form.min, form.off) \/ NaN \in {form.min, form.off}

SavedWholeRow(form) ==
    row' = [mode |-> Default.mode, adapt |-> form.adapt, base |-> form.base,
            min |-> form.min, off |-> form.off, ref |-> form.ref,
            nominal |-> form.nominal, run |-> form.run]

\* save_settings updates the form's columns only.
Saved(form) ==
    row' = [mode |-> row.mode, adapt |-> form.adapt, base |-> form.base,
            min |-> form.min, off |-> form.off, ref |-> form.ref,
            nominal |-> form.nominal, run |-> form.run]

\* POST /settings.  The answer is the form again, with what was sent in it, but
\* with "adaptive threshold" ticked whatever was sent.  int() of an accepted
\* run time that is NaN raises: nothing is saved or shown.
PostSettings ==
    /\ Accepted(page) => page.run # NaN
    /\ page' = [page EXCEPT !.adapt = TRUE]
    /\ \/ Accepted(page) /\ Saved(page) /\ saved' = page /\ touched' = {}
       \/ (~Accepted(page) \/ CanFail) /\ UNCHANGED <<row, saved, touched>>
    /\ UNCHANGED <<cfg, chosen>>

PostAnyMode(asked) ==
    /\ row' = [row EXCEPT !.mode = asked]
    /\ chosen' = asked
    /\ UNCHANGED <<cfg, page, touched, saved>>

\* POST /control: an unknown mode pauses.
PostMode(asked) ==
    LET mode == IF asked \in ValidModes THEN asked ELSE "paused" IN
    /\ row' = [row EXCEPT !.mode = mode]
    /\ chosen' = mode
    /\ UNCHANGED <<cfg, page, touched, saved>>

-----------------------------------------------------------------------------
(* The others.                                                             *)

EditRow ==
    /\ row' \in EditedRows
    /\ saved' = NULL /\ chosen' = NULL
    /\ UNCHANGED <<cfg, page, touched>>

\* load_config in the controller's cycle; it keeps its settings if that fails.
LoadConfig ==
    /\ cfg' = Clamped(row)
    /\ UNCHANGED <<row, page, touched, saved, chosen>>

Next ==
    \/ OpenPage
    \/ \E field \in DOMAIN Choices : \E entry \in Choices[field] : Edit(field, entry)
    \/ PostSettings
    \/ \E asked \in {"auto", "off"} : PostMode(asked)
    \/ EditRow
    \/ LoadConfig

Spec == Init /\ [][Next]_vars

-----------------------------------------------------------------------------
(* Properties                                                              *)

\* Whatever the row holds, the controller loads settings that cannot harm the
\* heat pump (clamp_config).
LoadedSafe == Safe(cfg, 0..(2 * cfg.ref) \union {NaN})

\* The controller runs on the numbers the operator asked for: neither a later
\* change of the mode nor clamp_config, which mirrors the form's bounds, alters
\* them.  (A NaN, which passes the form, is no number; LoadedSafe covers it.)
OperatorObeyed ==
    [][LoadConfig =>
         /\ saved # NULL /\ NaN \notin {saved[column] : column \in Fields \ {"adapt"}}
              => \A column \in Fields : cfg'[column] = saved[column]
         /\ chosen # NULL => cfg'.mode = chosen]_vars

\* Saving the form changes what the operator edited in it and nothing else, as
\* long as nobody else writes the row.
OnlyEditsSaved ==
    [][PostSettings =>
         \A column \in Fields : row'[column] # row[column] => column \in touched]_vars

=============================================================================
