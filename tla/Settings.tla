------------------------------- MODULE Settings -------------------------------
(***************************************************************************)
(* Settings and where they arrive: ConfigOverlay and EffectiveConfig of    *)
(* the config crate (layers of partial settings), SettingsStore (the       *)
(* layers, reload and runtime changes) and the ways of AppModel by which   *)
(* the panes get their copies, with the animation overrides of a window.   *)
(*                                                                         *)
(* An overlay is a function on the settings it gives.  Five settings stand *)
(* for the 28: the theme, which has presets of others; the prompt, which a *)
(* theme presets; the two animations, which a window may override and the  *)
(* user may set at run time; and blink for the rest.                       *)
(***************************************************************************)
EXTENDS Naturals, Sequences, TLC

CONSTANTS
  Documents,    \* what a configuration file may say: [layer, bindings]
  CommandLines, \* what a command line comes to: likewise
  Names,        \* the text animations asked for, of "none", "streaming", "typewriter"
  Windows,      \* windows that may be open
  Panes         \* panes that may be open

VARIABLES
  source,           \* SettingsStore.source: "Defaults" or "Path"
  file, cli,        \* its layers with the key bindings of each
  runtime,          \* its layer of changes at run time
  current,          \* its values in effect: [values, bindings]
  lastError,        \* its last_error is Some
  overlay,          \* WindowModel.animation_overlay
  panes,            \* the open panes, with their window and their copies
  loaded, chosen    \* history: the last good document, the user's last choices

vars == <<source, file, cli, runtime, current, lastError, overlay, panes, loaded, chosen>>

Keys    == {"theme", "prompt", "text", "trail", "blink"}
Nothing == [key \in {} |-> key]
Unsaid  == [layer |-> Nothing, bindings |-> "none"]

---------------------------------------------------------------------------------
(* The layers.                                                             *)

Defaults == [theme |-> "auto", prompt |-> "dock", text |-> "streaming", trail |-> TRUE, blink |-> FALSE]

\* presentation_preset_overlay.
Preset(theme) == "prompt" :> IF theme = "paper" THEN "inline" ELSE "dock"

\* PartialAppSettings::into_layers: of a document that is one, only the theme
\* can be refused; two of its names are aliases.
CanonicalTheme(theme) ==
  CASE theme = "dark" -> "ink" [] theme = "light" -> "paper" [] OTHER -> theme
Accepted(document) ==
  "theme" \in DOMAIN document.layer =>
    document.layer.theme \in {"auto", "ink", "paper", "harbor", "ember", "dark", "light"}
IntoLayers(document) ==
  [document EXCEPT !.layer = [key \in DOMAIN @ |-> IF key = "theme" THEN CanonicalTheme(@[key]) ELSE @[key]]]

\* ConfigOverlay::merge, and apply_into: what over gives wins.
Merged(under, over) == over @@ under

Resolve(said, line, choices) ==
  LET Upon(base) == Merged(Merged(Merged(base, said), line), choices)
  IN  Upon(Merged(Defaults, Preset(Upon(Defaults).theme)))

ResolveKeybindings(said, line) ==
  IF line # "none" THEN line ELSE IF said # "none" THEN said ELSE "default"

Materialize(document, line, choices) ==
  [values   |-> Resolve(document.layer, line.layer, choices),
   bindings |-> ResolveKeybindings(document.bindings, line.bindings)]

\* animation_defaults: a name that is not known is streaming.
AnimationDefaults(values) ==
  [text  |-> IF values.text \in {"none", "typewriter"} THEN values.text ELSE "streaming",
   trail |-> values.trail]

\* WindowModel::effective_animation.
EffectiveAnimation(w, values) == Merged(AnimationDefaults(values), overlay[w])

---------------------------------------------------------------------------------
(* Windows and panes.                                                      *)

Open(w) == \E p \in DOMAIN panes : panes[p].window = w

Configured(w, values, animation) ==
  [window |-> w, animation |-> animation, prompt |-> values.prompt, blink |-> values.blink]

\* new_window: its overlay is new and empty.
NewWindow(w, p) ==
  /\ ~Open(w) /\ p \notin DOMAIN panes
  /\ panes' = panes @@ (p :> Configured(w, current.values, AnimationDefaults(current.values)))
  /\ UNCHANGED <<source, file, cli, runtime, current, lastError, overlay, loaded, chosen>>

\* new_tab and the split actions.
NewPane(w, p) ==
  /\ Open(w) /\ p \notin DOMAIN panes
  /\ panes' = panes @@ (p :> Configured(w, current.values, EffectiveAnimation(w, current.values)))
  /\ UNCHANGED <<source, file, cli, runtime, current, lastError, overlay, loaded, chosen>>

\* The last pane closes its window.
ClosePane(p) ==
  /\ p \in DOMAIN panes
  /\ panes' = [q \in DOMAIN panes \ {p} |-> panes[q]]
  /\ overlay' = [overlay EXCEPT ![panes[p].window] =
       IF \E q \in DOMAIN panes \ {p} : panes[q].window = panes[p].window THEN @ ELSE Nothing]
  /\ UNCHANGED <<source, file, cli, runtime, current, lastError, loaded, chosen>>

---------------------------------------------------------------------------------
(* Reload and changes at run time.                                         *)

\* SettingsStore::commit.
Commit == current' = Materialize(file', cli, runtime') /\ lastError' = FALSE

\* reload_path of a file that can be read and parsed.
ReloadPath(document) ==
  /\ source = "Path" /\ Accepted(document)
  /\ file' = IntoLayers(document) /\ loaded' = file' /\ runtime' = runtime
  /\ Commit

\* AppAction::ReloadConfig: every pane gets everything it holds a copy of.
ReloadConfig(document) ==
  /\ ReloadPath(document)
  /\ panes' = [p \in DOMAIN panes |->
       LET w == panes[p].window
       IN  Configured(w, current'.values, EffectiveAnimation(w, current'.values))]
  /\ UNCHANGED <<source, cli, overlay, chosen>>

\* Mutant: the file's layer is emptied before the document is read.
ReloadFailsLate ==
  /\ source = "Path" /\ lastError' = TRUE /\ file' = Unsaid
  /\ UNCHANGED <<source, cli, runtime, current, overlay, panes, loaded, chosen>>

\* One that cannot, or is not accepted: the error returns before anything
\* else is stored.
ReloadFails ==
  /\ source = "Path" /\ lastError' = TRUE
  /\ UNCHANGED <<source, file, cli, runtime, current, overlay, panes, loaded, chosen>>

\* apply_runtime_value.
ApplyRuntimeValue(key, value) ==
  /\ runtime' = Merged(runtime, key :> value) /\ file' = file
  /\ Commit

\* apply_runtime_animation_setting.
SetAtRunTime(key, value) ==
  /\ ApplyRuntimeValue(key, value)
  /\ chosen' = [k \in DOMAIN chosen \cup {key} |-> IF k = key THEN value ELSE chosen[k]]
  /\ panes' = [p \in DOMAIN panes |->
       [panes[p] EXCEPT !.animation = EffectiveAnimation(panes[p].window, current'.values)]]
  /\ UNCHANGED <<source, cli, overlay, loaded>>

SetTextAnimation(name) == SetAtRunTime("text", name)
ToggleCursorTrail      == SetAtRunTime("trail", ~current.values.trail)

---------------------------------------------------------------------------------
(* A program in a pane overrides the animations of its window.             *)

Presets == {[text |-> "none", trail |-> FALSE], "text" :> "streaming", "text" :> "typewriter",
            "trail" :> TRUE, [text |-> "typewriter", trail |-> TRUE]}

Offered == {preset \in Presets : "text" \in DOMAIN preset => preset.text \in Names}

\* apply_window_animation.
Override(w, to) ==
  /\ Open(w)
  /\ overlay' = [overlay EXCEPT ![w] = to]
  /\ panes' = [p \in DOMAIN panes |->
       IF panes[p].window = w THEN [panes[p] EXCEPT !.animation = Merged(AnimationDefaults(current.values), to)]
       ELSE panes[p]]
  /\ UNCHANGED <<source, file, cli, runtime, current, lastError, loaded, chosen>>

ApplyPreset(w, preset) == Override(w, Merged(overlay[w], preset))

\* apply_animation_state: a key that is to inherit is taken out.
States == {Merged(text, trail) : text  \in {Nothing} \cup {"text" :> name : name \in Names},
                                 trail \in {Nothing} \cup {"trail" :> on : on \in BOOLEAN}}
ApplyState(w, to) == Override(w, to)

\* animation_snapshot: what the window answers to a query.
Snapshot(w) ==
  LET global == AnimationDefaults(current.values)
  IN  [key \in {"text", "trail"} |-> IF key \in DOMAIN overlay[w] THEN overlay[w][key] ELSE global[key]]

---------------------------------------------------------------------------------

\* SettingsStore::from_cli, before the first window.
Init ==
  /\ cli \in CommandLines
  /\ \/ source = "Path" /\ file \in {IntoLayers(d) : d \in {d \in Documents : Accepted(d)}}
     \/ source = "Defaults" /\ file = Unsaid
  /\ runtime = Nothing /\ current = Materialize(file, cli, runtime) /\ lastError = FALSE
  /\ overlay = [w \in Windows |-> Nothing] /\ panes = Nothing
  /\ loaded = file /\ chosen = Nothing

Next ==
  \/ \E w \in Windows, p \in Panes : NewWindow(w, p) \/ NewPane(w, p)
  \/ \E p \in Panes : ClosePane(p)
  \/ \E document \in Documents : ReloadConfig(document)
  \/ ReloadFails \/ ToggleCursorTrail
  \/ \E name \in Names : SetTextAnimation(name)
  \/ \E w \in Windows, preset \in Offered : ApplyPreset(w, preset)
  \/ \E w \in Windows, to \in States : ApplyState(w, to)

Spec == Init /\ [][Next]_vars

---------------------------------------------------------------------------------
(* Properties.                                                             *)

FirstSaid(layers, key) ==
  LET Says(i) == key \in DOMAIN layers[i]
  IN  layers[CHOOSE i \in DOMAIN layers : Says(i) /\ \A j \in 1..(i - 1) : ~Says(j)][key]

\* A setting has the value of the first who gives one: the user at run time,
\* the command line, the last document that could be read (whatever failed
\* since), the theme in effect, the default; and every pane, however it came
\* to be, has those values and its window's overrides, which are what the
\* window answers to a query.
SettingsArrive ==
  LET said  == <<chosen, cli.layer, loaded.layer>>
      theme == FirstSaid(said \o <<Defaults>>, "theme")
      Value(key) == FirstSaid(said \o <<Preset(theme), Defaults>>, key)
  IN  /\ current.values = [key \in Keys |-> Value(key)]
      /\ current.bindings = ResolveKeybindings(loaded.bindings, cli.bindings)
      /\ \A p \in DOMAIN panes :
           /\ panes[p].prompt = Value("prompt") /\ panes[p].blink = Value("blink")
           /\ panes[p].animation = Snapshot(panes[p].window)
           /\ \A key \in {"text", "trail"} :
                key \notin DOMAIN overlay[panes[p].window] =>
                  panes[p].animation[key] = AnimationDefaults([text |-> Value("text"), trail |-> Value("trail")])[key]
=================================================================================
