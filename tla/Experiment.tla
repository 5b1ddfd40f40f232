----------------------------- MODULE Experiment -----------------------------
(***************************************************************************)
(* The language-model experiment (sw/experiment) and its three scripts:    *)
(*                                                                         *)
(*   download  scripts/download_qwen3_4b_gguf.py                           *)
(*   smoke     scripts/run_qwen3_cpu_smoke.py: load the configuration,     *)
(*             verify and load the model, open a W&B run if asked to,      *)
(*             generate, record, print                                     *)
(*   dummy     scripts/run_wandb_dummy.py: the same without a model        *)
(*                                                                         *)
(* llama.cpp, huggingface_hub, wandb and git are external.  An uncaught    *)
(* exception ends a script with exit status 1.                             *)
(***************************************************************************)
EXTENDS Integers, Sequences, FiniteSets, SequencesExt

CONSTANTS
  Prompts,       \* bound: --prompt, as the tokens of the rendered prompt: 0 when it is
                 \* empty or cannot be encoded
  Limits,        \* bound: --max-tokens, of which None is not given
  None,
  Modes,         \* bound: WANDB_MODE, in lower case
  BaseUrls,      \* bound: WANDB_BASE_URL, by what urlparse makes of it:
                 \* "host", "no host", "malformed" (it raises ValueError)
  MaxStarts,     \* bound: the scripts run, one after the other
  MaxReplaced,   \* bound: how often another program changes the model file
  ContextSize    \* bound: the tokens llama.cpp has room for (n_ctx, 4096 in the code)

----------------------------------------------------------------------------
(* config.py: a YAML value is its kind and what it holds. *)

YMap(f) == <<"map", f>>
YText(s) == <<"text", s>>
YInt(n) == <<"int", n>>

MODEL_NAME == "Qwen/Qwen3-4B-GGUF"
MODEL_QUANTIZATION == "Q4_K_M"

\* experiments/configs/qwen3_4b_cpu.yaml, with fewer tokens.
Document ==
  [name |-> YText("smoke"),
   model |-> YMap([name |-> YText(MODEL_NAME), path |-> YText("gguf"),
                  quantization |-> YText(MODEL_QUANTIZATION)]),
   generation |-> YMap([seed |-> YInt(1), max_tokens |-> YInt(2),
                       temperature |-> YInt(0), thinking |-> <<"bool", FALSE>>]),
   prompt_dataset |-> YText("smoke.jsonl"), channel |-> YText("none"), fec |-> YText("none"),
   tracking |-> YMap([wandb |-> YMap([enabled |-> <<"bool", FALSE>>,
                                    project |-> YText("baseline")])])]

\* Values of every kind; a float is its sign or not a number.
Values ==
  {<<"null">>, YText("other"), <<"blank">>, YInt(-1), YInt(0), YInt(1),
   <<"float", "negative">>, <<"float", "positive">>, <<"float", "nan">>,
   <<"bool", TRUE>>, <<"bool", FALSE>>, YMap([unknown |-> <<"null">>])}

\* The same with tracking enabled.
Tracked ==
  [Document EXCEPT !.tracking =
     YMap([wandb |-> YMap([enabled |-> <<"bool", TRUE>>, project |-> YText("baseline")])])]

\* What the file may hold instead of a document: one of these values, or the
\* document with one of them in the place of another or where none belongs, or
\* with a key missing.
Missing == <<"missing">>
Places == {"file", "config", "model", "generation", "tracking", "wandb"}

MapAt(document, place) ==
  CASE place = "config" -> document
    [] place = "wandb" -> document.tracking[2].wandb[2]
    [] OTHER -> document[place][2]

KeysAt(place) == IF place = "file" THEN {""} ELSE DOMAIN MapAt(Document, place) \cup {"unknown"}

Edited(document, place, key, v) ==
  LET keys(map) == IF v = Missing THEN DOMAIN map \ {key} ELSE DOMAIN map \cup {key}
      change(map) == [k \in keys(map) |-> IF k = key THEN v ELSE map[k]]
  IN  CASE place = "file" -> v
        [] place = "config" -> YMap(change(document))
        [] place = "wandb" ->
             YMap([document EXCEPT !.tracking =
               YMap([wandb |-> YMap(change(document.tracking[2].wandb[2]))])])
        [] OTHER -> YMap([document EXCEPT ![place] = YMap(change(document[place][2]))])

\* The checks, each on one value.
mapping(v, expected) == v[1] = "map" /\ DOMAIN v[2] = expected

text(v) == v[1] = "text"

boolean(v) == v[1] = "bool"

integer(v) == v[1] = "int"

\* MUTANT: zero passes for a positive integer.
positive_integer_or_zero(v) == v[1] = "int" /\ v[2] >= 0

positive_integer(v) == v[1] = "int" /\ v[2] > 0

negative(v) == v = <<"float", "negative">> \/ (v[1] = "int" /\ v[2] < 0)

\* Not a number is not negative.
temperature(v) == v[1] \in {"int", "float"} /\ ~negative(v)

load_experiment_config(v) ==
  /\ mapping(v, {"name", "model", "generation", "prompt_dataset", "channel", "fec",
                 "tracking"})
  /\ LET document == v[2]
     IN  /\ mapping(document.model, {"name", "path", "quantization"})
         /\ mapping(document.generation, {"seed", "max_tokens", "temperature", "thinking"})
         /\ mapping(document.tracking, {"wandb"})
         /\ mapping(document.tracking[2].wandb, {"enabled", "project"})
         /\ \A key \in {"name", "prompt_dataset", "channel", "fec"} : text(document[key])
         /\ \A key \in {"name", "path", "quantization"} : text(document.model[2][key])
         /\ LET generation == document.generation[2]
                wandb == document.tracking[2].wandb[2]
            IN  /\ boolean(generation.thinking) /\ boolean(wandb.enabled)
                /\ integer(generation.seed) /\ positive_integer(generation.max_tokens)
                /\ temperature(generation.temperature) /\ text(wandb.project)

\* What the smoke script asks of a configuration besides.
smoke_config(document) ==
  /\ document.model[2].name = YText(MODEL_NAME)
  /\ document.model[2].quantization = YText(MODEL_QUANTIZATION)
  /\ ~document.generation[2].thinking[2]

----------------------------------------------------------------------------
(* State. *)

VARIABLES
  script, step,     \* the script that runs or ran last, and its next step
  exit,             \* its exit status; Running before it ends
  options,          \* its command line
  config,           \* its configuration: the token limit, the temperature and
                    \* whether tracking is enabled
  model_file,       \* the GGUF: "absent", "right" or "other"
  metadata,         \* the file that was hashed, or none
  model,            \* the loaded model: its file, whether it has a chat template
  sdk_imported,     \* whether wandb was imported
  tracker,          \* WandbTracker._run: whether it holds a run
  wandb_run,        \* W&B's side of that run
  raised,          \* history: what raised of git, the run's calls and the output
  environment,      \* history: how tracking was started
  output_ids,       \* the tokens generated
  yielded,          \* history: those the model handed out, with the last
  printed,          \* the output of the script
  replaced,         \* history: how often the file was changed, and whether
                    \* between its hashing and its loading
  starts            \* scripts started

experiment == <<script, step, exit, options, config, model_file, metadata, model,
                sdk_imported, tracker, wandb_run, raised, environment, output_ids,
                yielded, printed, replaced, starts>>

Running == 2
NoConfig == [max_tokens |-> 0, temperature |-> YInt(0), enabled |-> FALSE]
NoModel == [file |-> "absent", template |-> FALSE]
NoRun == [opened |-> FALSE, max_tokens |-> 0, file |-> "absent", logged |-> << >>,
          finished |-> FALSE]
NoEnvironment == [mode |-> "disabled", credentials |-> "none", readable |-> TRUE]
NoOutput == [ids |-> << >>, file |-> "absent", tracking |-> FALSE]

EOS == "eos"
\* A token is a whole character, or the first or the second half of one.
Tokens == {"char", "first", "second"}

\* Bytes that are UTF-8.
Decodable(ids) ==
  \A i \in DOMAIN ids :
    /\ ids[i] = "first" => i < Len(ids) /\ ids[i + 1] = "second"
    /\ ids[i] = "second" => i > 1 /\ ids[i - 1] = "first"

ExperimentInit ==
  /\ script = "none" /\ step = "ended" /\ exit = 0
  /\ options = [prompt |-> 0, max_tokens |-> None, enable_tracking |-> FALSE]
  /\ config = NoConfig /\ model_file = "absent" /\ metadata = "absent"
  /\ model = NoModel /\ sdk_imported = FALSE /\ tracker = FALSE /\ wandb_run = NoRun
  /\ raised = {} /\ environment = NoEnvironment /\ output_ids = << >>
  /\ yielded = << >> /\ printed = NoOutput
  /\ replaced = [times |-> 0, since |-> FALSE] /\ starts = 0

\* The script goes on with step s, ends well, or stops at an exception.
Goto(s) == step' = s /\ UNCHANGED exit
Raise == step' = "ended" /\ exit' = 1

At(s) == step = s /\ UNCHANGED <<script, options, replaced, starts>>

run_state == <<sdk_imported, tracker, wandb_run, raised, environment>>
generation_state == <<output_ids, yielded>>

----------------------------------------------------------------------------
(* The scripts. *)

OptionsOf(s) ==
  [prompt : IF s = "smoke" THEN Prompts ELSE {0},
   max_tokens : IF s = "smoke" THEN Limits ELSE {None},
   enable_tracking : IF s = "dummy" THEN BOOLEAN ELSE {FALSE}]

StartScript(s) ==
  /\ step = "ended" /\ starts < MaxStarts
  /\ script' = s /\ exit' = Running /\ starts' = starts + 1
  /\ step' = IF s = "download" THEN "fetch" ELSE "config"
  /\ options' \in OptionsOf(s)
  /\ config' = NoConfig /\ metadata' = "absent" /\ model' = NoModel
  /\ sdk_imported' = FALSE /\ tracker' = FALSE /\ wandb_run' = NoRun /\ raised' = {}
  /\ environment' = NoEnvironment /\ output_ids' = << >> /\ yielded' = << >>
  /\ printed' = NoOutput /\ replaced' = [replaced EXCEPT !.since = FALSE]
  /\ UNCHANGED model_file

\* hf_hub_download leaves a file, or raises.
Fetch ==
  /\ At("fetch")
  /\ \/ model_file' \in {"right", "other"} /\ Goto("verify")
     \/ Raise /\ UNCHANGED model_file
  /\ UNCHANGED <<config, metadata, model, run_state, generation_state, printed>>

Load(v) ==
  IF load_experiment_config(v) /\ (script = "smoke" => smoke_config(v[2]))
  THEN LET generation == v[2].generation[2]
       IN  /\ config' = [max_tokens  |-> generation.max_tokens[2],
                         temperature |-> generation.temperature,
                         enabled     |-> v[2].tracking[2].wandb[2].enabled[2]
                                           \/ options.enable_tracking]
           /\ Goto(IF script = "smoke" THEN "verify" ELSE "git")
  ELSE Raise /\ UNCHANGED config

LoadConfig ==
  /\ At("config")
  /\ \E document \in {Document, Tracked}, place \in Places, v \in Values \cup {Missing} :
       \E key \in KeysAt(place) : Load(Edited(document, place, key, v))
  /\ UNCHANGED <<model_file, metadata, model, run_state, generation_state, printed>>

\* The digest of the file is that of the fixed artifact.
Verified == model_file = "right"

read_model_metadata ==
  /\ step = "verify" /\ UNCHANGED <<script, options, starts>>
  /\ IF Verified
     THEN /\ metadata' = model_file /\ replaced' = [replaced EXCEPT !.since = FALSE]
          /\ Goto(IF script = "smoke" THEN "load" ELSE "print")
     ELSE Raise /\ UNCHANGED <<metadata, replaced>>
  /\ UNCHANGED <<config, model_file, model, run_state, generation_state, printed>>

\* llama.cpp opens the path again; what it finds may have no chat template.
load_cpu_model ==
  /\ At("load")
  /\ \/ /\ model_file # "absent" /\ Goto("git")
        /\ \E template \in BOOLEAN :
             /\ model_file = "right" => template
             /\ model' = [file |-> model_file, template |-> template]
     \/ Raise /\ UNCHANGED model
  /\ UNCHANGED <<config, model_file, metadata, run_state, generation_state, printed>>

\* W&B and the tracker (wandb_tracker.py).

\* The commit or "unknown"; what git writes may be no text in the locale's
\* encoding, and the UnicodeDecodeError is not caught.
current_git_commit ==
  /\ At("git")
  /\ \/ Goto("track") /\ UNCHANGED raised
     \/ Raise /\ raised' = raised \cup {"git"}
  /\ UNCHANGED <<config, model_file, metadata, model, sdk_imported, tracker, wandb_run,
                 environment, generation_state, printed>>

\* A netrc file is missing or refused by the system or the parser ("refused"), is
\* not text in any encoding tried, or names the host without or with a password.
NetrcFiles == {"refused", "undecodable", "no password", "password"}

\* What is found: the key, or a password for the host in a netrc file; or "error",
\* when a malformed URL, a home directory that is not to be found (no files) or an
\* undecodable file raises what is not caught.
has_online_credentials(key, url, files) ==
  CASE key -> "key"
    [] ~key /\ url = "malformed" -> "error"
    [] ~key /\ url = "no host" -> "none"
    [] OTHER ->
         IF \E i \in DOMAIN files : /\ files[i] = "password"
                                   /\ \A j \in 1 .. i : files[j] # "undecodable"
         THEN "netrc"
         ELSE IF files = << >> \/ "undecodable" \in Range(files) THEN "error" ELSE "none"

\* The run opened records the configuration's token limit.
build_run_config ==
  [NoRun EXCEPT !.opened = TRUE, !.max_tokens = config.max_tokens, !.file = metadata]

TrackedNext == IF script = "smoke" THEN "prompt" ELSE "log"

Inactive == Goto(TrackedNext) /\ UNCHANGED <<sdk_imported, tracker, wandb_run>>

\* WandbTracker.start with an environment: NETRC names one file, or there are
\* the two default ones in the home directory, if there is one.
start_tracker(mode, key, url, files) ==
  LET offline     == mode \in {"offline", "dryrun"}
      credentials == has_online_credentials(key, url, files)
      readable    == url # "malformed" /\ files # << >> /\ "undecodable" \notin Range(files)
  IN  /\ environment' = [mode |-> mode, credentials |-> credentials, readable |-> readable]
      /\ IF ~config.enabled \/ mode = "disabled" THEN Inactive
         ELSE IF ~offline /\ credentials = "error"
         THEN Raise /\ UNCHANGED <<sdk_imported, tracker, wandb_run>>
         ELSE IF ~offline /\ credentials = "none" THEN Inactive
         ELSE \/ /\ sdk_imported' \in BOOLEAN   \* the import or init raises
                 /\ Goto(TrackedNext) /\ UNCHANGED <<tracker, wandb_run>>
              \/ /\ sdk_imported' = TRUE /\ tracker' = TRUE
                 /\ wandb_run' = build_run_config /\ Goto(TrackedNext)

Track ==
  /\ At("track")
  /\ \E mode \in Modes, key \in BOOLEAN, url \in BaseUrls, files \in SeqOf(NetrcFiles, 2) :
       start_tracker(mode, key, url, files)
  /\ UNCHANGED <<config, model_file, metadata, model, raised, generation_state, printed>>

\* MUTANT: what the run raises is not caught.
log_uncaught ==
  /\ At("log")
  /\ \/ ~tracker /\ Goto("finish") /\ UNCHANGED <<wandb_run, raised>>
     \/ tracker /\ Goto("finish") /\ UNCHANGED raised
        /\ wandb_run' = [wandb_run EXCEPT !.logged = Append(@, Len(output_ids))]
     \/ tracker /\ Raise /\ raised' = raised \cup {"log"} /\ UNCHANGED wandb_run
  /\ UNCHANGED <<config, model_file, metadata, model, sdk_imported, tracker, environment,
                 generation_state, printed>>

\* WandbTracker.log and finish: the run does as it is told or raises.
log ==
  /\ At("log")
  /\ Goto("finish")
  /\ \/ ~tracker /\ UNCHANGED <<wandb_run, raised>>
     \/ tracker /\ UNCHANGED raised
        /\ wandb_run' = [wandb_run EXCEPT !.logged = Append(@, Len(output_ids))]
     \/ tracker /\ raised' = raised \cup {"log"} /\ UNCHANGED wandb_run
  /\ UNCHANGED <<config, model_file, metadata, model, sdk_imported, tracker, environment,
                 generation_state, printed>>

finish ==
  /\ At("finish")
  /\ tracker' = FALSE /\ Goto("print")
  /\ \/ ~tracker /\ UNCHANGED <<wandb_run, raised>>
     \/ tracker /\ wandb_run' = [wandb_run EXCEPT !.finished = TRUE] /\ UNCHANGED raised
     \/ tracker /\ raised' = raised \cup {"finish"} /\ UNCHANGED wandb_run
  /\ UNCHANGED <<config, model_file, metadata, model, sdk_imported, environment,
                 generation_state, printed>>

----------------------------------------------------------------------------
(* run_non_thinking_inference. *)

limit == IF options.max_tokens = None THEN config.max_tokens ELSE options.max_tokens

Prompt ==
  /\ At("prompt")
  /\ IF \/ options.prompt = 0 \/ limit <= 0 \/ negative(config.temperature)
        \/ ~model.template
     THEN Raise ELSE Goto("token")
  /\ UNCHANGED <<config, model_file, metadata, model, run_state, generation_state, printed>>

\* MUTANT: the limit is checked before the token is counted.
NextToken_one_more(token) ==
  /\ yielded' = Append(yielded, token)
  /\ IF token = EOS THEN Goto("decode") /\ UNCHANGED output_ids
     ELSE /\ output_ids' = Append(output_ids, token)
          /\ Goto(IF Len(output_ids) >= limit THEN "decode" ELSE "token")

\* The model hands out one more token.
NextToken(token) ==
  /\ yielded' = Append(yielded, token)
  /\ IF token = EOS THEN Goto("decode") /\ UNCHANGED output_ids
     ELSE /\ output_ids' = Append(output_ids, token)
          /\ Goto(IF Len(output_ids) + 1 >= limit THEN "decode" ELSE "token")

\* Before it does, llama.cpp evaluates the prompt and the tokens so far, which
\* raises when they do not fit in the context.
Token ==
  /\ At("token")
  /\ IF options.prompt + Len(output_ids) > ContextSize
     THEN Raise /\ UNCHANGED generation_state
     ELSE \E token \in Tokens \cup {EOS} : NextToken(token)
  /\ UNCHANGED <<config, model_file, metadata, model, run_state, printed>>

Decode ==
  /\ At("decode")
  /\ IF Decodable(output_ids) THEN Goto("log") ELSE Raise
  /\ UNCHANGED <<config, model_file, metadata, model, run_state, generation_state, printed>>

\* The JSON on standard output, which may not take it.
PrintResult ==
  /\ At("print")
  /\ \/ /\ printed' = [ids |-> output_ids, file |-> metadata, tracking |-> wandb_run.opened]
        /\ step' = "ended" /\ exit' = 0 /\ UNCHANGED raised
     \/ Raise /\ raised' = raised \cup {"print"} /\ UNCHANGED printed
  /\ UNCHANGED <<config, model_file, metadata, model, sdk_imported, tracker, wandb_run,
                 environment, generation_state>>

----------------------------------------------------------------------------
(* Everything. *)

ScriptStep ==
  \/ Fetch \/ LoadConfig \/ read_model_metadata \/ load_cpu_model \/ current_git_commit \/ Track
  \/ Prompt \/ Token \/ Decode \/ log \/ finish \/ PrintResult

\* Another program puts another file in the model's place or removes it.
Replace ==
  /\ replaced.times < MaxReplaced
  /\ model_file' \in {"absent", "right", "other"} \ {model_file}
  /\ replaced' = [times |-> replaced.times + 1, since |-> replaced.since \/ step = "load"]
  /\ UNCHANGED <<script, step, exit, options, config, metadata, model, run_state,
                 generation_state, printed, starts>>

ExperimentNext ==
  (\E s \in {"download", "smoke", "dummy"} : StartScript(s)) \/ ScriptStep \/ Replace

\* Started scripts run on.
ExperimentSpec ==
  ExperimentInit /\ [][ExperimentNext]_experiment /\ WF_experiment(ScriptStep)

----------------------------------------------------------------------------
(* Properties. *)

\* Tracking failures never stop the experiment (the comment in
\* WandbTracker.start): no step that starts, feeds or finishes tracking stops a
\* script or touches its result.
TrackingNeverStops ==
  [][(step \in {"track", "log", "finish"}) =>
       exit' # 1 /\ UNCHANGED <<model, metadata, output_ids>>]_experiment

\* Credentials are looked for where they cannot be read: tracking is enabled and
\* online, there is no API key, and the base URL is malformed, no home directory is
\* found or a netrc file cannot be decoded.
Unreadable ==
  /\ config.enabled /\ environment.mode \notin {"disabled", "offline", "dryrun"}
  /\ environment.credentials # "key" /\ ~environment.readable

SdkWithLeave ==
  sdk_imported =>
    /\ config.enabled /\ environment.mode # "disabled"
    /\ \/ environment.mode \in {"offline", "dryrun"}
       \/ environment.credentials \in {"key", "netrc"}

\* W&B is out of the experiment's way but for this one case: no step that starts,
\* feeds or finishes tracking touches the result of a script, whatever the SDK
\* raises and wherever; only its start stops one, and only when credentials
\* cannot be read; and without leave and credentials the SDK is not even imported.
TrackingHarmless ==
  /\ [][(step \in {"track", "log", "finish"}) =>
          /\ exit' = 1 => step = "track" /\ Unreadable'
          /\ UNCHANGED <<model, metadata, output_ids>>]_experiment
  /\ []SdkWithLeave

\* What a script that succeeds has said and recorded is what it did: the tokens
\* printed are those the model handed out up to its end or the limit in force;
\* the model named is the file that was hashed, which is the fixed artifact, and
\* the one loaded unless the file was replaced between hashing and loading; W&B's
\* run was told of this very result once and was finished, as far as its calls did
\* not raise.
RunTruthful ==
  exit = 0 /\ script # "none" =>
    /\ script # "dummy" => printed.file = "right"
    /\ script = "smoke" =>
         /\ IsPrefix(printed.ids, yielded) /\ EOS \notin Range(printed.ids)
         /\ Len(printed.ids) <= limit
         /\ EOS \in Range(yielded) \/ Len(printed.ids) = limit
         /\ replaced.since \/ model.file = printed.file
    /\ printed.tracking = wandb_run.opened
    /\ wandb_run.opened =>
         /\ wandb_run.file = printed.file
         /\ wandb_run.logged = IF "log" \in raised THEN << >> ELSE <<Len(printed.ids)>>
         /\ wandb_run.finished = ("finish" \notin raised)

\* What can still stop an experiment whose configuration was accepted when a model
\* is loaded, and perhaps a run left open: its command line, the GGUF's metadata, a
\* character cut by the limit, a prompt and a limit that do not fit in the context,
\* which nothing checks, what git writes, credentials that cannot be read, and an
\* output that does not take the result.
ConfigSuffices ==
  exit = 1 /\ model # NoModel =>
    \/ options.prompt = 0 \/ (options.max_tokens # None /\ options.max_tokens <= 0)
    \/ ~model.template \/ ~Decodable(output_ids)
    \/ options.prompt + limit > ContextSize + 1
    \/ raised \cap {"git", "print"} # {} \/ Unreadable

\* Every script that was started ends, although the model may never hand out an
\* end-of-sequence token.
ScriptEnds == step # "ended" ~> step = "ended"

\* What the W&B run records as its token limit is the limit in force.
LimitRecorded == script = "smoke" /\ wandb_run.opened => wandb_run.max_tokens = limit
=============================================================================
