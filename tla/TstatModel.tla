------------------------------ MODULE TstatModel ------------------------------
(***************************************************************************)
(* The thermostat's data (tstat_model.c, tstat_logic.c).  tstat-model owns *)
(* it; tstat-logic pulls a copy, decides about the relays and pushes the   *)
(* whole copy back, while others write to tstat-model too.  Both sides use *)
(* the same load and dump.                                                 *)
(*                                                                         *)
(* A JSON text is the tokens that jsmn finds in it, <<>> if it finds none  *)
(* or fails.  Of a token's text only two things matter: which of the words *)
(* the program knows it is a prefix of, and the number atoi reads there.   *)
(***************************************************************************)
EXTENDS Integers, Sequences

CONSTANTS Temperatures,  \* the numbers that are sent
          MaxTokens,     \* MAX_JSMN_TOKENS
          Messages,      \* texts that others send to tstat-model
          Spellings      \* how tstat-model may write a mode: as "C", as "Python"

ASSUME TemperaturesAssumption == 0 \in Temperatures /\ Temperatures \subseteq Int
ASSUME MaxTokensAssumption == MaxTokens \in Nat

\* A text is a list of tokens, of which atoi reads integers.
ASSUME TextsAssumption ==
  Messages \subseteq Seq([type : STRING, prefixOf : SUBSET STRING, number : Int])

OFF == "SYSTEM_MODE_OFF"
COOL == "SYSTEM_MODE_COOL"
HEAT == "SYSTEM_MODE_HEAT"

\* In the order in which keys and modes are compared.
Fields == <<"ambient", "cool_setpoint", "heat_setpoint", "relay_y", "relay_w", "system_mode">>
Modes == <<OFF, COOL, HEAT>>

Degrees == {"ambient", "cool_setpoint", "heat_setpoint"}
Relays == {"relay_y", "relay_w"}

Token(type, words, number) == [type |-> type, prefixOf |-> words, number |-> number]
Object == Token("object", {}, 0)
String(words) == Token("string", words, 0)
Number(n) == Token("primitive", {}, n)
Bool(b) == Token("primitive", {IF b THEN "true" ELSE "false"}, 0)

-------------------------------------------------------------------------------
(* tstat_model_load_json.  Each step gives the model it leaves and whether *)
(* it succeeded; what was stored before a step failed stays stored.        *)

Stored(m, field, value) == [ok |-> TRUE, model |-> [m EXCEPT ![field] = value]]
Failed(m) == [ok |-> FALSE, model |-> m]

\* The first of these words that the token's text is a prefix of; 0 if none.
FirstMatch(words, token) ==
  LET hits == {k \in DOMAIN words : words[k] \in token.prefixOf}
  IN  IF hits = {} THEN 0 ELSE CHOOSE k \in hits : \A j \in hits : k <= j

UpdateInt(m, field, value) ==
  IF value.type = "primitive" THEN Stored(m, field, value.number) ELSE Failed(m)

UpdateBool(m, field, value) ==
  IF value.type = "primitive" /\ {"true", "false"} \intersect value.prefixOf # {}
  THEN Stored(m, field, "true" \in value.prefixOf) ELSE Failed(m)

UpdateEnum(m, field, value) ==   \* whatever the token's type
  IF FirstMatch(Modes, value) # 0
  THEN Stored(m, field, Modes[FirstMatch(Modes, value)]) ELSE Failed(m)

Update(m, key, value) ==
  IF key.type # "string" THEN Failed(m)
  ELSE LET k == FirstMatch(Fields, key)
       IN  CASE k = 0 -> [ok |-> TRUE, model |-> m]
             [] k \in 1 .. 3 -> UpdateInt(m, Fields[k], value)
             [] k \in 4 .. 5 -> UpdateBool(m, Fields[k], value)
             [] k = 6 -> UpdateEnum(m, Fields[k], value)

\* The loop over the first n pairs of key and value.
LoadPairs(m, text, n) ==
  LET load[i \in 0 .. n] ==
        IF i = 0 THEN [ok |-> TRUE, model |-> m]
        ELSE IF load[i - 1].ok
        THEN Update(load[i - 1].model, text[2 * i], text[2 * i + 1])
        ELSE load[i - 1]
  IN  load[n]

\* Fault: room for one token less.
LoadTight(m, text) ==
  IF Len(text) \in 1 .. MaxTokens - 1 /\ text[1].type = "object" /\ Len(text) % 2 = 1
  THEN LoadPairs(m, text, Len(text) \div 2) ELSE Failed(m)

Load(m, text) ==
  IF Len(text) \in 1 .. MaxTokens /\ text[1].type = "object" /\ Len(text) % 2 = 1
  THEN LoadPairs(m, text, Len(text) \div 2) ELSE Failed(m)

-------------------------------------------------------------------------------
(* tstat_model_dump_json. *)

\* system_mode_to_string: "SYSTEM_MDOE_HEAT" is a prefix of no word.
ModeName(mode) == String(IF mode = HEAT THEN {} ELSE {mode})

Key(field) == String({field})
Written(m, field) ==
  <<Key(field), IF field \in Degrees THEN Number(m[field]) ELSE Bool(m[field])>>

\* Fault: the mode is written before the relays.
WrittenModeFirst(m, mode) ==
  <<Object>> \o Written(m, "ambient") \o Written(m, "cool_setpoint")
    \o Written(m, "heat_setpoint") \o <<Key("system_mode"), mode>>
    \o Written(m, "relay_y") \o Written(m, "relay_w")

WrittenModel(m, mode) ==
  <<Object>> \o Written(m, "ambient") \o Written(m, "cool_setpoint")
    \o Written(m, "heat_setpoint") \o Written(m, "relay_y") \o Written(m, "relay_w")
    \o <<Key("system_mode"), mode>>

Dump(m) == WrittenModel(m, ModeName(m.system_mode))

\* What tstat-model answers; an implementation in Python spells every mode right.
Reply(m, spelling) ==
  IF spelling = "C" THEN Dump(m) ELSE WrittenModel(m, String({m.system_mode}))

Decided(m) ==   \* tstat_logic_update_model
  [m EXCEPT !.relay_y = m.system_mode = COOL /\ m.cool_setpoint < m.ambient,
            !.relay_w = m.system_mode = HEAT /\ m.heat_setpoint > m.ambient]

-------------------------------------------------------------------------------
VARIABLES model,    \* the copy of tstat-logic
          remote,   \* the model of tstat-model
          round,    \* how far tstat-logic is in its round
          touched   \* history: others have written since the copy was pulled

vars == <<model, remote, round, touched>>

Zeroed ==
  [ambient |-> 0, cool_setpoint |-> 0, heat_setpoint |-> 0,
   relay_y |-> FALSE, relay_w |-> FALSE, system_mode |-> OFF]

Init ==
  /\ model = Zeroed /\ remote = Zeroed
  /\ round = "idle"
  /\ touched = FALSE

\* Fault: the result of the load is not looked at.
PullAnyway ==
  /\ round = "idle"
  /\ \E spelling \in Spellings : model' = Load(model, Reply(remote, spelling)).model
  /\ round' = "pulled"
  /\ touched' = FALSE
  /\ UNCHANGED remote

Pull ==   \* a load that fails ends the round
  /\ round = "idle"
  /\ \E spelling \in Spellings :
       LET loaded == Load(model, Reply(remote, spelling))
       IN  /\ model' = loaded.model
           /\ round' = IF loaded.ok THEN "pulled" ELSE "idle"
  /\ touched' = FALSE
  /\ UNCHANGED remote

Decide ==
  /\ round = "pulled"
  /\ model' = Decided(model)
  /\ round' = "decided"
  /\ UNCHANGED <<remote, touched>>

Push ==
  /\ round = "decided"
  /\ remote' = Load(remote, Dump(model)).model
  /\ round' = "idle"
  /\ UNCHANGED <<model, touched>>

OthersWrite ==   \* a text that another sends to tstat-model
  /\ \E text \in Messages : remote' = Load(remote, text).model
  /\ touched' = TRUE
  /\ UNCHANGED <<model, round>>

Set ==   \* the setters, called on tstat-model's side; there is none for ambient
  /\ \/ \E f \in {"cool_setpoint", "heat_setpoint"}, t \in Temperatures :
          remote' = [remote EXCEPT ![f] = t]
     \/ \E f \in Relays, on \in BOOLEAN : remote' = [remote EXCEPT ![f] = on]
     \/ \E mode \in {OFF, COOL, HEAT} : remote' = [remote EXCEPT !.system_mode = mode]
  /\ touched' = TRUE
  /\ UNCHANGED <<model, round>>

Next == Pull \/ Decide \/ Push \/ OthersWrite \/ Set

Spec == Init /\ [][Next]_vars

-------------------------------------------------------------------------------
(* A round changes the relays at tstat-model and nothing else, and leaves  *)
(* them as its own settings ask for, unless others have written since the  *)
(* pull: neither what failed pulls have left behind in the copy, nor a     *)
(* push that fails half way, shows.                                        *)
RoundSetsRelaysOnly ==
  [][round = "decided" /\ round' = "idle" /\ ~touched => remote' = Decided(remote)]_vars

(* Whatever others have written, before or during a round, and even if     *)
(* tstat-model cannot load all of what is pushed, after a push it does not *)
(* have both relays on.                                                    *)
PushSeparatesRelays ==
  [][round = "decided" /\ round' = "idle" => ~(remote'.relay_y /\ remote'.relay_w)]_vars

(* What is dumped can be loaded, and gives the same model, whatever the    *)
(* loading side had; but for the heating mode, whose name is misspelt.     *)
DumpLoads ==
  model.system_mode # HEAT => Load(remote, Dump(model)) = [ok |-> TRUE, model |-> model]
===============================================================================
