--------------------------- MODULE ContextLoader ----------------------------
(***************************************************************************)
(* backend/src/orchestration/contextLoader.ts: two fetches run at once,    *)
(* and when both have succeeded the session is filtered for the event.     *)
(* The first failure fails the load; the other answer is then ignored.     *)
(*                                                                         *)
(* Flag ids are distinct, so a set of flags has no duplicates to remove.   *)
(***************************************************************************)
EXTENDS EventClassifier, FiniteSetsExt

CONSTANTS
  Flags, SafetyFlags,     \* ids of flags, and those of type 'safety'
  Items, MachineItems,    \* ids of open items, and those of category 'machine'
  Machines,
  WordsOf,                \* WordsOf[x]: the tokens in the content of flag or item x
  Labels,                 \* Labels[w][m]: the tokens for machine m and its position in a w
  SerialOf,               \* SerialOf[m]: its serial number, or None
  None

VARIABLES
  fetch,      \* fetch[f]: how far the fetch of f has come
  settings,   \* the UserSettings, or None
  context     \* the ContextualData, or None

loadVars == <<fetch, settings, context>>

Fetch == {"profile", "settings"}

\* The part of a SessionState that the filter reads.
Session ==
  [flags : SUBSET Flags, acked : SUBSET Flags, items : SUBSET Items, machines : SUBSET Machines]

Context == [flags : SUBSET Flags, items : SUBSET Items, machines : SUBSET Machines]

ASSUME ContextAssumption ==
  /\ SafetyFlags \subseteq Flags /\ MachineItems \subseteq Items
  /\ WordsOf \in [Flags \cup Items -> SUBSET Tokens]
  /\ Labels \in [{"message", "item", "flag"} -> [Machines -> SUBSET Tokens]]
  /\ SerialOf \in [Machines -> Tokens \cup {None}]
  /\ None \notin Tokens /\ None \notin Event
  /\ None \notin Context

-----------------------------------------------------------------------------
(* User settings: one key of each kind, and raw values that tell them apart. *)

Keys == {"ttsRate", "styleProfileVisible", "styleExclusions", "voiceResponseMode", "timeZone"}
Raws == {"1.5", "", "true", "[]", "{}", "always", "UTC"}

\* A column that is not a string is "none"; a key the code does not know, "else".
SettingRow == [key : Keys \cup {"else", "none"}, raw : Raws \cup {"none"}]

\* What coerceSetting takes for a key.  Number("") is 0, which is finite.
Coercible ==
  [ttsRate |-> {"1.5", ""}, styleProfileVisible |-> {"true"}, styleExclusions |-> {"[]"},
   voiceResponseMode |-> {"always"}, timeZone |-> Raws]

Coerce(key, raw) == IF key = "ttsRate" /\ raw = "" THEN "0" ELSE raw

SettingValue(key) == {"default"} \cup {Coerce(key, raw) : raw \in Coercible[key]}
Settings == {s \in [Keys -> Raws \cup {"default", "0"}] : \A k \in Keys : s[k] \in SettingValue(k)}

Corrupt(row) ==
  \/ row.key = "none" \/ row.raw = "none"
  \/ row.key \in Keys /\ row.raw \notin Coercible[row.key]

\* The persisted rows over the defaults; of two rows for a key the later wins.
Overlay(rows) ==
  [k \in Keys |->
    LET at == {i \in DOMAIN rows : rows[i].key = k}
    IN  IF at = {} THEN "default" ELSE Coerce(k, rows[Max(at)].raw)]

-----------------------------------------------------------------------------
(* Relevance.                                                              *)

\* By name, position or serial number.
MachineIsReferenced(m, content) ==
  \/ Says(content, Labels["message"][m])
  \/ SerialOf[m] # None /\ Finds(Words(content), SerialOf[m])

FilterContextForEvent(event, session) ==
  LET safety == session.flags \cap SafetyFlags
      named == {m \in session.machines : MachineIsReferenced(m, event.content)}
      about(kind, x) == \E m \in named : WordsOf[x] \cap Labels[kind][m] # {}
  IN  CASE event.type \in {"system_trigger", "session_lifecycle"} ->
             [flags |-> session.flags \ session.acked, items |-> session.items, machines |-> {}]
        [] event.type = "user_message" /\ named # {} ->
             [flags |-> safety \cup {f \in session.flags : about("flag", f)},
              items |-> {i \in session.items \cap MachineItems : about("item", i)},
              machines |-> named]
        [] OTHER ->
             [flags |-> safety, items |-> {}, machines |-> {}]

-----------------------------------------------------------------------------
LoadTypeOK ==
  /\ fetch \in [Fetch -> {"idle", "pending", "ok", "failed"}]
  /\ settings \in Settings \cup {None}
  /\ context \in Context \cup {None}

LoadInit == fetch = [f \in Fetch |-> "idle"] /\ settings = None /\ context = None

StartFetches ==
  /\ fetch' = [f \in Fetch |-> "pending"]
  /\ UNCHANGED <<settings, context>>

\* No row is a first session, not an error; a row without a summary is one.
ProfileAnswers(result) ==
  /\ fetch["profile"] = "pending"
  /\ fetch' = [fetch EXCEPT !["profile"] = result]
  /\ UNCHANGED <<settings, context>>

SettingsRead(rows) ==
  /\ fetch["settings"] = "pending"
  /\ \A i \in DOMAIN rows : ~ Corrupt(rows[i])
  /\ fetch' = [fetch EXCEPT !["settings"] = "ok"]
  /\ settings' = Overlay(rows)
  /\ UNCHANGED context

\* The query fails, or a row is corrupt.
SettingsFail ==
  /\ fetch["settings"] = "pending"
  /\ fetch' = [fetch EXCEPT !["settings"] = "failed"]
  /\ UNCHANGED <<settings, context>>

LoadContext(event, session) ==
  /\ \A f \in Fetch : fetch[f] = "ok"
  /\ context' = FilterContextForEvent(event, session)
  /\ UNCHANGED <<fetch, settings>>

LoadFails ==
  /\ \E f \in Fetch : fetch[f] = "failed"
  /\ UNCHANGED loadVars
=============================================================================
