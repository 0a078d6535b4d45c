--------------------------- MODULE PersistenceKey ---------------------------
(***************************************************************************)
(* The keys under which DataService files readings, alarms and actuator    *)
(* statuses in the persistence: "<device key>+<reference>".  A name is a   *)
(* sequence over Symbol; nothing keeps the delimiter out of it.            *)
(***************************************************************************)
EXTENDS Naturals, Sequences

CONSTANTS Symbol,     \* the characters names are made of
          Delimiter   \* DataService::PERSISTENCE_KEY_DELIMITER

ASSUME DelimiterAssumption == Delimiter \in Symbol

Name == Seq(Symbol)

NoName == <<>>

DelimiterFree(name) == \A i \in DOMAIN name : name[i] # Delimiter

MakePersistenceKey(deviceKey, reference) ==
  deviceKey \o <<Delimiter>> \o reference

DelimiterPositions(key) == {i \in DOMAIN key : key[i] = Delimiter}

(* Mutant: the last delimiter, as std::string::rfind would find.           *)
FirstDelimiter_Last(key) ==
  CHOOSE i \in DelimiterPositions(key) :
    \A j \in DelimiterPositions(key) : j <= i

(* std::string::find: the position of the first delimiter.                 *)
FirstDelimiter(key) ==
  CHOOSE i \in DelimiterPositions(key) :
    \A j \in DelimiterPositions(key) : i <= j

(* A key without a delimiter parses to two empty names.                    *)
ParsePersistenceKey(key) ==
  IF DelimiterPositions(key) = {}
  THEN [device |-> NoName, reference |-> NoName]
  ELSE LET pos == FirstDelimiter(key)
       IN  [device    |-> SubSeq(key, 1, pos - 1),
            reference |-> SubSeq(key, pos + 1, Len(key))]

FindMatchingPersistanceKeys(deviceKey, keys) ==
  {key \in keys : ParsePersistenceKey(key).device = deviceKey}

=============================================================================
