---------------------------- MODULE ServiceConfig ----------------------------
(***************************************************************************)
(* What the server is configured with: a file, read by FileConfigProvider, *)
(* and environment variables, which main puts over it.  Every value is a   *)
(* string; "" is one that is empty or not set.  A file is a sequence of    *)
(* entries, of which FileConfigProvider sees the keys and, by the next     *)
(* quotes after the colon, the strings; NotString stands for a number, a   *)
(* boolean or null.  A file that is absent or empty is a file without      *)
(* entries: none of them is loaded.                                        *)
(***************************************************************************)
EXTENDS Naturals, Sequences, FiniteSets

CONSTANTS NotString, \* a value of an entry that is not a string
          NoValue    \* ExtractStringValue returned false

Required == {"currentLocation", "configurationStore", "configurationContainer"}
Fields == Required \cup {"domainSuffix"}

DefaultConfig ==
  [f \in Fields |->
     IF f = "domainSuffix" THEN ".blob.core.windows.net" ELSE ""]

(* Of an entry whose value is not a string, the key of the entry after it  *)
(* passes for the value.                                                   *)
ExtractStringValue(file, key) ==
  LET at == {i \in DOMAIN file : file[i].key = key}
      i == CHOOSE j \in at : \A k \in at : j <= k
  IN IF at = {} \/ (file[i].value = NotString /\ i = Len(file)) THEN NoValue
     ELSE IF file[i].value = NotString THEN file[i + 1].key
     ELSE file[i].value

IsValid(config) == \A f \in Fields : config[f] # ""

(* config_ of the provider, once ParseJson has gone through all fields.    *)
Parsed(file) ==
  [f \in Fields |-> IF ExtractStringValue(file, f) = NoValue
                    THEN DefaultConfig[f] ELSE ExtractStringValue(file, f)]

ParseJson(file) == \A f \in Required : ExtractStringValue(file, f) # NoValue

(* Mutant: Load does not fail when a field is missing.                     *)
LoadPartly(file) == file # <<>>

(* A file that lacks a field, or leaves one empty, is not loaded at all.   *)
Load(file) == ParseJson(file) /\ IsValid(Parsed(file))

(* The environment goes over the file, or over the defaults.               *)
ServiceConfigFrom(file, env) ==
  [f \in Fields |->
     IF env[f] # "" THEN env[f]
     ELSE IF Load(file) THEN Parsed(file)[f] ELSE DefaultConfig[f]]

=============================================================================
