---------------------------- MODULE MessageParser ----------------------------
(***************************************************************************)
(* createMessageParser (worker/websocket/message-parser.ts): which of the  *)
(* messages that come in reach a handler, when the exchange repeats,       *)
(* delays and reorders them.                                               *)
(*                                                                         *)
(* lru-cache is external: get() makes an entry the most recent one, and    *)
(* deletes it if it is older than the TTL; set() evicts the least recent   *)
(* one when the cache is full, and forgets nothing before it must.  A      *)
(* message is its type and its de-dupe key; the JSON, the schemas and the  *)
(* counters, which decide nothing, are left out.  A handler that throws is *)
(* caught, with the key marked: to the parser it is one that succeeds.     *)
(***************************************************************************)
EXTENDS Naturals, Sequences, SequencesExt, FiniteSets

CONSTANTS
  MessageTypes,
  DedupedTypes,        \* the types whose handler has getDedupeKey
  DedupeKeys,
  MaxDedupe,           \* maxDedupeSize
  DedupeTtl            \* dedupeTtlMs, in ticks

ASSUME MessageParserAssumption ==
  /\ DedupedTypes \subseteq MessageTypes
  /\ MaxDedupe \in Nat \ {0}
  /\ DedupeTtl \in Nat \ {0}      \* a TTL of 0 would mean "never"

VARIABLES
  handlers,            \* the types that have a handler
  dedupeCache,         \* keys in the cache, each once, the most recent last
  marked,              \* age of every key's entry, up to Expired
  (* Bookkeeping for the properties.                                       *)
  lastPassed,          \* time since a message with this key reached a handler
  touched,             \* keys looked up since this one was
  verdict              \* what became of the last message

mpVars == <<handlers, dedupeCache, marked, lastPassed, touched, verdict>>

Expired == DedupeTtl + 1

Ages == 0 .. Expired

Cached == {dedupeCache[i] : i \in 1 .. Len(dedupeCache)}

(* Mutant of has: an entry is never too old.                               *)
hasForever(k) == k \in Cached

has(k) == k \in Cached /\ marked[k] # Expired

Others(k) == RemoveFirst(dedupeCache, k)

(* The cache after get(k) and, if that found nothing, set(k).              *)
touch(k) ==
  LET kept == IF Len(Others(k)) = MaxDedupe THEN Tail(Others(k)) ELSE Others(k)
  IN Append(kept, k)

(* Bookkeeping: what is known of the key when its message comes.           *)
Recently(k)  == lastPassed[k] # Expired
Displaced(k) == Cardinality(touched[k]) >= MaxDedupe

RegisterHandler(t) ==
  /\ handlers' = handlers \cup {t}
  /\ UNCHANGED <<dedupeCache, marked, lastPassed, touched, verdict>>

(* parse() of a message that is malformed, of no known type or invalid.    *)
ParseIgnored ==
  /\ verdict' = [was |-> "ignored", recently |-> FALSE, displaced |-> FALSE]
  /\ UNCHANGED <<handlers, dedupeCache, marked, lastPassed, touched>>

(* parse() of a valid message of type t.                                   *)
Parse(t, k) ==
  /\ t \in handlers
  /\ IF t \notin DedupedTypes
     THEN /\ verdict' = [was |-> "handled", recently |-> FALSE, displaced |-> FALSE]
          /\ UNCHANGED <<dedupeCache, marked, lastPassed, touched>>
     ELSE /\ dedupeCache' = touch(k)
          /\ touched' = [other \in DedupeKeys |-> IF other = k THEN {}
                                                  ELSE touched[other] \cup {k}]
          /\ verdict' = [was       |-> IF has(k) THEN "skipped" ELSE "handled",
                         recently  |-> Recently(k),
                         displaced |-> Displaced(k)]
          /\ IF has(k)
             THEN UNCHANGED <<marked, lastPassed>>
             ELSE /\ marked' = [marked EXCEPT ![k] = 0]
                  /\ lastPassed' = [lastPassed EXCEPT ![k] = 0]
  /\ UNCHANGED handlers

ClearDedupeCache ==
  /\ dedupeCache' = <<>>
  /\ lastPassed' = [k \in DedupeKeys |-> Expired]
  /\ UNCHANGED <<handlers, marked, touched, verdict>>

MpTick ==
  /\ LET older(a) == IF a = Expired THEN a ELSE a + 1 IN
     /\ marked' = [k \in DedupeKeys |-> older(marked[k])]
     /\ lastPassed' = [k \in DedupeKeys |-> older(lastPassed[k])]
  /\ UNCHANGED <<handlers, dedupeCache, touched, verdict>>

MpInit ==
  /\ handlers = {} /\ dedupeCache = <<>>
  /\ marked = [k \in DedupeKeys |-> Expired]
  /\ lastPassed = [k \in DedupeKeys |-> Expired]
  /\ touched = [k \in DedupeKeys |-> {}]
  /\ verdict = [was |-> "ignored", recently |-> FALSE, displaced |-> FALSE]

MpNext ==
  \/ ParseIgnored
  \/ ClearDedupeCache
  \/ MpTick
  \/ \E t \in MessageTypes : RegisterHandler(t) \/ \E k \in DedupeKeys : Parse(t, k)

MpSpec == MpInit /\ [][MpNext]_mpVars

-----------------------------------------------------------------------------
(* Properties.                                                             *)

(* The type invariant, a part of ComponentsTypeOK.                         *)
MpTypeOK ==
  /\ handlers \subseteq MessageTypes
  /\ dedupeCache \in Seq(DedupeKeys) /\ Len(dedupeCache) <= MaxDedupe
  /\ marked \in [DedupeKeys -> Ages] /\ lastPassed \in [DedupeKeys -> Ages]
  /\ touched \in [DedupeKeys -> SUBSET DedupeKeys]
  /\ verdict \in [was : {"ignored", "handled", "skipped"},
                  recently : BOOLEAN, displaced : BOOLEAN]

(* A key passes at most once within the TTL, however often its messages    *)
(* are repeated, unless the cache is cleared or as many other keys as it   *)
(* holds have come since this one last came; and no message is skipped     *)
(* unless one with its key has passed within the TTL.                          *)
DedupeIsExact ==
  /\ verdict.was = "handled" /\ verdict.recently => verdict.displaced
  /\ verdict.was = "skipped" => verdict.recently
=============================================================================
