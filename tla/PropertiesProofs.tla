-------------------------- MODULE PropertiesProofs --------------------------
(***************************************************************************)
(* Theorems about the properties of a run, for every set of keys, every    *)
(* value and every number of -p entries and -P files: the value of a key   *)
(* is the documented one.                                                  *)
(***************************************************************************)
EXTENDS Properties, TLAPS

LOCAL INSTANCE FiniteSetsExt

(***************************************************************************)
(* Smallest and largest                                                    *)
(***************************************************************************)

\* A bound of a set that is in the set is its largest, or smallest, element.
LEMMA Extremes ==
  ASSUME NEW S \in SUBSET Int, NEW m \in S
  PROVE  /\ (\A i \in S : i <= m) => Max(S) = m
         /\ (\A i \in S : m <= i) => Min(S) = m
<1>1. ASSUME \A i \in S : i <= m
      PROVE  Max(S) = m
  <2>1. \A x \in S : (\A y \in S : x >= y) <=> x = m
    BY <1>1
  <2> QED BY <2>1 DEF Max
<1>2. ASSUME \A i \in S : m <= i
      PROVE  Min(S) = m
  <2>1. \A x \in S : (\A y \in S : x =< y) <=> x = m
    BY <1>2
  <2> QED BY <2>1 DEF Min
<1> QED BY <1>1, <1>2

(***************************************************************************)
(* The value of a key                                                      *)
(***************************************************************************)

\* The layer of the command line holds the last entry of a key (keyvalues.go Set).
LastWins(k) ==
  \/ cli[k] = NotGiven /\ \A i \in DOMAIN arguments : arguments[i].key # k
  \/ \E m \in DOMAIN arguments :
       /\ arguments[m].key = k /\ cli[k] = arguments[m].value
       /\ \A i \in DOMAIN arguments : arguments[i].key = k => i <= m

\* The layer of the files holds what the first loaded file that has the key gives
\* it (props.go New).
FirstWins(k) ==
  \/ fileLayer[k] = NotGiven /\ \A i \in 1 .. loaded : paths[i][k] = NotGiven
  \/ \E m \in 1 .. loaded :
       /\ fileLayer[k] = paths[m][k] /\ fileLayer[k] # NotGiven
       /\ \A i \in 1 .. m - 1 : paths[i][k] = NotGiven

EngineLayer == [k \in Keys |-> IF k \in DOMAIN EngineValues THEN EngineValues[k] ELSE NotGiven]

IInv ==
  /\ OptionsTypeOK
  /\ annotation \in Annotations
  /\ \A k \in Keys : LastWins(k) /\ FirstWins(k)
  /\ stage = "options" => loaded = 0
  /\ stage = "resolved" => loaded = Len(paths) /\ set = EngineLayer

\* The initial state satisfies the invariant.
LEMMA InitInv == OptionsInit => IInv
<1> SUFFICES ASSUME OptionsInit PROVE IInv
  OBVIOUS
<1>1. OptionsTypeOK
  BY LayersAssumption DEF OptionsInit, OptionsTypeOK, Layer, Nothing
<1>2. \A k \in Keys : LastWins(k) /\ FirstWins(k)
  BY DEF OptionsInit, Nothing, LastWins, FirstWins
<1> QED BY <1>1, <1>2 DEF OptionsInit, IInv

\* An entry takes the place of the one its key had.
LEMMA AddEntryInv ==
  ASSUME IInv, NEW k \in Keys, NEW v \in Entries, AddEntry(k, v)
  PROVE  IInv'
<1> DEFINE entry == [key |-> k, value |-> v]
           n == Len(arguments)
<1>1. /\ stage = "options" /\ stage' = "options" /\ UNCHANGED <<annotation, paths, fileLayer, loaded, set>>
      /\ arguments' = Append(arguments, entry) /\ cli' = [cli EXCEPT ![k] = v]
  BY DEF AddEntry, WithEntry
<1>2. arguments \in Seq([key : Keys, value : Texts]) /\ cli \in [Keys -> Texts \cup {NotGiven}]
  BY DEF IInv, OptionsTypeOK, Layer
<1>3. entry \in [key : Keys, value : Texts] /\ v \in Texts
  BY LayersAssumption
<1>4. n \in Nat /\ Len(arguments') = n + 1 /\ DOMAIN arguments = 1 .. n /\ DOMAIN arguments' = 1 .. n + 1
  BY <1>1, <1>2, <1>3
<1>5. /\ arguments'[n + 1].key = k /\ arguments'[n + 1].value = v
      /\ \A i \in 1 .. n : arguments'[i] = arguments[i]
  <2>1. arguments'[n + 1] = entry
    BY <1>1, <1>2, <1>3
  <2>2. \A i \in 1 .. n : arguments'[i] = arguments[i]
    BY <1>1, <1>2, <1>3
  <2> QED BY <2>1, <2>2
<1>6. OptionsTypeOK'
  BY <1>1, <1>2, <1>3 DEF IInv, OptionsTypeOK, Layer
<1>7. cli'[k] = v /\ \A j \in Keys \ {k} : cli'[j] = cli[j]
  BY <1>1, <1>2
<1> HIDE DEF n
<1>8. ASSUME NEW j \in Keys
      PROVE  LastWins(j)'
  <2>1. CASE j = k
    <3>1. arguments'[n + 1].key = j /\ cli'[j] = arguments'[n + 1].value
      BY <1>5, <1>7, <2>1
    <3> QED BY <1>4, <3>1 DEF LastWins
  <2>2. CASE j # k
    <3>1. cli'[j] = cli[j] /\ arguments'[n + 1].key # j
      BY <1>5, <1>7, <2>2
    <3>2. LastWins(j)
      BY DEF IInv
    <3>3. CASE cli[j] = NotGiven /\ \A i \in DOMAIN arguments : arguments[i].key # j
      BY <1>4, <1>5, <3>1, <3>3 DEF LastWins
    <3>4. CASE \E m \in DOMAIN arguments :
                 /\ arguments[m].key = j /\ cli[j] = arguments[m].value
                 /\ \A i \in DOMAIN arguments : arguments[i].key = j => i <= m
      <4>1. PICK m \in 1 .. n : /\ arguments[m].key = j /\ cli[j] = arguments[m].value
                                /\ \A i \in 1 .. n : arguments[i].key = j => i <= m
        BY <1>4, <3>4
      <4>2. m \in 1 .. n + 1 /\ arguments'[m].key = j /\ cli'[j] = arguments'[m].value
        BY <1>4, <1>5, <3>1, <4>1
      <4>3. \A i \in 1 .. n + 1 : arguments'[i].key = j => i <= m
        BY <1>4, <1>5, <3>1, <4>1
      <4> QED BY <1>4, <4>2, <4>3 DEF LastWins
    <3> QED BY <3>2, <3>3, <3>4 DEF LastWins
  <2> QED BY <2>1, <2>2
<1>9. \A j \in Keys : FirstWins(j)'
  BY <1>1 DEF IInv, FirstWins
<1> QED BY <1>1, <1>6, <1>8, <1>9 DEF IInv

\* A file is put after the others.
LEMMA AddFileInv ==
  ASSUME IInv, NEW f \in Files, AddFile(f)
  PROVE  IInv'
<1>1. /\ stage = "options" /\ stage' = "options" /\ UNCHANGED <<annotation, arguments, cli, fileLayer, loaded, set>>
      /\ paths' = Append(paths, f)
  BY DEF AddFile
<1>2. paths \in Seq(Files) /\ loaded = 0
  BY <1>1 DEF IInv, OptionsTypeOK
<1>3. OptionsTypeOK'
  BY <1>1, <1>2 DEF IInv, OptionsTypeOK, Layer
<1>4. \A j \in Keys : LastWins(j)'
  BY <1>1 DEF IInv, LastWins
<1>5. \A j \in Keys : FirstWins(j)'
  BY <1>1, <1>2 DEF IInv, FirstWins
<1> QED BY <1>1, <1>3, <1>4, <1>5 DEF IInv

\* The options are all there.
LEMMA ParsedInv == IInv /\ Parsed => IInv'
<1> SUFFICES ASSUME IInv, Parsed PROVE IInv'
  OBVIOUS
<1>1. OptionsTypeOK'
  BY DEF IInv, OptionsTypeOK, Parsed, Layer
<1>2. \A j \in Keys : LastWins(j)' /\ FirstWins(j)'
  BY DEF IInv, Parsed, LastWins, FirstWins
<1> QED BY <1>1, <1>2 DEF IInv, Parsed

\* A file completes the ones loaded before it.
LEMMA LoadFileInv == IInv /\ LoadFile => IInv'
<1> SUFFICES ASSUME IInv, LoadFile PROVE IInv'
  OBVIOUS
<1> DEFINE f == paths[loaded + 1]
<1>1. /\ stage = "new" /\ UNCHANGED <<annotation, arguments, paths, cli, set, stage>>
      /\ loaded < Len(paths) /\ loaded' = loaded + 1
      /\ fileLayer' = [k \in Keys |-> IF fileLayer[k] = NotGiven THEN f[k] ELSE fileLayer[k]]
  BY DEF LoadFile, CompletedBy
<1>2. paths \in Seq(Files) /\ loaded \in 0 .. Len(paths) /\ fileLayer \in Layer /\ Len(paths) \in Nat
  BY DEF IInv, OptionsTypeOK
<1>3. f \in Layer
  <2>1. f \in Files
    BY <1>1, <1>2
  <2> QED BY <2>1, LayersAssumption DEF Layer
<1>4. fileLayer' \in Layer
  BY <1>1, <1>2, <1>3 DEF Layer
<1>5. OptionsTypeOK'
  BY <1>1, <1>2, <1>4 DEF IInv, OptionsTypeOK
<1>6. \A j \in Keys : LastWins(j)'
  BY <1>1 DEF IInv, LastWins
<1>7. ASSUME NEW j \in Keys
      PROVE  FirstWins(j)'
  <2>1. fileLayer'[j] = IF fileLayer[j] = NotGiven THEN f[j] ELSE fileLayer[j]
    BY <1>1
  <2>2. FirstWins(j)
    BY DEF IInv
  <2>3. CASE fileLayer[j] # NotGiven
    BY <1>1, <1>2, <2>1, <2>2, <2>3 DEF FirstWins
  <2>4. CASE fileLayer[j] = NotGiven /\ f[j] = NotGiven
    <3>1. \A i \in 1 .. loaded : paths[i][j] = NotGiven
      BY <2>2, <2>4 DEF FirstWins
    <3>2. \A i \in 1 .. loaded' : paths'[i][j] = NotGiven
      BY <1>1, <1>2, <2>4, <3>1
    <3> QED BY <2>1, <2>4, <3>2 DEF FirstWins
  <2>5. CASE fileLayer[j] = NotGiven /\ f[j] # NotGiven
    <3>1. \A i \in 1 .. loaded : paths[i][j] = NotGiven
      BY <2>2, <2>5 DEF FirstWins
    <3>2. fileLayer'[j] = paths'[loaded'][j] /\ fileLayer'[j] # NotGiven
      BY <1>1, <2>1, <2>5
    <3>3. loaded' \in 1 .. loaded' /\ \A i \in 1 .. loaded' - 1 : paths'[i][j] = NotGiven
      BY <1>1, <1>2, <3>1
    <3> QED BY <3>2, <3>3 DEF FirstWins
  <2> QED BY <2>3, <2>4, <2>5
<1> QED BY <1>1, <1>5, <1>6, <1>7 DEF IInv

\* The engine sets its values when all the files are loaded.
LEMMA SetEngineValuesInv == IInv /\ SetEngineValues => IInv'
<1> SUFFICES ASSUME IInv, SetEngineValues PROVE IInv'
  OBVIOUS
<1>1. set' = EngineLayer /\ EngineLayer \in Layer
  BY LayersAssumption DEF SetEngineValues, EngineLayer, Layer
<1>2. OptionsTypeOK'
  BY <1>1 DEF IInv, OptionsTypeOK, SetEngineValues
<1>3. \A j \in Keys : LastWins(j)' /\ FirstWins(j)'
  BY DEF IInv, SetEngineValues, LastWins, FirstWins
<1> QED BY <1>1, <1>2, <1>3 DEF IInv, SetEngineValues, EngineLayer

\* The invariant holds in every state.
THEOREM Invariance == OptionsSpec => []IInv
<1>1. IInv /\ [OptionsNext]_optionVars => IInv'
  <2> SUFFICES ASSUME IInv, [OptionsNext]_optionVars PROVE IInv'
    OBVIOUS
  <2>1. CASE UNCHANGED optionVars
    <3>1. OptionsTypeOK'
      BY <2>1 DEF optionVars, IInv, OptionsTypeOK
    <3>2. \A j \in Keys : LastWins(j)' /\ FirstWins(j)'
      BY <2>1 DEF optionVars, IInv, LastWins, FirstWins
    <3> QED BY <2>1, <3>1, <3>2 DEF optionVars, IInv, EngineLayer
  <2> QED BY <2>1, AddEntryInv, AddFileInv, ParsedInv, LoadFileInv, SetEngineValuesInv DEF OptionsNext
<1> QED BY <1>1, InitInv, PTL DEF OptionsSpec

\* Lookup returns the first layer that gives a value.
LEMMA LookupFirst ==
  ASSUME NEW k
  PROVE  \/ Lookup(k).value = Empty /\ \A i \in 1 .. 5 : ~Provides(Layers(k)[i].value)
         \/ \E i \in 1 .. 5 :
              /\ Lookup(k).value = Layers(k)[i].value /\ Provides(Layers(k)[i].value)
              /\ \A j \in 1 .. i - 1 : ~Provides(Layers(k)[j].value)
<1> DEFINE giving == {i \in 1 .. 5 : Provides(Layers(k)[i].value)}
<1>1. DOMAIN Layers(k) = 1 .. 5
  BY DEF Layers
<1>2. Lookup(k) = IF giving = {} THEN [layer |-> "none", value |-> Empty] ELSE Layers(k)[Min(giving)]
  BY <1>1 DEF Lookup
<1>3. CASE giving = {}
  BY <1>2, <1>3
<1>4. CASE giving # {}
  <2>1. \E i \in giving : \A j \in giving : i <= j
    <3>1. giving \subseteq {1, 2, 3, 4, 5}
      OBVIOUS
    <3> HIDE DEF giving
    <3>2. 1 \in giving \/ 2 \in giving \/ 3 \in giving \/ 4 \in giving \/ 5 \in giving
      BY <1>4, <3>1
    <3> QED BY <3>1, <3>2
  <2>2. PICK i \in giving : \A j \in giving : i <= j
    BY <2>1
  <2>3. Min(giving) = i
    BY <2>2, Extremes
  <2>4. Lookup(k).value = Layers(k)[i].value
    BY <1>2, <1>4, <2>3
  <2>5. \A j \in 1 .. i - 1 : ~Provides(Layers(k)[j].value)
    BY <2>2
  <2> QED BY <2>2, <2>4, <2>5
<1> QED BY <1>3, <1>4

\* Whatever the options, their number and their order, the value of a key is the
\* one the documentation calls for (README.md:317-321): the last -p entry, the first
\* -P file that holds it, the annotation, the default, an empty value hiding nothing.
THEOREM LookupIsDocumented == OptionsSpec => []DocumentedOrder
<1>1. IInv => DocumentedOrder
  <2> SUFFICES ASSUME IInv, stage = "resolved", NEW k \in Keys
               PROVE  LET sources == <<IF k \in DOMAIN EngineValues THEN EngineValues[k] ELSE NotGiven,
                                       LastEntry(k), FirstFile(k),
                                       IF k \in PackageScoped THEN annotation[k] ELSE NotGiven,
                                       IF k \in DeclaredKeys THEN Default[k] ELSE NotGiven>>
                      IN  /\ Lookup(k).value = Empty <=> \A i \in DOMAIN sources : ~Provides(sources[i])
                          /\ Provides(Lookup(k).value) =>
                               \E i \in DOMAIN sources :
                                 /\ Lookup(k).value = sources[i]
                                 /\ \A j \in 1 .. i - 1 : ~Provides(sources[j])
    BY DEF DocumentedOrder
  <2> DEFINE source == <<IF k \in DOMAIN EngineValues THEN EngineValues[k] ELSE NotGiven,
                         LastEntry(k), FirstFile(k),
                         IF k \in PackageScoped THEN annotation[k] ELSE NotGiven,
                         IF k \in DeclaredKeys THEN Default[k] ELSE NotGiven>>
  <2>1. LastEntry(k) = cli[k]
    <3> DEFINE entries == {i \in DOMAIN arguments : arguments[i].key = k}
    <3>1. entries \in SUBSET Int
      BY DEF IInv, OptionsTypeOK
    <3>2. LastWins(k)
      BY DEF IInv
    <3>3. CASE cli[k] = NotGiven /\ entries = {}
      BY <3>3 DEF LastEntry
    <3>4. CASE \E m \in entries : cli[k] = arguments[m].value /\ \A i \in entries : i <= m
      <4>1. PICK m \in entries : cli[k] = arguments[m].value /\ \A i \in entries : i <= m
        BY <3>4
      <4>2. Max(entries) = m
        BY <3>1, <4>1, Extremes
      <4> QED BY <4>1, <4>2 DEF LastEntry
    <3> QED BY <3>2, <3>3, <3>4 DEF LastWins
  <2>2. FirstFile(k) = fileLayer[k]
    <3> DEFINE defining == {i \in DOMAIN paths : paths[i][k] # NotGiven}
    <3>1. loaded = Len(paths) /\ loaded \in Nat /\ DOMAIN paths = 1 .. loaded
      BY DEF IInv, OptionsTypeOK
    <3>2. defining \in SUBSET Int /\ defining \subseteq 1 .. loaded
      BY <3>1
    <3>3. FirstWins(k)
      BY DEF IInv
    <3>4. CASE fileLayer[k] = NotGiven /\ \A i \in 1 .. loaded : paths[i][k] = NotGiven
      BY <3>1, <3>4 DEF FirstFile
    <3>5. CASE \E m \in 1 .. loaded : /\ fileLayer[k] = paths[m][k] /\ fileLayer[k] # NotGiven
                                      /\ \A i \in 1 .. m - 1 : paths[i][k] = NotGiven
      <4>1. PICK m \in 1 .. loaded : /\ fileLayer[k] = paths[m][k] /\ fileLayer[k] # NotGiven
                                     /\ \A i \in 1 .. m - 1 : paths[i][k] = NotGiven
        BY <3>5
      <4>2. m \in defining /\ \A i \in defining : m <= i
        BY <3>1, <4>1
      <4>3. Min(defining) = m
        BY <3>2, <4>2, Extremes
      <4> QED BY <4>1, <4>2, <4>3 DEF FirstFile
    <3> QED BY <3>3, <3>4, <3>5 DEF FirstWins
  <2>3. \A i \in 1 .. 5 : source[i] = Layers(k)[i].value
    BY <2>1, <2>2 DEF IInv, EngineLayer, Layers, Annotated, DefaultOf
  <2>4. DOMAIN source = 1 .. 5
    OBVIOUS
  <2> HIDE DEF source
  <2>5. ~Provides(Empty)
    BY DEF Provides
  <2>6. Lookup(k).value = Empty <=> \A i \in 1 .. 5 : ~Provides(source[i])
    BY <2>3, <2>5, LookupFirst
  <2>7. ASSUME Provides(Lookup(k).value)
        PROVE  \E i \in 1 .. 5 : /\ Lookup(k).value = source[i]
                                 /\ \A j \in 1 .. i - 1 : ~Provides(source[j])
    <3>1. PICK i \in 1 .. 5 : /\ Lookup(k).value = Layers(k)[i].value
                              /\ \A j \in 1 .. i - 1 : ~Provides(Layers(k)[j].value)
      BY <2>5, <2>7, LookupFirst
    <3>2. \A j \in 1 .. i - 1 : ~Provides(source[j])
      BY <2>3, <3>1
    <3> QED BY <2>3, <3>1, <3>2
  <2> QED BY <2>4, <2>6, <2>7 DEF source
<1> QED BY <1>1, Invariance, PTL
=============================================================================
