--------------------------- MODULE StartupProofs ---------------------------
(* main() up to Server::run, for every configuration: any thread count, any *)
(* number of directories, entries of any kind.                              *)
EXTENDS Startup, SequenceTheorems, FiniteSetTheorems, TLAPS

Kinds == {"config", "field", "key", "value"}

-----------------------------------------------------------------------------
(* The stacks that occur. *)

OnlyConfig == <<"config">>
WithField  == <<"config", "field">>
WithKey    == <<"config", "field", "key">>
WithValue  == <<"config", "field", "key", "value">>

LEMMA StackTypes ==
  /\ <<>> \in Seq(Kinds) /\ OnlyConfig \in Seq(Kinds) /\ WithField \in Seq(Kinds)
  /\ WithKey \in Seq(Kinds) /\ WithValue \in Seq(Kinds)
  /\ Len(OnlyConfig) = 1 /\ Len(WithField) = 2 /\ Len(WithKey) = 3 /\ Len(WithValue) = 4
  BY DEF Kinds, OnlyConfig, WithField, WithKey, WithValue

LEMMA PushConfig == ASSUME stack = <<>>, Push("config") PROVE stack' = OnlyConfig
  BY DEF Push, OnlyConfig

LEMMA PushField == ASSUME stack = OnlyConfig, Push("field") PROVE stack' = WithField
<1>1. stack' = Append(OnlyConfig, "field")
  BY DEF Push
<1>2. stack' \in Seq(Kinds) /\ Len(stack') = 2 /\ stack'[1] = "config" /\ stack'[2] = "field"
  BY <1>1, StackTypes DEF Kinds, OnlyConfig
<1> QED
  BY <1>2 DEF WithField

LEMMA PushKey == ASSUME stack = WithField, Push("key") PROVE stack' = WithKey
<1>1. stack' = Append(WithField, "key")
  BY DEF Push
<1>2. /\ stack' \in Seq(Kinds) /\ Len(stack') = 3
      /\ stack'[1] = "config" /\ stack'[2] = "field" /\ stack'[3] = "key"
  BY <1>1, StackTypes DEF Kinds, WithField
<1> QED
  BY <1>2 DEF WithKey

LEMMA PushValue == ASSUME stack = WithKey, Push("value") PROVE stack' = WithValue
<1>1. stack' = Append(WithKey, "value")
  BY DEF Push
<1>2. /\ stack' \in Seq(Kinds) /\ Len(stack') = 4
      /\ stack'[1] = "config" /\ stack'[2] = "field" /\ stack'[3] = "key"
      /\ stack'[4] = "value"
  BY <1>1, StackTypes DEF Kinds, WithKey
<1> QED
  BY <1>2 DEF WithValue

(* What Pop(n) leaves, value by value. *)
LEMMA PopFacts ==
  ASSUME NEW n \in Nat, stack \in Seq(Kinds), NEW m \in Nat, Len(stack) = m + n, Pop(n)
  PROVE  /\ stack' \in Seq(Kinds) /\ Len(stack') = m
         /\ \A i \in 1..m : stack'[i] = stack[i]
<1>1. Len(stack) - n = m
  OBVIOUS
<1>2. stack' = SubSeq(stack, 1, m)
  BY <1>1 DEF Pop, Popped
<1>3. \A i \in 1..m : i \in 1..Len(stack) /\ stack[i] \in Kinds
  OBVIOUS
<1>4. /\ stack' \in Seq(Kinds)
      /\ Len(stack') = IF 1 <= m THEN m - 1 + 1 ELSE 0
      /\ \A i \in 1..(m - 1 + 1) : stack'[i] = stack[1 + i - 1]
  BY <1>2, <1>3, SubSeqProperties
<1>5. Len(stack') = m
  BY <1>4
<1>6. ASSUME NEW i \in 1..m PROVE stack'[i] = stack[i]
  <2>1. m - 1 + 1 = m /\ 1 + i - 1 = i
    OBVIOUS
  <2> QED
    BY <1>4, <2>1
<1> QED
  BY <1>4, <1>5, <1>6

LEMMA PopField == ASSUME stack = WithField, Pop(1) PROVE stack' = OnlyConfig
<1>1. stack' \in Seq(Kinds) /\ Len(stack') = 1 /\ stack'[1] = stack[1]
  BY StackTypes, PopFacts
<1> QED
  BY <1>1 DEF WithField, OnlyConfig

LEMMA PopKey == ASSUME stack = WithKey, Pop(2) PROVE stack' = OnlyConfig
<1>1. stack' \in Seq(Kinds) /\ Len(stack') = 1 /\ stack'[1] = stack[1]
  BY StackTypes, PopFacts
<1> QED
  BY <1>1 DEF WithKey, OnlyConfig

LEMMA PopValue == ASSUME stack = WithValue, Pop(1) PROVE stack' = WithKey
<1>1. /\ stack' \in Seq(Kinds) /\ Len(stack') = 3
      /\ stack'[1] = stack[1] /\ stack'[2] = stack[2] /\ stack'[3] = stack[3]
  BY StackTypes, PopFacts
<1> QED
  BY <1>1 DEF WithKey, WithValue

(* lua_next finds the table under the key. *)
LEMMA KeyOnTop == ASSUME stack = WithKey PROVE TopIs(<<"field", "key">>)
<1>1. Len(stack) = 3 /\ Len(<<"field", "key">>) = 2
  BY StackTypes
<1>2. Len(stack) - Len(<<"field", "key">>) + 1 = 2 /\ Len(stack) >= Len(<<"field", "key">>)
  BY <1>1
<1>3. \A i \in 2..3 : stack[i] \in Kinds
  BY <1>1 DEF WithKey, Kinds
<1>4. /\ SubSeq(stack, 2, 3) \in Seq(Kinds)
      /\ Len(SubSeq(stack, 2, 3)) = 2
      /\ \A i \in 1..2 : SubSeq(stack, 2, 3)[i] = stack[2 + i - 1]
  BY <1>3, SubSeqProperties
<1>5. SubSeq(stack, 2, 3)[1] = "field" /\ SubSeq(stack, 2, 3)[2] = "key"
  BY <1>4 DEF WithKey
<1>6. SubSeq(stack, 2, 3) = <<"field", "key">>
  <2>1. PICK s \in Seq(Kinds) : s = SubSeq(stack, 2, 3)
    BY <1>4
  <2>2. Len(s) = 2 /\ s[1] = "field" /\ s[2] = "key"
    BY <1>4, <1>5, <2>1
  <2>3. s = <<"field", "key">>
    BY <2>2
  <2> QED
    BY <2>1, <2>3
<1> QED
  BY <1>1, <1>2, <1>6 DEF TopIs

-----------------------------------------------------------------------------
(* Counting what is in a vector. *)

LEMMA OccurrencesEmpty == \A d : Occurrences(<<>>, d) = 0
<1> SUFFICES ASSUME NEW d PROVE Occurrences(<<>>, d) = 0
  OBVIOUS
<1>1. {i \in DOMAIN <<>> : <<>>[i] = d} = {}
  OBVIOUS
<1> QED
  BY <1>1, FS_EmptySet DEF Occurrences

LEMMA OccurrencesAppend ==
  ASSUME NEW T, NEW s \in Seq(T), NEW x \in T, NEW d
  PROVE  /\ Occurrences(s, d) \in Nat
         /\ Occurrences(Append(s, x), d) =
              IF x = d THEN Occurrences(s, d) + 1 ELSE Occurrences(s, d)
<1> DEFINE At(q) == {i \in DOMAIN q : q[i] = d}
<1>1. PICK n \in Nat : n = Len(s) /\ DOMAIN s = 1..n
  OBVIOUS
<1>2. /\ DOMAIN Append(s, x) = 1..(n + 1)
      /\ \A i \in 1..n : Append(s, x)[i] = s[i]
      /\ Append(s, x)[n + 1] = x
  BY <1>1
<1>3. \A i \in 1..(n + 1) : i \in 1..n \/ i = n + 1
  OBVIOUS
<1>4. n + 1 \in 1..(n + 1) /\ n + 1 \notin 1..n /\ \A i \in 1..n : i \in 1..(n + 1)
  OBVIOUS
<1>5. At(Append(s, x)) = IF x = d THEN At(s) \cup {n + 1} ELSE At(s)
  BY <1>1, <1>2, <1>3, <1>4
<1>6. n + 1 \notin At(s)
  BY <1>1, <1>4
<1>7. IsFiniteSet(At(s)) /\ Cardinality(At(s)) \in Nat
  <2>1. IsFiniteSet(1..n) /\ At(s) \in SUBSET (1..n)
    BY <1>1, FS_Interval
  <2> QED
    BY <2>1, FS_Subset, FS_CardinalityType
<1> HIDE DEF At
<1>8. Cardinality(At(Append(s, x))) =
        IF x = d THEN Cardinality(At(s)) + 1 ELSE Cardinality(At(s))
  BY <1>5, <1>6, <1>7, FS_AddElement
<1> QED
  BY <1>7, <1>8 DEF Occurrences, At

(* A vector holds the directories of the indices in S, each once for every  *)
(* index.                                                                   *)
DirAt(i) == config.path_table.items[i]
Copies(s, S) ==
  /\ s \in Seq({DirAt(i) : i \in Strings(config)})
  /\ IsFiniteSet(S) /\ S \subseteq Strings(config)
  /\ Len(s) = Cardinality(S)
  /\ \A d : Occurrences(s, d) = Cardinality({j \in S : DirAt(j) = d})

LEMMA CopiesNothing == Copies(<<>>, {})
<1>1. \A d : {j \in {} : DirAt(j) = d} = {}
  OBVIOUS
<1> QED
  BY <1>1, OccurrencesEmpty, FS_EmptySet DEF Copies

LEMMA CopiesOneMore ==
  ASSUME NEW s, NEW S, Copies(s, S), NEW i \in Strings(config), i \notin S
  PROVE  Copies(Append(s, DirAt(i)), S \cup {i})
<1> DEFINE T == {DirAt(j) : j \in Strings(config)}
           At(R, d) == {j \in R : DirAt(j) = d}
<1>1. s \in Seq(T) /\ DirAt(i) \in T
  BY DEF Copies
<1>2. Append(s, DirAt(i)) \in Seq(T) /\ Len(Append(s, DirAt(i))) = Len(s) + 1
  BY <1>1, AppendProperties
<1>3. IsFiniteSet(S \cup {i}) /\ Cardinality(S \cup {i}) = Cardinality(S) + 1
  BY FS_AddElement DEF Copies
<1>4. ASSUME NEW d
      PROVE  Occurrences(Append(s, DirAt(i)), d) = Cardinality(At(S \cup {i}, d))
  <2>1. IsFiniteSet(At(S, d)) /\ i \notin At(S, d) /\ Occurrences(s, d) = Cardinality(At(S, d))
    BY FS_Subset DEF Copies
  <2>2. At(S \cup {i}, d) = IF DirAt(i) = d THEN At(S, d) \cup {i} ELSE At(S, d)
    OBVIOUS
  <2>3. Occurrences(Append(s, DirAt(i)), d) =
          IF DirAt(i) = d THEN Occurrences(s, d) + 1 ELSE Occurrences(s, d)
    BY <1>1, OccurrencesAppend
  <2> HIDE DEF At
  <2> QED
    BY <2>1, <2>2, <2>3, FS_AddElement
<1> QED
  BY <1>2, <1>3, <1>4 DEF Copies

-----------------------------------------------------------------------------
(* The invariant: what each statement of main finds. *)

StackAt ==
  /\ pc = "script" => stack = <<>>
  /\ pc \in {"type", "threads", "paths", "build", "path", "dirs", "first", "run"} =>
       stack = OnlyConfig
  /\ pc \in {"number", "vector"} => stack = WithField
  /\ pc = "next" => stack = WithKey
  /\ pc = "entry" => stack = WithValue

ConfigAt ==
  /\ pc = "script" => config = Absent
  /\ pc \notin {"script", "abort"} => config \in Configs
  /\ pc \notin {"script", "type", "exit", "abort"} => config.t = "table"
  /\ pc = "abort" => config = Absent \/ ~UInt32Ok(config.threads)

ThreadsAt ==
  /\ pc \notin {"script", "type", "threads", "number", "exit", "abort"} =>
       UInt32Ok(config.threads) /\ threads = UInt32Of(config.threads)
  /\ workers = IF pc \in {"path", "dirs", "first", "run"} THEN threads ELSE NoServer

DirsAt ==
  /\ pc \in {"script", "type", "threads", "number", "paths", "vector"} => strVec = <<>>
  /\ pc \in {"next", "entry"} =>
       /\ config.path_table.t = "table"
       /\ unread \subseteq DOMAIN config.path_table.items
       /\ Copies(strVec, Strings(config) \ unread)
  /\ pc \in {"build", "path", "dirs", "first", "run"} => Copies(strVec, Strings(config))
  /\ pc \in {"dirs", "first", "run"} => envPath = strVec
  /\ pc \in {"first", "run"} => luaDirs = strVec
  /\ posted => pc = "run"

StartInv == TypeOK /\ StackAt /\ ConfigAt /\ ThreadsAt /\ DirsAt

LEMMA StartInit == Init => StartInv
<1> SUFFICES ASSUME Init PROVE StartInv
  OBVIOUS
<1>1. TypeOK
  <2>1. stack \in Seq({"config", "field", "key", "value"})
    BY StackTypes DEF Init, Kinds
  <2>2. threads \in 0..UINT32_MAX
    BY WordOK DEF Init
  <2>3. <<>> \in Seq(DirNames)
    OBVIOUS
  <2>4. strVec \in Seq(DirNames) /\ envPath \in Seq(DirNames) /\ luaDirs \in Seq(DirNames)
    BY <2>3 DEF Init
  <2> QED
    BY <2>1, <2>2, <2>4 DEF Init, TypeOK, Running
<1>2. StackAt /\ ConfigAt /\ ThreadsAt /\ DirsAt
  BY DEF Init, StackAt, ConfigAt, ThreadsAt, DirsAt
<1> QED
  BY <1>1, <1>2 DEF StartInv

(* What the four parts say where the configuration is a table. *)
LEMMA TableFacts ==
  ASSUME StartInv, pc \notin {"script", "type", "exit", "abort"}
  PROVE  /\ config \in Configs /\ config.t = "table"
         /\ config.threads.t \in {"integer", "numeral"} => config.threads.n \in Int
         /\ config.path_table.t = "table" =>
              /\ DOMAIN config.path_table.items \subseteq Nat
              /\ IsFiniteSet(DOMAIN config.path_table.items)
  BY ConfigsOK DEF StartInv, ConfigAt

LEMMA ThreadsInRange ==
  ASSUME StartInv, pc = "number", UInt32Ok(config.threads)
  PROVE  UInt32Of(config.threads) \in 0..UINT32_MAX
<1>1. CASE config.threads.t = "nil"
  BY <1>1, WordOK DEF UInt32Of
<1>2. CASE config.threads.t \in {"integer", "numeral"}
  <2>1. PICK n \in Int : n = config.threads.n
    BY <1>2, TableFacts
  <2>2. n % (UINT32_MAX + 1) \in 0..UINT32_MAX
    BY WordOK
  <2> QED
    BY <1>2, <2>1, <2>2 DEF UInt32Of, Cast
<1> QED
  BY <1>1, <1>2 DEF UInt32Ok

LEMMA StringsFinite ==
  ASSUME StartInv, pc \notin {"script", "type", "exit", "abort"}
  PROVE  IsFiniteSet(Strings(config))
<1>1. CASE config.path_table.t = "table"
  <2>1. Strings(config) \in SUBSET DOMAIN config.path_table.items
    BY <1>1 DEF Strings
  <2> QED
    BY <1>1, <2>1, TableFacts, FS_Subset
<1>2. CASE config.path_table.t # "table"
  BY <1>2, FS_EmptySet DEF Strings
<1> QED
  BY <1>1, <1>2

(* What main's vectors hold are directories. *)
LEMMA ConfigDirs ==
  ASSUME NEW c \in Configs, c.t = "table", NEW i \in Strings(c)
  PROVE  c.path_table.items[i] \in DirNames
  BY DEF DirNames

(* A step that ends in one of the stacks keeps the types. *)
LEMMA TypesStay ==
  ASSUME TypeOK, pc' \in Running \cup {"exit", "abort"}, config' \in Configs \cup {Absent},
         stack' \in Seq(Kinds), unread' \subseteq Nat, threads' \in 0..UINT32_MAX,
         workers' \in {NoServer} \cup 0..UINT32_MAX, posted' \in BOOLEAN,
         strVec' \in Seq(DirNames), envPath' \in Seq(DirNames), luaDirs' \in Seq(DirNames)
  PROVE  TypeOK'
  BY DEF TypeOK, Kinds

LEMMA StepTypes ==
  ASSUME TypeOK
  PROVE  /\ pc \in Running \cup {"exit", "abort"} /\ config \in Configs \cup {Absent}
         /\ stack \in Seq(Kinds) /\ unread \subseteq Nat /\ threads \in 0..UINT32_MAX
         /\ workers \in {NoServer} \cup 0..UINT32_MAX /\ posted \in BOOLEAN
         /\ strVec \in Seq(DirNames) /\ envPath \in Seq(DirNames) /\ luaDirs \in Seq(DirNames)
  BY DEF TypeOK, Kinds

(* The configuration is run and found to be a table or not. *)
LEMMA ScriptKeeps == StartInv /\ (RunScript \/ CheckType) => StartInv'
<1> SUFFICES ASSUME StartInv, RunScript \/ CheckType PROVE StartInv'
  OBVIOUS
<1>a. TypeOK
  BY DEF StartInv
<1>1. CASE RunScript
  <2>1. pc = "script" /\ stack = <<>> /\ strVec = <<>> /\ config = Absent /\ workers = NoServer
        /\ ~posted
    BY <1>1 DEF RunScript, StartInv, StackAt, DirsAt, ConfigAt, ThreadsAt, TypeOK
  <2>2. CASE pc' = "abort" /\ UNCHANGED <<config, stack>>
    <3>1. TypeOK'
      BY <1>1, <1>a, <2>2, StepTypes, TypesStay DEF RunScript, Running
    <3> QED
      BY <1>1, <2>1, <2>2, <3>1
         DEF RunScript, StartInv, StackAt, ConfigAt, ThreadsAt, DirsAt
  <2>3. ASSUME NEW c \in Configs, pc' = "type", config' = c, Push("config")
        PROVE  StartInv'
    <3>1. stack' = OnlyConfig
      BY <2>1, <2>3, PushConfig
    <3>2. TypeOK'
      BY <1>1, <1>a, <2>3, <3>1, StepTypes, StackTypes, TypesStay DEF RunScript, Running
    <3> QED
      BY <1>1, <2>1, <2>3, <3>1, <3>2
         DEF RunScript, StartInv, StackAt, ConfigAt, ThreadsAt, DirsAt
  <2> QED
    BY <1>1, <2>2, <2>3 DEF RunScript, Goto
<1>2. CASE CheckType
  <2>1. TypeOK'
    BY <1>2, <1>a, StepTypes, TypesStay DEF CheckType, Running, Goto
  <2> QED
    BY <1>2, <2>1 DEF CheckType, Goto, StartInv, StackAt, ConfigAt, ThreadsAt, DirsAt
<1> QED
  BY <1>1, <1>2

(* The steps of getLuaField for the thread count and before the vector. *)
LEMMA FieldKeeps ==
  StartInv /\ (OpenField("threads", "number") \/ OpenField("paths", "vector")) => StartInv'
<1> SUFFICES ASSUME StartInv, NEW at, NEW to, OpenField(at, to),
                    (at = "threads" /\ to = "number") \/ (at = "paths" /\ to = "vector")
             PROVE  StartInv'
  OBVIOUS
<1>1. pc = at /\ pc' = to /\ stack' = WithField
  BY PushField DEF OpenField, Goto, StartInv, StackAt
<1>2. UNCHANGED <<config, unread, threads, strVec, workers, envPath, luaDirs, posted>>
  BY DEF OpenField
<1>3. TypeOK'
  BY <1>1, <1>2, StepTypes, StackTypes, TypesStay DEF StartInv, Running
<1> QED
  BY <1>1, <1>2, <1>3 DEF StartInv, StackAt, ConfigAt, ThreadsAt, DirsAt

LEMMA ThreadsKeeps == StartInv /\ ReadThreads => StartInv'
<1> SUFFICES ASSUME StartInv, ReadThreads PROVE StartInv'
  OBVIOUS
<1>1. /\ pc = "number" /\ stack = WithField /\ TypeOK
      /\ UNCHANGED <<config, unread, strVec, workers, envPath, luaDirs, posted>>
  BY DEF ReadThreads, StartInv, StackAt
<1>2. CASE UInt32Ok(config.threads)
  <2>1. threads' = UInt32Of(config.threads) /\ pc' = "paths" /\ stack' = OnlyConfig
    BY <1>1, <1>2, PopField DEF ReadThreads, Goto
  <2>2. threads' \in 0..UINT32_MAX
    BY <1>1, <1>2, <2>1, ThreadsInRange
  <2>3. TypeOK'
    BY <1>1, <2>1, <2>2, StepTypes, StackTypes, TypesStay DEF Running
  <2> QED
    BY <1>1, <1>2, <2>1, <2>3 DEF StartInv, StackAt, ConfigAt, ThreadsAt, DirsAt
<1>3. CASE ~UInt32Ok(config.threads)
  <2>1. pc' = "abort" /\ UNCHANGED <<threads, stack>>
    BY <1>3 DEF ReadThreads, Goto
  <2>2. TypeOK'
    BY <1>1, <2>1, StepTypes, TypesStay DEF Running
  <2> QED
    BY <1>1, <1>3, <2>1, <2>2 DEF StartInv, StackAt, ConfigAt, ThreadsAt, DirsAt
<1> QED
  BY <1>2, <1>3

(* The vector is empty when its loop begins, or the field is no table. *)
LEMMA VectorKeeps == StartInv /\ StartVector => StartInv'
<1> SUFFICES ASSUME StartInv, StartVector PROVE StartInv'
  OBVIOUS
<1>1. /\ pc = "vector" /\ stack = WithField /\ strVec = <<>> /\ TypeOK
      /\ UNCHANGED <<config, threads, strVec, workers, envPath, luaDirs, posted>>
  BY DEF StartVector, StartInv, StackAt, DirsAt
<1>2. CASE config.path_table.t = "table"
  <2>1. pc' = "next" /\ unread' = DOMAIN config.path_table.items /\ stack' = WithKey
    BY <1>1, <1>2, PushKey DEF StartVector, Goto
  <2>2. unread' \subseteq Nat
    BY <1>1, <1>2, <2>1, TableFacts
  <2>3. TypeOK'
    BY <1>1, <2>1, <2>2, StepTypes, StackTypes, TypesStay DEF Running
  <2>4. Strings(config) \ unread' = {}
    BY <1>2, <2>1 DEF Strings
  <2>5. Copies(strVec, Strings(config) \ unread')
    BY <1>1, <2>4, CopiesNothing
  <2>6. DirsAt'
    BY <1>1, <1>2, <2>1, <2>5 DEF StartInv, DirsAt, Copies, DirAt
  <2> QED
    BY <1>1, <2>1, <2>3, <2>6 DEF StartInv, StackAt, ConfigAt, ThreadsAt
<1>3. CASE config.path_table.t # "table"
  <2>1. pc' = "build" /\ unread' = unread /\ stack' = OnlyConfig
    BY <1>1, <1>3, PopField DEF StartVector, Goto
  <2>2. TypeOK'
    BY <1>1, <2>1, StepTypes, StackTypes, TypesStay DEF Running
  <2>3. Copies(strVec, Strings(config))
    BY <1>1, <1>3, CopiesNothing DEF Strings
  <2>4. DirsAt'
    BY <1>1, <2>1, <2>3 DEF StartInv, DirsAt, Copies, DirAt
  <2> QED
    BY <1>1, <2>1, <2>2, <2>4 DEF StartInv, StackAt, ConfigAt, ThreadsAt
<1> QED
  BY <1>2, <1>3

LEMMA NextKeeps == StartInv /\ NextEntry => StartInv'
<1> SUFFICES ASSUME StartInv, NextEntry PROVE StartInv'
  OBVIOUS
<1>1. /\ pc = "next" /\ stack = WithKey /\ TypeOK
      /\ config.path_table.t = "table" /\ unread \subseteq DOMAIN config.path_table.items
      /\ Copies(strVec, Strings(config) \ unread)
      /\ UNCHANGED <<config, threads, workers, envPath, luaDirs, posted>>
  BY DEF NextEntry, StartInv, StackAt, DirsAt
<1>2. TopIs(<<"field", "key">>)
  BY <1>1, KeyOnTop
<1>3. CASE unread = {} /\ Pop(2) /\ Goto("build") /\ UNCHANGED <<unread, strVec>>
  <2>1. pc' = "build" /\ stack' = OnlyConfig
    BY <1>1, <1>3, PopKey DEF Goto
  <2>2. TypeOK'
    BY <1>1, <1>3, <2>1, StepTypes, StackTypes, TypesStay DEF Running
  <2>3. Copies(strVec, Strings(config))
    BY <1>1, <1>3
  <2>4. DirsAt'
    BY <1>1, <1>3, <2>1, <2>3 DEF StartInv, DirsAt, Copies, DirAt
  <2> QED
    BY <1>1, <2>1, <2>2, <2>4 DEF StartInv, StackAt, ConfigAt, ThreadsAt
<1>4. ASSUME NEW i \in unread,
             unread' = unread \ {i}, Push("value"), Goto("entry"),
             strVec' = IF IsString(config.path_table.items[i])
                         THEN Append(strVec, config.path_table.items[i]) ELSE strVec
      PROVE  StartInv'
  <2>1. pc' = "entry" /\ stack' = WithValue
    BY <1>1, <1>4, PushValue DEF Goto
  <2>2. TypeOK'
    <3>1. config \in Configs /\ config.t = "table"
      BY <1>1, TableFacts
    <3>2. IsString(config.path_table.items[i]) => config.path_table.items[i] \in DirNames
      BY <1>1, <1>4, <3>1, ConfigDirs DEF Strings
    <3>3. strVec' \in Seq(DirNames)
      BY <1>1, <1>4, <3>2, StepTypes
    <3> QED
      BY <1>1, <1>4, <2>1, <3>3, StepTypes, StackTypes, TypesStay DEF Running
  <2>3. Copies(strVec', Strings(config) \ unread')
    <3>1. CASE IsString(config.path_table.items[i])
      <4>1. i \in Strings(config) /\ i \notin Strings(config) \ unread
        BY <1>1, <1>4, <3>1 DEF Strings
      <4>2. Strings(config) \ unread' = (Strings(config) \ unread) \cup {i}
        BY <1>4, <4>1
      <4>3. strVec' = Append(strVec, DirAt(i))
        BY <1>4, <3>1 DEF DirAt
      <4> QED
        BY <1>1, <4>1, <4>2, <4>3, CopiesOneMore
    <3>2. CASE ~IsString(config.path_table.items[i])
      <4>1. i \notin Strings(config)
        BY <3>2 DEF Strings
      <4>2. Strings(config) \ unread' = Strings(config) \ unread
        BY <1>4, <4>1
      <4> QED
        BY <1>1, <1>4, <3>2, <4>2
    <3> QED
      BY <3>1, <3>2
  <2>4. DirsAt'
    BY <1>1, <1>4, <2>1, <2>3 DEF StartInv, DirsAt, Copies, DirAt
  <2> QED
    BY <1>1, <2>1, <2>2, <2>4 DEF StartInv, StackAt, ConfigAt, ThreadsAt
<1> QED
  BY <1>2, <1>3, <1>4 DEF NextEntry

LEMMA EntryKeeps == StartInv /\ PopEntry => StartInv'
<1> SUFFICES ASSUME StartInv, PopEntry PROVE StartInv'
  OBVIOUS
<1>1. /\ pc = "entry" /\ stack = WithValue /\ pc' = "next" /\ TypeOK
      /\ UNCHANGED <<config, unread, threads, strVec, workers, envPath, luaDirs, posted>>
  BY DEF PopEntry, Goto, StartInv, StackAt
<1>2. stack' = WithKey
  BY <1>1, PopValue DEF PopEntry
<1>3. TypeOK'
  BY <1>1, <1>2, StepTypes, StackTypes, TypesStay DEF Running
<1>4. DirsAt'
  BY <1>1 DEF StartInv, DirsAt, Copies, DirAt
<1> QED
  BY <1>1, <1>2, <1>3, <1>4 DEF StartInv, StackAt, ConfigAt, ThreadsAt

(* From the server's construction to the first service. *)
LEMMA ServerKeeps ==
  StartInv /\ (BuildServer \/ SetEnvPath \/ SetLuaDirs \/ FirstService) => StartInv'
<1> SUFFICES ASSUME StartInv, BuildServer \/ SetEnvPath \/ SetLuaDirs \/ FirstService
             PROVE  StartInv'
  OBVIOUS
<1>1. /\ TypeOK /\ UNCHANGED <<config, stack, unread, threads, strVec>>
      /\ pc \in {"build", "path", "dirs", "first"} /\ pc' \in {"path", "dirs", "first", "run"}
      /\ workers' \in {workers, threads} /\ posted' \in {posted, TRUE}
      /\ envPath' \in {envPath, strVec} /\ luaDirs' \in {luaDirs, strVec}
  BY DEF BuildServer, SetEnvPath, SetLuaDirs, FirstService, Goto, StartInv
<1>2. TypeOK'
  BY <1>1, StepTypes, TypesStay DEF Running
<1>3. StackAt' /\ ConfigAt'
  BY <1>1 DEF StartInv, StackAt, ConfigAt
<1>4. ThreadsAt'
  BY <1>1 DEF StartInv, ThreadsAt, BuildServer, SetEnvPath, SetLuaDirs, FirstService, Goto
<1>5. Copies(strVec, Strings(config))'
  BY <1>1 DEF StartInv, DirsAt, Copies, DirAt
<1>6. DirsAt'
  BY <1>1, <1>5 DEF StartInv, DirsAt, BuildServer, SetEnvPath, SetLuaDirs, FirstService, Goto
<1> QED
  BY <1>2, <1>3, <1>4, <1>6 DEF StartInv

LEMMA StartNext == StartInv /\ [Next]_vars => StartInv'
<1>1. StartInv /\ UNCHANGED vars => StartInv'
  BY DEF vars, StartInv, TypeOK, StackAt, ConfigAt, ThreadsAt, DirsAt, Copies, DirAt
<1> QED
  BY <1>1, ScriptKeeps, FieldKeeps, ThreadsKeeps, VectorKeeps, NextKeeps, EntryKeeps,
     ServerKeeps DEF Next

-----------------------------------------------------------------------------

(* The program counter, stack, words and directories of main keep their     *)
(* types: every name in the vector, in package.path and in the search path  *)
(* is a string of a configuration's table.                                  *)
THEOREM StartTypeCorrect == Spec => []TypeOK
<1>1. StartInv => TypeOK
  BY DEF StartInv
<1> QED
  BY <1>1, StartInit, StartNext, PTL DEF Spec

(* Every read of a field leaves the Lua stack as it found it, and startup   *)
(* fails only when the script does or the thread count is bad.              *)
THEOREM StackIsKept == Spec => []StackKept
<1>1. StartInv => StackKept
  BY DEF StartInv, StackAt, ConfigAt, StackKept, OnlyConfig
<1> QED
  BY <1>1, StartInit, StartNext, PTL DEF Spec

(* The server has the workers the configuration asks for, for every count   *)
(* and every width of the word.                                             *)
THEOREM WorkersAreAsConfigured == Spec => []WorkersAsConfigured
<1>1. StartInv => WorkersAsConfigured
  <2> SUFFICES ASSUME StartInv, workers # NoServer PROVE workers \in Wanted
    BY DEF WorkersAsConfigured
  <2>1. /\ pc \in {"path", "dirs", "first", "run"} /\ UInt32Ok(config.threads)
        /\ workers = UInt32Of(config.threads)
    BY DEF StartInv, ThreadsAt
  <2>2. CASE config.threads.t = "nil"
    BY <2>1, <2>2 DEF Wanted, UInt32Of
  <2>3. CASE config.threads.t \in {"integer", "numeral"}
    <3>1. PICK n \in Int : n = config.threads.n
      BY <2>1, <2>3, TableFacts
    <3>2. n % (UINT32_MAX + 1) \in 0..UINT32_MAX
      BY WordOK
    <3>3. workers = n /\ n \in 0..UINT32_MAX
      BY <2>1, <2>3, <3>1, <3>2 DEF UInt32Ok, UInt32Of, Fits, Cast
    <3> QED
      BY <2>3, <3>1, <3>3 DEF Wanted
  <2> QED
    BY <2>1, <2>2, <2>3 DEF UInt32Ok
<1> QED
  BY <1>1, StartInit, StartNext, PTL DEF Spec

(* When the first service is asked for, the search path and package.path    *)
(* hold every directory of the configuration as often as it is there.       *)
THEOREM DirsComeFirst == Spec => []DirsBeforeService
<1>1. StartInv => DirsBeforeService
  <2> SUFFICES ASSUME StartInv, posted PROVE DirsBeforeService
    BY DEF DirsBeforeService
  <2>1. Copies(strVec, Strings(config)) /\ luaDirs = strVec /\ envPath = strVec
    BY DEF StartInv, DirsAt
  <2> QED
    BY <2>1 DEF DirsBeforeService, Copies, DirAt
<1> QED
  BY <1>1, StartInit, StartNext, PTL DEF Spec

=============================================================================
