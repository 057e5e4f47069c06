---------------------------- MODULE ConfigProofs ----------------------------
(***************************************************************************)
(* Proofs about Config: for every set of files and any number of Parses in *)
(* one process, the types, that no half of a section gets into the Config, *)
(* what is accepted and what it means, that what is written of a Config    *)
(* can be read again, and that a Parse has finitely many steps.            *)
(***************************************************************************)
EXTENDS Config, SequenceTheorems, TLAPS

(* The types of the scanner's and of the parser's variables. *)
ScannerTypeOK ==
    /\ phase \in {"idle", "parsing"}
    /\ buf \in Seq(Items) /\ src \in Seq(Items) /\ odd \in BOOLEAN
    /\ given \in Seq(Items) /\ ahead \in Seq(Items) /\ oddAhead \in BOOLEAN
    /\ parses \in 0..MaxParses /\ rc \in BOOLEAN
    /\ phase = "idle" => src = <<>>

ParserTypeOK ==
    /\ sec \in Sections \cup {"top"}
    /\ some \in BOOLEAN
    /\ sec = "service" => val \in Services
    /\ sec = "weather" => val \in Weathers
    /\ sec = "cache" => val \in [store : Texts]

(* What the Parse gives the scanner in all. *)
Text == ahead \o given

----------------------------------------------------------------------------

(* What is taken off the text is an item, and the rest are items. *)
LEMMA TakenIsItem ==
    ASSUME buf \in Seq(Items), buf # <<>>
    PROVE  Item \in Items /\ Tail(buf) \in Seq(Items)
BY DEF Item

(* What an error leaves is items. *)
LEMMA LeftIsItems ==
    ASSUME buf \in Seq(Items), buf # <<>>, NEW left \in LeftByError
    PROVE  left \in Seq(Items)
<1>1. Item \in Items /\ Tail(buf) \in Seq(Items)
  BY TakenIsItem
<1>2. [Item EXCEPT !.sort = "junk"] \in Items
  BY <1>1 DEF Items
<1>3. <<[Item EXCEPT !.sort = "junk"]>> \in Seq(Items)
  BY <1>2
<1>4. <<[Item EXCEPT !.sort = "junk"]>> \o Tail(buf) \in Seq(Items)
  BY <1>1, <1>3
<1>5. QED
  BY <1>1, <1>4 DEF LeftByError

(* An allowed setting has a section's key, and a value to go with it. *)
LEMMA AllowedSetting ==
    ASSUME ScannerTypeOK, ParserTypeOK, Next1("set"), Allowed
    PROVE  /\ Item \in Items /\ Item.name \in Texts /\ Item.val \in Texts
           /\ sec \in Sections /\ Item.name \in KeysOf[sec]
<1>1. Item \in Items
  BY TakenIsItem DEF ScannerTypeOK, Next1
<1>2. QED
  BY <1>1 DEF Items, Allowed, ParserTypeOK

(* A section's value stays a value of its kind with one more setting. *)
LEMMA SettingType ==
    ASSUME NEW key \in Texts, NEW v \in Texts, key \in KeysOf[sec],
           sec \in Sections \ {"syslog"}, ParserTypeOK
    PROVE  /\ sec = "service" => WithSetting(key, v) \in Services
           /\ sec = "weather" => WithSetting(key, v) \in Weathers
           /\ sec = "cache" => WithSetting(key, v) \in [store : Texts]
<1>1. CASE sec = "service"
  <2>1. key \in {"addresses", "keyDirectory", "allowedClients"}
    BY <1>1 DEF KeysOf
  <2>2. val \in Services
    BY <1>1 DEF ParserTypeOK
  <2>3. [val EXCEPT ![key] = v] \in Services
    BY <2>1, <2>2 DEF Services
  <2>4. QED
    BY <1>1, <2>3 DEF WithSetting, ServiceWith
<1>2. CASE sec = "weather"
  <2>1. key \in {"location", "stations"}
    BY <1>2 DEF KeysOf
  <2>2. val \in Weathers
    BY <1>2 DEF ParserTypeOK
  <2>3. [val EXCEPT ![key] = v] \in Weathers
    BY <2>1, <2>2 DEF Weathers
  <2>4. QED
    BY <1>2, <2>3 DEF WithSetting, WeatherWith
<1>3. CASE sec = "cache"
  BY <1>3 DEF WithSetting
<1>4. QED
  BY <1>1, <1>2, <1>3 DEF Sections

(* The scanner's variables keep their types. *)
LEMMA ScannerStep ==
    ScannerTypeOK /\ [Next]_vars => ScannerTypeOK'
<1> SUFFICES ASSUME ScannerTypeOK, [Next]_vars PROVE ScannerTypeOK'
  OBVIOUS
<1>0. <<>> \in Seq(Items) /\ <<Plain("junk")>> \in Seq(Items)
  <2>1. Plain("junk") \in Items
    BY TextsAssumption DEF Plain, Items
  <2>2. QED
    BY <2>1
<1>1. ASSUME NEW f \in Files, Parse(f) PROVE ScannerTypeOK'
  <2>1. f \in Seq(Items) /\ parses' \in 0..MaxParses
    BY <1>1, FilesAssumption DEF Parse, ScannerTypeOK
  <2>2. QED
    BY <1>1, <2>1 DEF Parse, Begin, ScannerTypeOK
<1>2. CASE OpenFails
  <2>1. UNCHANGED <<phase, buf, src, odd>>
    BY <1>2 DEF OpenFails, scanner
  <2>2. parses' \in 0..MaxParses
    <3>1. parses < MaxParses /\ parses' = parses + 1
      BY <1>2 DEF OpenFails
    <3>2. parses \in 0..MaxParses
      BY DEF ScannerTypeOK
    <3>3. QED
      BY <3>1, <3>2, FilesAssumption
  <2>3. /\ given' \in Seq(Items) /\ ahead' \in Seq(Items)
        /\ oddAhead' \in BOOLEAN /\ rc' \in BOOLEAN
    BY <1>0, <1>2 DEF OpenFails
  <2>4. QED
    BY <2>1, <2>2, <2>3 DEF ScannerTypeOK
<1>3. CASE Refill
  BY <1>0, <1>3 DEF Refill, ScannerTypeOK
<1>4. ASSUME NEW left \in Seq(Items), Fail(left), odd' \in BOOLEAN
      PROVE  ScannerTypeOK'
  BY <1>0, <1>4 DEF Fail, ScannerTypeOK
<1>5. CASE ScanOutOfStep
  BY <1>0, <1>4, <1>5 DEF ScanOutOfStep
<1>6. CASE Truncated \/ Unquoted
  BY <1>0, <1>4, <1>6 DEF Truncated, Unquoted, ScannerTypeOK
<1>7. CASE Error
  BY <1>4, <1>7, LeftIsItems DEF Error, ScannerTypeOK
<1>8. CASE OpenSection \/ Setting \/ SyslogSetting \/ CloseSection
  <2>1. buf # <<>> /\ phase = "parsing" /\ Taken
    BY <1>8 DEF OpenSection, Setting, SyslogSetting, CloseSection, Next1
  <2>2. buf' \in Seq(Items)
    BY <2>1, TakenIsItem DEF Taken, ScannerTypeOK
  <2>3. QED
    BY <2>1, <2>2 DEF Taken, ScannerTypeOK
<1>9. CASE Accept
  BY <1>9 DEF Accept, EndOfFile, ScannerTypeOK, scanner
<1>10. CASE UNCHANGED vars
  BY <1>10 DEF vars, scanner, parser, ScannerTypeOK
<1>11. QED
  BY <1>1, <1>2, <1>3, <1>5, <1>6, <1>7, <1>8, <1>9, <1>10
     DEF Next, ParserStep

(* The parser's variables keep their types. *)
LEMMA ParserTypeStep ==
    ScannerTypeOK /\ ParserTypeOK /\ [Next]_vars => ParserTypeOK'
<1> SUFFICES ASSUME ScannerTypeOK, ParserTypeOK, [Next]_vars
             PROVE  ParserTypeOK'
  OBVIOUS
<1>1. CASE sec' = "top" /\ some' \in BOOLEAN
  BY <1>1 DEF ParserTypeOK, Sections
<1>2. ASSUME NEW f \in Files, Parse(f) PROVE ParserTypeOK'
  BY <1>1, <1>2 DEF Parse
<1>3. CASE OpenSection
  BY <1>3, TextsAssumption
     DEF OpenSection, ParserTypeOK, Sections, NewService,
         NewWeather, Services, Weathers
<1>4. CASE Setting
  <2>1. Next1("set") /\ Allowed /\ sec # "syslog" /\ sec' = sec /\ some'
        /\ val' = WithSetting(Item.name, Item.val)
    BY <1>4 DEF Setting
  <2>2. /\ Item.name \in Texts /\ Item.val \in Texts
        /\ sec \in Sections /\ Item.name \in KeysOf[sec]
    BY <2>1, AllowedSetting
  <2>3. /\ sec = "service" => val' \in Services
        /\ sec = "weather" => val' \in Weathers
        /\ sec = "cache" => val' \in [store : Texts]
    BY <2>1, <2>2, SettingType
  <2>4. QED
    BY <1>4, <2>1, <2>2, <2>3 DEF Setting, ParserTypeOK
<1>5. CASE SyslogSetting
  BY <1>5 DEF SyslogSetting, ParserTypeOK
<1>6. CASE CloseSection
  BY <1>1, <1>6 DEF CloseSection
<1>7. ASSUME NEW left, Fail(left) PROVE ParserTypeOK'
  BY <1>1, <1>7 DEF Fail
<1>8. CASE ScanOutOfStep \/ Truncated \/ Unquoted \/ Error
  BY <1>7, <1>8 DEF ScanOutOfStep, Truncated, Unquoted, Error
<1>9. CASE UNCHANGED parser
  BY <1>9 DEF parser, ParserTypeOK
<1>10. QED
  BY <1>2, <1>3, <1>4, <1>5, <1>6, <1>8, <1>9
     DEF Next, ParserStep, OpenFails, Refill, Accept, vars

(* The Config is one, whichever setting or section goes into it. *)
LEMMA ConfigTypeStep ==
    /\ ScannerTypeOK /\ ParserTypeOK /\ cfg \in Configs /\ [Next]_vars
    => cfg' \in Configs
<1> SUFFICES ASSUME ScannerTypeOK, ParserTypeOK, cfg \in Configs, [Next]_vars
             PROVE  cfg' \in Configs
  OBVIOUS
<1>1. Cleared \in Configs
  BY TextsAssumption
     DEF Cleared, ClearedService, NewService, NewWeather, Configs, Services,
         Weathers
<1>2. ASSUME NEW f \in Files, Parse(f) PROVE cfg' \in Configs
  BY <1>1, <1>2 DEF Parse, Begin
<1>3. CASE OpenFails
  BY <1>1, <1>3 DEF OpenFails
<1>4. CASE SyslogSetting
  <2>1. /\ Next1("set") /\ sec = "syslog" /\ Allowed
        /\ cfg' = WithSyslog(Item.name, Item.val)
    BY <1>4 DEF SyslogSetting
  <2>2. Item.name \in {"facility", "level", "logLocations"}
        /\ Item.val \in Texts
    BY <2>1, AllowedSetting DEF KeysOf
  <2>3. [cfg EXCEPT !.syslog[Item.name] = Item.val] \in Configs
    BY <2>2 DEF Configs
  <2>4. QED
    BY <2>1, <2>3 DEF WithSyslog
<1>5. CASE CloseSection
  <2>1. cfg' = WithSection
    BY <1>5 DEF CloseSection
  <2>2. CASE sec = "cache"
    BY <2>1, <2>2 DEF WithSection, Configs, ParserTypeOK
  <2>3. CASE sec = "service"
    BY <2>1, <2>3 DEF WithSection, Configs, ParserTypeOK
  <2>4. CASE sec = "weather"
    BY <2>1, <2>4 DEF WithSection, Configs, ParserTypeOK
  <2>5. QED
    BY <2>1, <2>2, <2>3, <2>4 DEF WithSection
<1>6. CASE Accept
  <2>1. cfg' = [cfg EXCEPT !.service = Filled(cfg.service)]
    BY <1>6 DEF Accept
  <2>2. cfg.service \in Services
    BY DEF Configs
  <2>3. Filled(cfg.service) \in Services
    BY <2>2, TextsAssumption DEF Filled, Services
  <2>4. QED
    BY <2>1, <2>3 DEF Configs
<1>7. CASE UNCHANGED cfg
  BY <1>7
<1>8. QED
  BY <1>2, <1>3, <1>4, <1>5, <1>6, <1>7
     DEF Next, ParserStep, Refill, ScanOutOfStep, OpenSection, Setting,
         Truncated, Unquoted, Error, Fail, vars

(* The types, as three parts. *)
LEMMA TypeParts ==
    TypeOK <=> ScannerTypeOK /\ ParserTypeOK /\ cfg \in Configs
BY DEF TypeOK, ScannerTypeOK, ParserTypeOK

(* A process that has not parsed yet. *)
LEMMA InitTypes == Init => TypeOK
<1> SUFFICES ASSUME Init PROVE TypeOK
  OBVIOUS
<1>1. <<>> \in Seq(Items) /\ 0 \in 0..MaxParses
  BY FilesAssumption
<1>2. Cleared \in Configs
  BY TextsAssumption
     DEF Cleared, ClearedService, NewService, NewWeather, Configs, Services,
         Weathers
<1>3. ScannerTypeOK
  BY <1>1 DEF Init, ScannerTypeOK
<1>4. ParserTypeOK
  BY DEF Init, ParserTypeOK, Sections
<1>5. QED
  BY <1>2, <1>3, <1>4, TypeParts DEF Init

(* Type correctness. *)
THEOREM TypeCorrect == Spec => []TypeOK
<1>1. TypeOK /\ [Next]_vars => TypeOK'
  <2>1. SUFFICES ASSUME TypeOK, [Next]_vars
                 PROVE  ScannerTypeOK' /\ ParserTypeOK' /\ cfg' \in Configs
    BY DEF TypeOK, ScannerTypeOK, ParserTypeOK
  <2>2. QED
    BY <2>1, TypeParts, ScannerStep, ParserTypeStep, ConfigTypeStep
<1>2. QED
  BY InitTypes, <1>1, PTL DEF Spec

----------------------------------------------------------------------------
(* Sections *)

(* How much of the text the parser has taken. *)
Read == Len(Text) - Len(buf) - Len(src)

(* What the scanner has not given yet is the rest of the text. *)
RestInv ==
    phase = "parsing" =>
        /\ Read \in Nat
        /\ \A k \in 1..Len(buf) : Text[Read + k] = buf[k]
        /\ \A k \in 1..Len(src) : Text[Read + Len(buf) + k] = src[k]

(* The settings that the open section has had so far. *)
Begun(i) ==
    /\ Text[i].sort = "open" /\ Text[i].name = sec
    /\ \A k \in (i + 1)..Read : Text[k].sort = "set"
    /\ some <=> i < Read
    /\ sec = "service" => \A k \in KeysOf.service :
          val[k] = ValueIn(Text, k, (i + 1)..Read, NewService[k])
    /\ sec = "weather" => \A k \in KeysOf.weather :
          val[k] = ValueIn(Text, k, (i + 1)..Read, NewWeather[k])

SectionInv ==
    phase = "parsing" /\ sec # "top" => \E i \in 1..Read : Begun(i)

(* The section at i has only settings, at least one, and is closed. *)
WholeAt(f, name, i) ==
    /\ i \in Opened(f, name)
    /\ \E j \in DOMAIN f :
          /\ f[j].sort = "close"
          /\ j > i + 1 /\ (i + 1)..(j - 1) \subseteq Body(f, i)

(* A service, or a weather, that a Config may have from a text. *)
ServiceOf(f, s) ==
    \/ s = Cleared.service
    \/ \E i \in DOMAIN f : WholeAt(f, "service", i) /\ s = ServiceAt(f, i)

WeatherOf(f, w) ==
    \/ w = Cleared.weather
    \/ \E i \in DOMAIN f : WholeAt(f, "weather", i) /\ w = WeatherAt(f, i)

(* The wildcard addresses are added when the Parse is over. *)
ConfigInv ==
    /\ \/ ServiceOf(Text, cfg.service)
       \/ /\ phase = "idle"
          /\ \E s \in Services :
                ServiceOf(Text, s) /\ cfg.service = Filled(s)
    /\ WeatherOf(Text, cfg.weather)

IInv == TypeOK /\ RestInv /\ SectionInv /\ ConfigInv

----------------------------------------------------------------------------

(* The last of some numbers is the one that none of them is above. *)
LEMMA LastIs ==
    ASSUME NEW S \in SUBSET Nat, NEW n \in S, \A i \in S : i <= n
    PROVE  Last(S) = n
<1>1. Last(S) \in S /\ \A i \in S : i <= Last(S)
  BY DEF Last
<1>2. Last(S) \in Nat /\ n \in Nat
  BY <1>1
<1>3. n <= Last(S) /\ Last(S) <= n
  BY <1>1
<1>4. QED
  BY <1>2, <1>3

(* Nothing is found where there is nothing. *)
LEMMA ValueInNothing ==
    ASSUME NEW f, NEW key, NEW i \in Nat, NEW default
    PROVE  ValueIn(f, key, (i + 1)..i, default) = default
BY DEF ValueIn

(* One more setting is the value of its key, and of no other.              *)
LEMMA ValueInNext ==
    ASSUME NEW f, NEW key, NEW i \in Nat, NEW n \in Nat, i <= n,
           f[n + 1].sort = "set", NEW default
    PROVE  ValueIn(f, key, (i + 1)..(n + 1), default) =
              IF f[n + 1].name = key THEN f[n + 1].val
              ELSE ValueIn(f, key, (i + 1)..n, default)
<1> DEFINE Found(P) == {j \in P : f[j].sort = "set" /\ f[j].name = key}
<1>1. CASE f[n + 1].name = key
  <2>1. n + 1 \in Found((i + 1)..(n + 1))
    BY <1>1
  <2>2. Last(Found((i + 1)..(n + 1))) = n + 1
    BY <2>1, LastIs
  <2>3. QED
    BY <1>1, <2>1, <2>2 DEF ValueIn
<1>2. CASE f[n + 1].name # key
  <2>1. Found((i + 1)..(n + 1)) = Found((i + 1)..n)
    BY <1>2
  <2>2. QED
    BY <1>2, <2>1 DEF ValueIn
<1>3. QED
  BY <1>1, <1>2

(* A service, and a weather, is what its settings are. *)
LEMMA ServiceByKeys ==
    ASSUME NEW s \in Services, NEW i,
           \A k \in KeysOf.service :
              s[k] = ValueIn(Text, k, Body(Text, i), NewService[k])
    PROVE  s = ServiceAt(Text, i)
BY DEF Services, ServiceAt, KeysOf

LEMMA WeatherByKeys ==
    ASSUME NEW w \in Weathers, NEW i,
           \A k \in KeysOf.weather :
              w[k] = ValueIn(Text, k, Body(Text, i), NewWeather[k])
    PROVE  w = WeatherAt(Text, i)
BY DEF Weathers, WeatherAt, KeysOf

----------------------------------------------------------------------------

(* The item that the parser takes is the next one of the text. *)
LEMMA TakenIsNext ==
    ASSUME ScannerTypeOK, RestInv, phase = "parsing", buf # <<>>
    PROVE  /\ Text \in Seq(Items)
           /\ Read \in Nat /\ Read + 1 \in 1..Len(Text)
           /\ Text[Read + 1] = Item
<1>1. /\ Text \in Seq(Items) /\ Len(buf) \in Nat \ {0} /\ Len(src) \in Nat
  BY DEF Text, ScannerTypeOK
<1>2. Read \in Nat /\ Text[Read + 1] = buf[1]
  BY <1>1 DEF RestInv
<1>3. Len(Text) = Read + Len(buf) + Len(src)
  BY <1>1 DEF Read
<1>4. QED
  BY <1>1, <1>2, <1>3 DEF Item

(* After it, one more item has been read. *)
LEMMA TakenReadsOne ==
    ASSUME ScannerTypeOK, RestInv, phase = "parsing", buf # <<>>, Taken
    PROVE  Read' = Read + 1 /\ Text' = Text /\ phase' = "parsing" /\ RestInv'
<1>1. /\ Text' = Text /\ src' = src /\ phase' = "parsing"
      /\ buf' = Tail(buf)
  BY DEF Taken, Text
<1>2. /\ Len(buf) \in Nat \ {0} /\ Len(src) \in Nat /\ Len(Text) \in Nat
      /\ Len(buf') = Len(buf) - 1
      /\ \A k \in 1..Len(buf') : buf'[k] = buf[k + 1]
  BY <1>1 DEF Text, ScannerTypeOK
<1>3. Read \in Nat /\ Read' = Read + 1
  BY <1>1, <1>2 DEF Read, RestInv
<1>4. ASSUME NEW k \in 1..Len(buf') PROVE Text'[Read' + k] = buf'[k]
  <2>1. k + 1 \in 1..Len(buf) /\ Read' + k = Read + (k + 1)
    BY <1>2, <1>3
  <2>2. QED
    BY <1>1, <1>2, <2>1 DEF RestInv
<1>5. ASSUME NEW k \in 1..Len(src')
      PROVE  Text'[Read' + Len(buf') + k] = src'[k]
  <2>1. Read' + Len(buf') + k = Read + Len(buf) + k
    BY <1>2, <1>3
  <2>2. QED
    BY <1>1, <2>1 DEF RestInv
<1>6. QED
  BY <1>1, <1>3, <1>4, <1>5 DEF RestInv

(* The text is what the scanner will give: that of an earlier Parse first. *)
LEMMA RestStep == ScannerTypeOK /\ RestInv /\ [Next]_vars => RestInv'
<1> SUFFICES ASSUME ScannerTypeOK, RestInv, [Next]_vars PROVE RestInv'
  OBVIOUS
<1>1. ASSUME NEW f \in Files, Parse(f) PROVE RestInv'
  <2>1. /\ buf' = buf /\ src' = f /\ Text' = buf \o f
        /\ buf \in Seq(Items) /\ f \in Seq(Items)
    BY <1>1, FilesAssumption DEF Parse, Begin, Text, ScannerTypeOK
  <2>2. Read' = 0
    BY <2>1 DEF Read
  <2>3. QED
    BY <2>1, <2>2 DEF RestInv
<1>2. CASE Refill
  <2>1. /\ phase = "parsing" /\ Text' = Text
        /\ Len(buf) = 0 /\ buf' = src /\ Len(src') = 0
    BY <1>2 DEF Refill, Text
  <2>2. Len(src) \in Nat /\ Len(Text) \in Nat
    BY DEF ScannerTypeOK, Text
  <2>3. Read \in Nat /\ Read' = Read
    BY <2>1, <2>2 DEF Read, RestInv
  <2>4. QED
    BY <2>1, <2>2, <2>3 DEF RestInv
<1>3. CASE OpenSection \/ Setting \/ SyslogSetting \/ CloseSection
  <2>1. phase = "parsing" /\ buf # <<>> /\ Taken
    BY <1>3 DEF OpenSection, Setting, SyslogSetting, CloseSection, Next1
  <2>2. QED
    BY <2>1, TakenReadsOne
<1>4. CASE phase' = "idle"
  BY <1>4 DEF RestInv
<1>5. CASE UNCHANGED vars
  BY <1>5 DEF vars, scanner, RestInv, Read, Text
<1>6. QED
  BY <1>1, <1>2, <1>3, <1>4, <1>5
     DEF Next, ParserStep, OpenFails, ScanOutOfStep, Truncated, Unquoted,
         Error, Fail, Accept

(* The open section has the settings after its beginning, and no more. *)
LEMMA SectionStep == IInv /\ [Next]_vars => SectionInv'
<1> SUFFICES ASSUME ScannerTypeOK, ParserTypeOK, RestInv, SectionInv,
                    [Next]_vars
             PROVE  SectionInv'
  BY TypeParts DEF IInv
<1>1. CASE phase' = "idle" \/ sec' = "top"
  BY <1>1 DEF SectionInv
<1>2. CASE Refill
  <2>1. /\ phase = "parsing"
        /\ Text' = Text /\ UNCHANGED <<sec, some, val>>
        /\ Len(buf) = 0 /\ buf' = src /\ Len(src') = 0
    BY <1>2 DEF Refill, Text, parser
  <2>2. Len(src) \in Nat /\ Len(Text) \in Nat
    BY DEF ScannerTypeOK, Text
  <2>3. Read' = Read
    BY <2>1, <2>2 DEF Read
  <2>4. QED
    BY <2>1, <2>3 DEF SectionInv, Begun
<1>3. CASE OpenSection
  <2>1. /\ phase = "parsing" /\ buf # <<>> /\ Taken
        /\ Item.sort = "open" /\ sec' = Item.name /\ some' = FALSE
        /\ sec' = "service" => val' = NewService
        /\ sec' = "weather" => val' = NewWeather
    BY <1>3 DEF OpenSection, Next1
  <2>2. /\ Read \in Nat /\ Text[Read + 1] = Item
        /\ Read' = Read + 1 /\ Text' = Text
    BY <2>1, TakenIsNext, TakenReadsOne
  <2>3. PICK i \in Nat : i = Read + 1
    BY <2>2
  <2>4. /\ Text'[i] = Item /\ (i + 1)..Read' = (i + 1)..i
        /\ (i + 1)..i = {} /\ ~(i < Read')
    BY <2>2, <2>3
  <2>5. ASSUME sec' = "service", NEW k \in KeysOf.service
        PROVE  val'[k] = ValueIn(Text', k, (i + 1)..Read', NewService[k])
    BY <2>1, <2>4, <2>5, ValueInNothing
  <2>6. ASSUME sec' = "weather", NEW k \in KeysOf.weather
        PROVE  val'[k] = ValueIn(Text', k, (i + 1)..Read', NewWeather[k])
    BY <2>1, <2>4, <2>6, ValueInNothing
  <2>7. Begun(i)'
    BY <2>1, <2>4, <2>5, <2>6 DEF Begun
  <2>8. i \in 1..Read'
    BY <2>2, <2>3
  <2>9. QED
    BY <2>7, <2>8 DEF SectionInv
<1>4. CASE Setting \/ SyslogSetting
  <2>1. /\ phase = "parsing" /\ buf # <<>> /\ Taken
        /\ Item.sort = "set" /\ Next1("set") /\ Allowed
        /\ sec' = sec /\ some' = TRUE
    BY <1>4 DEF Setting, SyslogSetting, Next1
  <2>2. /\ Read \in Nat /\ Text[Read + 1] = Item
        /\ Read' = Read + 1 /\ Text' = Text
    BY <2>1, TakenIsNext, TakenReadsOne
  <2>3. sec \in Sections /\ Item.name \in KeysOf[sec]
    BY <2>1, AllowedSetting
  <2>4. PICK i \in 1..Read : Begun(i)
    BY <2>1, <2>3 DEF SectionInv, Sections
  <2>5. \A k \in (i + 1)..Read' : Text[k].sort = "set"
    BY <2>1, <2>2, <2>4 DEF Begun
  <2>6. ASSUME sec = "service", NEW k \in KeysOf.service
        PROVE  val'[k] = ValueIn(Text, k, (i + 1)..Read', NewService[k])
    <3>1. val' = [val EXCEPT ![Item.name] = Item.val]
      BY <1>4, <2>6 DEF Setting, SyslogSetting, WithSetting, ServiceWith
    <3>2. val \in Services
      BY <2>6 DEF ParserTypeOK
    <3>3. val'[k] = IF Item.name = k THEN Item.val ELSE val[k]
      BY <2>6, <3>1, <3>2 DEF Services, KeysOf
    <3>4. val[k] = ValueIn(Text, k, (i + 1)..Read, NewService[k])
      BY <2>4, <2>6 DEF Begun
    <3>5. ValueIn(Text, k, (i + 1)..(Read + 1), NewService[k])
             = IF Text[Read + 1].name = k THEN Text[Read + 1].val
               ELSE ValueIn(Text, k, (i + 1)..Read, NewService[k])
      BY <2>1, <2>2, ValueInNext
    <3>6. QED
      BY <2>2, <3>3, <3>4, <3>5
  <2>7. ASSUME sec = "weather", NEW k \in KeysOf.weather
        PROVE  val'[k] = ValueIn(Text, k, (i + 1)..Read', NewWeather[k])
    <3>1. val' = [val EXCEPT ![Item.name] = Item.val]
      BY <1>4, <2>7 DEF Setting, SyslogSetting, WithSetting, WeatherWith
    <3>2. val \in Weathers
      BY <2>7 DEF ParserTypeOK
    <3>3. val'[k] = IF Item.name = k THEN Item.val ELSE val[k]
      BY <2>7, <3>1, <3>2 DEF Weathers, KeysOf
    <3>4. val[k] = ValueIn(Text, k, (i + 1)..Read, NewWeather[k])
      BY <2>4, <2>7 DEF Begun
    <3>5. ValueIn(Text, k, (i + 1)..(Read + 1), NewWeather[k])
             = IF Text[Read + 1].name = k THEN Text[Read + 1].val
               ELSE ValueIn(Text, k, (i + 1)..Read, NewWeather[k])
      BY <2>1, <2>2, ValueInNext
    <3>6. QED
      BY <2>2, <3>3, <3>4, <3>5
  <2>8. Begun(i)'
    BY <2>1, <2>2, <2>4, <2>5, <2>6, <2>7 DEF Begun
  <2>9. QED
    BY <2>2, <2>8 DEF SectionInv
<1>5. CASE UNCHANGED vars
  BY <1>5 DEF vars, scanner, parser, SectionInv, Begun, Read, Text
<1>6. QED
  BY <1>1, <1>2, <1>3, <1>4, <1>5
     DEF Next, ParserStep, Parse, OpenFails, ScanOutOfStep, Truncated,
         Unquoted, Error, Fail, Accept, CloseSection

----------------------------------------------------------------------------

(* At its "};" the section that is open has been read as a whole. *)
LEMMA ClosedIsWhole ==
    ASSUME ScannerTypeOK, RestInv, SectionInv, CloseSection
    PROVE  \E i \in 1..Read :
              /\ Begun(i) /\ WholeAt(Text, sec, i)
              /\ i \in DOMAIN Text /\ Body(Text, i) = (i + 1)..Read
<1>1. /\ phase = "parsing" /\ buf # <<>> /\ sec # "top" /\ some
      /\ Item.sort = "close"
  BY DEF CloseSection, Next1
<1>2. /\ Text \in Seq(Items) /\ Read \in Nat
      /\ Read + 1 \in 1..Len(Text) /\ Text[Read + 1] = Item
  BY <1>1, TakenIsNext
<1>3. PICK i \in 1..Read : Begun(i)
  BY <1>1 DEF SectionInv
<1>4. /\ i < Read /\ \A k \in (i + 1)..Read : Text[k].sort = "set"
      /\ Text[i].sort = "open" /\ Text[i].name = sec
  BY <1>1, <1>3 DEF Begun
<1>5. DOMAIN Text = 1..Len(Text) /\ Len(Text) \in Nat
  BY <1>2
<1>6. Body(Text, i) = (i + 1)..Read
  <2>1. ASSUME NEW j \in Body(Text, i) PROVE j \in (i + 1)..Read
    <3>1. /\ j \in Nat /\ j > i
          /\ \A k \in (i + 1)..j : Text[k].sort = "set"
      BY <1>5, <2>1 DEF Body
    <3>2. ~(Read + 1 <= j)
      BY <1>1, <1>2, <1>4, <3>1
    <3>3. QED
      BY <1>2, <3>1, <3>2
  <2>2. ASSUME NEW j \in (i + 1)..Read PROVE j \in Body(Text, i)
    BY <1>2, <1>4, <1>5, <2>2 DEF Body
  <2>3. QED
    BY <2>1, <2>2
<1>7. WholeAt(Text, sec, i)
  <2>1. i \in Opened(Text, sec)
    BY <1>2, <1>4, <1>5 DEF Opened
  <2>2. PICK j \in DOMAIN Text : j = Read + 1
    BY <1>2, <1>5
  <2>3. Text[j].sort = "close" /\ j > i + 1
    BY <1>1, <1>2, <1>4, <2>2
  <2>4. (i + 1)..(j - 1) \subseteq Body(Text, i)
    BY <1>2, <1>6, <2>2
  <2>5. QED
    BY <2>1, <2>3, <2>4 DEF WholeAt
<1>8. QED
  BY <1>2, <1>3, <1>5, <1>6, <1>7

(* The Config only gets sections that were closed. *)
LEMMA ConfigStep == IInv /\ [Next]_vars => ConfigInv'
<1> SUFFICES ASSUME ScannerTypeOK, ParserTypeOK, cfg \in Configs, RestInv,
                    SectionInv, ConfigInv, [Next]_vars
             PROVE  ConfigInv'
  BY TypeParts DEF IInv
<1>1. CASE cfg' = Cleared
  BY <1>1 DEF ConfigInv, ServiceOf, WeatherOf
<1>2. CASE phase = "parsing" /\ Text' = Text /\ cfg' = cfg
  BY <1>2 DEF ConfigInv
<1>3. CASE SyslogSetting
  <2>1. phase = "parsing" /\ Text' = Text
    BY <1>3 DEF SyslogSetting, Next1, Taken, Text
  <2>2. cfg'.service = cfg.service /\ cfg'.weather = cfg.weather
    BY <1>3 DEF SyslogSetting, WithSyslog, Configs
  <2>3. QED
    BY <2>1, <2>2 DEF ConfigInv
<1>4. CASE CloseSection
  <2>1. /\ phase = "parsing" /\ Text' = Text /\ cfg' = WithSection
        /\ sec \in Sections
    BY <1>4 DEF CloseSection, Next1, Taken, Text, ParserTypeOK
  <2>2. PICK i \in 1..Read :
           /\ Begun(i) /\ WholeAt(Text, sec, i)
           /\ i \in DOMAIN Text /\ Body(Text, i) = (i + 1)..Read
    BY <1>4, ClosedIsWhole
  <2>3. ServiceOf(Text, cfg.service) /\ WeatherOf(Text, cfg.weather)
    BY <2>1 DEF ConfigInv
  <2>4. CASE sec = "service"
    <3>1. val = ServiceAt(Text, i)
      BY <2>2, <2>4, ServiceByKeys DEF Begun, ParserTypeOK
    <3>2. ServiceOf(Text, val)
      BY <2>2, <2>4, <3>1 DEF ServiceOf
    <3>3. cfg'.service = val /\ cfg'.weather = cfg.weather
      BY <2>1, <2>4 DEF WithSection, Configs
    <3>4. QED
      BY <2>1, <2>3, <3>2, <3>3 DEF ConfigInv
  <2>5. CASE sec = "weather"
    <3>1. val = WeatherAt(Text, i)
      BY <2>2, <2>5, WeatherByKeys DEF Begun, ParserTypeOK
    <3>2. WeatherOf(Text, val)
      BY <2>2, <2>5, <3>1 DEF WeatherOf
    <3>3. cfg'.weather = val /\ cfg'.service = cfg.service
      BY <2>1, <2>5 DEF WithSection, Configs
    <3>4. QED
      BY <2>1, <2>3, <3>2, <3>3 DEF ConfigInv
  <2>6. CASE sec \in {"cache", "syslog"}
    <3>1. cfg'.service = cfg.service /\ cfg'.weather = cfg.weather
      BY <2>1, <2>6 DEF WithSection, Configs
    <3>2. QED
      BY <2>1, <2>3, <3>1 DEF ConfigInv
  <2>7. QED
    BY <2>1, <2>4, <2>5, <2>6 DEF Sections
<1>5. CASE Accept
  <2>1. /\ phase = "parsing" /\ phase' = "idle" /\ Text' = Text
        /\ cfg' = [cfg EXCEPT !.service = Filled(cfg.service)]
    BY <1>5 DEF Accept, EndOfFile, Text
  <2>2. cfg.service \in Services /\ ServiceOf(Text, cfg.service)
    BY <2>1 DEF ConfigInv, Configs
  <2>3. /\ cfg'.service = Filled(cfg.service)
        /\ cfg'.weather = cfg.weather
    BY <2>1 DEF Configs
  <2>4. WeatherOf(Text, cfg.weather)
    BY DEF ConfigInv
  <2>5. PICK s \in Services :
           ServiceOf(Text, s) /\ cfg'.service = Filled(s)
    BY <2>2, <2>3
  <2>6. QED
    BY <2>1, <2>3, <2>4, <2>5 DEF ConfigInv
<1>6. CASE UNCHANGED vars
  BY <1>6 DEF vars, ConfigInv, Text
<1>7. QED
  BY <1>1, <1>2, <1>3, <1>4, <1>5, <1>6
     DEF Next, ParserStep, Parse, Begin, OpenFails, Refill, ScanOutOfStep,
         OpenSection, Setting, Truncated, Unquoted, Error, Fail, Next1,
         EndOfFile, Taken, Text

(* The conjunction is inductive: that what is left of the text is what the *)
(* scanner holds ties a section's value to its place in the text.          *)
THEOREM Inductive == Spec => []IInv
<1>1. Init => IInv
  <2>1. SUFFICES ASSUME Init PROVE RestInv /\ SectionInv /\ ConfigInv
    BY InitTypes DEF IInv
  <2>2. RestInv /\ SectionInv
    BY <2>1 DEF Init, RestInv, SectionInv
  <2>3. ConfigInv
    BY <2>1 DEF Init, ConfigInv, ServiceOf, WeatherOf
  <2>4. QED
    BY <2>2, <2>3
<1>2. IInv /\ [Next]_vars => IInv'
  <2>1. SUFFICES ASSUME IInv, [Next]_vars PROVE IInv'
    OBVIOUS
  <2>2. ScannerTypeOK /\ ParserTypeOK /\ cfg \in Configs /\ RestInv
    BY <2>1, TypeParts DEF IInv
  <2>3. ScannerTypeOK' /\ ParserTypeOK' /\ cfg' \in Configs
    BY <2>1, <2>2, ScannerStep, ParserTypeStep, ConfigTypeStep
  <2>4. TypeOK'
    BY <2>3 DEF TypeOK, ScannerTypeOK, ParserTypeOK
  <2>5. RestInv' /\ SectionInv' /\ ConfigInv'
    BY <2>1, <2>2, RestStep, SectionStep, ConfigStep
  <2>6. QED
    BY <2>4, <2>5 DEF IInv
<1>3. QED
  BY <1>1, <1>2, PTL DEF Spec

(* However a Parse ends, and whatever was left in the scanner before it,   *)
(* the Config has the sections that were read to their ends and no others. *)
THEOREM SectionsAreWhole == Spec => []WholeSectionsOnly
<1>1. IInv => WholeSectionsOnly
  <2>1. SUFFICES ASSUME IInv PROVE WholeSectionsOnly
    OBVIOUS
  <2>2. ConfigInv
    BY <2>1 DEF IInv
  <2> DEFINE services == {Cleared.service} \cup
                {ServiceAt(Text, i) :
                    i \in {k \in Opened(Text, "service") :
                              WholeAt(Text, "service", k)}}
             weathers == {Cleared.weather} \cup
                {WeatherAt(Text, i) :
                    i \in {k \in Opened(Text, "weather") :
                              WholeAt(Text, "weather", k)}}
  <2>3. \A s : ServiceOf(Text, s) => s \in services
    BY DEF ServiceOf, WholeAt
  <2>4. \A w : WeatherOf(Text, w) => w \in weathers
    BY DEF WeatherOf, WholeAt
  <2>5. cfg.service \in services \cup {Filled(s) : s \in services}
    BY <2>2, <2>3 DEF ConfigInv
  <2>6. cfg.weather \in weathers
    BY <2>2, <2>4 DEF ConfigInv
  <2>7. QED
    BY <2>5, <2>6 DEF WholeSectionsOnly, WholeAt, Text
<1>2. QED
  BY Inductive, <1>1, PTL

----------------------------------------------------------------------------
(* What the text means. *)

(* The item at i may stand where it stands, by Accepts. *)
Fine(f, i) ==
    LET before == IF i = 1 THEN "close" ELSE f[i - 1].sort
    IN  \/ /\ f[i].sort = "open" /\ f[i].name \in Sections
           /\ before = "close"
        \/ /\ f[i].sort = "set" /\ f[i].val \notin Refused
           /\ \E j \in DOMAIN f :
                 /\ f[j].sort = "open" /\ i \in Body(f, j)
                 /\ f[i].name \in KeysOf[f[j].name]
                 /\ f[j].name = "cache" => i = j + 1
        \/ f[i].sort = "close" /\ before = "set"

(* The string that is cut off is the last that an earlier Parse has read.  *)
OddInv ==
    /\ odd => buf = <<>>
    /\ phase = "parsing" => odd = oddAhead

(* All that was taken was fine, and between two sections, the last was     *)
(* closed.                                                                 *)
GrammarInv ==
    phase = "parsing" =>
        /\ \A i \in 1..Read : Fine(Text, i)
        /\ sec = "top" => /\ some <=> Read > 0
                          /\ Read > 0 => Text[Read].sort = "close"

(* The store that the Config has, or gets with the section. *)
Store1 == IF sec = "cache" /\ some THEN val.store ELSE cfg.store

(* The settings that can be in one kind of section, once for all of them.  *)
SettingsInv ==
    phase = "parsing" =>
        /\ Store1 = ValueIn(Text, "store", 1..Read, Cleared.store)
        /\ \A k \in {"facility", "level"} :
              cfg.syslog[k] = ValueIn(Text, k, 1..Read, Cleared.syslog[k])
        /\ cfg.syslog.logLocations =
              IF \E i \in 1..Read : Text[i] = Set("logLocations", "yes")
              THEN "yes" ELSE "no"

(* The sections of a name that begin in the first n items. *)
Past(name, n) == {i \in Opened(Text, name) : i <= n}

(* The Config has the last service and the last weather of those.          *)
HasPast(n) ==
    /\ cfg.runService <=> Past("service", n) # {}
    /\ cfg.service = IF Past("service", n) = {} THEN Cleared.service
                     ELSE ServiceAt(Text, Last(Past("service", n)))
    /\ cfg.weather = IF Past("weather", n) = {} THEN Cleared.weather
                     ELSE WeatherAt(Text, Last(Past("weather", n)))

(* The open section begins at i. *)
Begins(i) ==
    /\ Text[i].sort = "open"
    /\ \A k \in (i + 1)..Read : Text[k].sort = "set"

(* The sections that the Config has are all but the one that is open. *)
PastInv ==
    phase = "parsing" =>
        \E n \in 0..Read :
            /\ IF sec = "top" THEN n = Read ELSE n < Read /\ Begins(n + 1)
            /\ HasPast(n)

(* What a Parse has made of the text so far, and what the last one made.   *)
ExactInv ==
    OddInv /\ GrammarInv /\ SettingsInv /\ PastInv /\ ParseIsExact

(* One more item changes a value only when it is a setting of its name.    *)
LEMMA ValueStep ==
    ASSUME NEW f, NEW key, NEW n \in Nat, NEW default
    PROVE  ValueIn(f, key, 1..(n + 1), default) =
              IF f[n + 1].sort = "set" /\ f[n + 1].name = key
              THEN f[n + 1].val ELSE ValueIn(f, key, 1..n, default)
<1> DEFINE Found(P) == {j \in P : f[j].sort = "set" /\ f[j].name = key}
<1>1. CASE f[n + 1].sort = "set" /\ f[n + 1].name = key
  <2>1. n + 1 \in Found(1..(n + 1))
    BY <1>1
  <2>2. Last(Found(1..(n + 1))) = n + 1
    BY <2>1, LastIs
  <2>3. QED
    BY <1>1, <2>1, <2>2 DEF ValueIn
<1>2. CASE ~(f[n + 1].sort = "set" /\ f[n + 1].name = key)
  <2>1. Found(1..(n + 1)) = Found(1..n)
    BY <1>2
  <2>2. QED
    BY <1>2, <2>1 DEF ValueIn
<1>3. QED
  BY <1>1, <1>2

(* What the parser takes of the next item. *)
Takes ==
    \/ Item.sort = "open" /\ sec = "top" /\ Item.name \in Sections
    \/ Item.sort = "set" /\ Allowed
    \/ Item.sort = "close" /\ sec # "top" /\ some

(* What is before the next item. *)
LEMMA Before ==
    ASSUME ScannerTypeOK, ParserTypeOK, RestInv, SectionInv, GrammarInv,
           phase = "parsing"
    PROVE  /\ Read \in Nat
           /\ sec = "top" => Read = 0 \/ Text[Read].sort = "close"
           /\ sec # "top" /\ some => Read # 0 /\ Text[Read].sort = "set"
           /\ sec # "top" /\ ~some => Read # 0 /\ Text[Read].sort = "open"
<1>1. Read \in Nat
  BY DEF RestInv
<1>2. CASE sec = "top"
  BY <1>1, <1>2 DEF GrammarInv
<1>3. CASE sec # "top"
  <2>1. PICK i \in 1..Read : Begun(i)
    BY <1>3 DEF SectionInv
  <2>2. /\ Text[i].sort = "open" /\ (some <=> i < Read)
        /\ \A k \in (i + 1)..Read : Text[k].sort = "set"
    BY <2>1 DEF Begun
  <2>3. some => Read \in (i + 1)..Read
    BY <1>1, <2>2
  <2>4. ~some => i = Read
    BY <1>1, <2>2
  <2>5. QED
    BY <1>1, <1>3, <2>2, <2>3, <2>4
<1>4. QED
  BY <1>2, <1>3

(* Only one section is open. *)
LEMMA OneBegins ==
    ASSUME Read \in Nat, NEW i \in 1..Read, NEW j \in 1..Read,
           Begins(i), Begins(j)
    PROVE  i = j
<1>1. i < j => j \in (i + 1)..Read
  OBVIOUS
<1>2. j < i => i \in (j + 1)..Read
  OBVIOUS
<1>3. QED
  BY <1>1, <1>2 DEF Begins

(* A setting is fine where it is allowed. *)
LEMMA SetIsFine ==
    ASSUME ScannerTypeOK, ParserTypeOK, RestInv, SectionInv, GrammarInv,
           phase = "parsing", buf # <<>>, Item.sort = "set"
    PROVE  Fine(Text, Read + 1) <=> Allowed
<1> DEFINE n == Read + 1
<1>1. /\ Text \in Seq(Items) /\ Read \in Nat /\ n \in 1..Len(Text)
      /\ Text[n] = Item /\ DOMAIN Text = 1..Len(Text) /\ Len(Text) \in Nat
  BY TakenIsNext
<1>2. Fine(Text, n) <=>
         /\ Item.val \notin Refused
         /\ \E j \in DOMAIN Text :
               /\ Text[j].sort = "open" /\ n \in Body(Text, j)
               /\ Item.name \in KeysOf[Text[j].name]
               /\ Text[j].name = "cache" => n = j + 1
  BY <1>1 DEF Fine
<1>3. ASSUME Fine(Text, n) PROVE Allowed
  <2>1. PICK j \in DOMAIN Text :
           /\ Text[j].sort = "open" /\ n \in Body(Text, j)
           /\ Item.name \in KeysOf[Text[j].name]
           /\ Text[j].name = "cache" => n = j + 1
    BY <1>2, <1>3
  <2>2. j < n /\ \A k \in (j + 1)..n : Text[k].sort = "set"
    BY <1>1, <2>1 DEF Body
  <2>3. j \in 1..Read /\ Begins(j)
    BY <1>1, <2>1, <2>2 DEF Begins
  <2>4. sec # "top"
    <3>1. j = Read \/ Read \in (j + 1)..n
      BY <1>1, <2>3
    <3>2. Read # 0 /\ Text[Read].sort \in {"open", "set"}
      BY <1>1, <2>1, <2>2, <2>3, <3>1
    <3>3. QED
      BY <3>2, Before
  <2>5. PICK i \in 1..Read : Begun(i)
    BY <2>4 DEF SectionInv
  <2>6. i = j
    BY <1>1, <2>3, <2>5, OneBegins DEF Begun, Begins
  <2>7. Text[j].name = sec /\ (some <=> j < Read)
    BY <2>5, <2>6 DEF Begun
  <2>8. sec = "cache" => ~some
    BY <1>1, <2>1, <2>7
  <2>9. QED
    BY <1>2, <1>3, <2>1, <2>4, <2>7, <2>8 DEF Allowed
<1>4. ASSUME Allowed PROVE Fine(Text, n)
  <2>1. /\ sec # "top" /\ Item.name \in KeysOf[sec]
        /\ Item.val \notin Refused
        /\ sec = "cache" => ~some
    BY <1>4 DEF Allowed
  <2>2. PICK i \in 1..Read : Begun(i)
    BY <2>1 DEF SectionInv
  <2>3. /\ Text[i].sort = "open" /\ Text[i].name = sec
        /\ \A k \in (i + 1)..Read : Text[k].sort = "set"
        /\ some <=> i < Read
    BY <2>2 DEF Begun
  <2>4. i \in DOMAIN Text
    BY <1>1
  <2>5. n \in Body(Text, i)
    <3>1. \A k \in (i + 1)..n : k = n \/ k \in (i + 1)..Read
      BY <1>1
    <3>2. \A k \in (i + 1)..n : Text[k].sort = "set"
      BY <1>1, <2>3, <3>1
    <3>3. n \in DOMAIN Text /\ n > i
      BY <1>1
    <3>4. QED
      BY <3>2, <3>3 DEF Body
  <2>6. sec = "cache" => n = i + 1
    BY <1>1, <2>1, <2>3
  <2>7. QED
    BY <1>2, <2>1, <2>3, <2>4, <2>5, <2>6
<1>5. QED
  BY <1>3, <1>4

(* The parser takes the next item exactly where it may stand. *)
LEMMA NextIsFine ==
    ASSUME ScannerTypeOK, ParserTypeOK, RestInv, SectionInv, GrammarInv,
           phase = "parsing", buf # <<>>
    PROVE  Fine(Text, Read + 1) <=> Takes
<1> DEFINE n == Read + 1
           before == IF n = 1 THEN "close" ELSE Text[n - 1].sort
<1>1. Read \in Nat /\ Text[n] = Item
  BY TakenIsNext
<1>2. /\ sec = "top" => before = "close"
      /\ sec # "top" /\ some => before = "set"
      /\ sec # "top" /\ ~some => before = "open"
  BY <1>1, Before
<1>3. CASE Item.sort = "open"
  <2>1. Fine(Text, n) <=> Item.name \in Sections /\ before = "close"
    BY <1>1, <1>3 DEF Fine
  <2>2. QED
    BY <1>2, <1>3, <2>1 DEF Takes
<1>4. CASE Item.sort = "set"
  BY <1>4, SetIsFine DEF Takes
<1>5. CASE Item.sort = "close"
  <2>1. Fine(Text, n) <=> before = "set"
    BY <1>1, <1>5 DEF Fine
  <2>2. QED
    BY <1>2, <1>5, <2>1 DEF Takes
<1>6. CASE Item.sort \notin {"open", "set", "close"}
  BY <1>1, <1>6 DEF Fine, Takes
<1>7. QED
  BY <1>3, <1>4, <1>5, <1>6

----------------------------------------------------------------------------

(* A Parse begins at the beginning of its text. *)
LEMMA ParseReadsNothing ==
    ASSUME ScannerTypeOK, NEW f \in Files, Parse(f)
    PROVE  Read' = 0
<1>1. /\ buf' = buf /\ src' = f /\ Text' = buf \o f
      /\ buf \in Seq(Items) /\ f \in Seq(Items)
  BY FilesAssumption DEF Parse, Begin, Text, ScannerTypeOK
<1>2. QED
  BY <1>1 DEF Read

(* Refill only moves what is left of the text. *)
LEMMA RefillReadsNothing ==
    ASSUME ScannerTypeOK, Refill
    PROVE  /\ Read' = Read /\ Text' = Text /\ phase = "parsing"
           /\ UNCHANGED <<odd, sec, some, val, cfg, rc, oddAhead>>
<1>1. /\ Text' = Text /\ Len(buf) = 0 /\ buf' = src /\ Len(src') = 0
      /\ phase = "parsing"
      /\ UNCHANGED <<odd, sec, some, val, cfg, rc, oddAhead>>
  BY DEF Refill, Text, parser
<1>2. Len(src) \in Nat /\ Len(Text) \in Nat
  BY DEF ScannerTypeOK, Text
<1>3. QED
  BY <1>1, <1>2 DEF Read

(* The steps that take an item. *)
TakesItem == OpenSection \/ Setting \/ SyslogSetting \/ CloseSection

LEMMA TakesItemTakes ==
    ASSUME ScannerTypeOK, ParserTypeOK, RestInv, SectionInv, GrammarInv,
           TakesItem
    PROVE  /\ phase = "parsing" /\ buf # <<>> /\ Taken /\ Takes
           /\ Read \in Nat /\ Read + 1 \in 1..Len(Text)
           /\ Text[Read + 1] = Item /\ Fine(Text, Read + 1)
           /\ Read' = Read + 1 /\ Text' = Text /\ phase' = "parsing"
           /\ rc' = rc /\ odd' = odd /\ oddAhead' = oddAhead
<1>1. phase = "parsing" /\ buf # <<>> /\ Taken /\ Takes
  BY DEF TakesItem, OpenSection, Setting, SyslogSetting, CloseSection,
         Next1, Takes
<1>2. QED
  BY <1>1, TakenIsNext, TakenReadsOne, NextIsFine DEF Taken

LEMMA OddStep == ScannerTypeOK /\ OddInv /\ [Next]_vars => OddInv'
<1> SUFFICES ASSUME ScannerTypeOK, OddInv, [Next]_vars PROVE OddInv'
  OBVIOUS
<1>1. ASSUME NEW f \in Files, Parse(f) PROVE OddInv'
  BY <1>1 DEF Parse, OddInv
<1>2. CASE Refill
  BY <1>2 DEF Refill, OddInv
<1>3. CASE OpenSection \/ Setting \/ SyslogSetting \/ CloseSection
  <2>1. phase = "parsing" /\ buf # <<>> /\ Taken
    BY <1>3 DEF OpenSection, Setting, SyslogSetting, CloseSection, Next1
  <2>2. /\ phase' = phase /\ odd' = odd /\ oddAhead' = oddAhead
        /\ odd = FALSE
    BY <2>1 DEF Taken, OddInv, ScannerTypeOK
  <2>3. QED
    BY <2>1, <2>2 DEF OddInv
<1>4. CASE ScanOutOfStep \/ Truncated \/ Unquoted
  BY <1>4 DEF ScanOutOfStep, Truncated, Unquoted, Fail, OddInv
<1>5. CASE Error
  BY <1>5 DEF Error, Fail, OddInv
<1>6. CASE OpenFails \/ Accept \/ UNCHANGED vars
  BY <1>6 DEF OpenFails, Accept, vars, scanner, OddInv, ScannerTypeOK
<1>7. QED
  BY <1>1, <1>2, <1>3, <1>4, <1>5, <1>6 DEF Next, ParserStep

(* What is taken is fine. *)
LEMMA GrammarStep == IInv /\ GrammarInv /\ [Next]_vars => GrammarInv'
<1> SUFFICES ASSUME ScannerTypeOK, ParserTypeOK, RestInv, SectionInv,
                    GrammarInv, [Next]_vars
             PROVE  GrammarInv'
  BY TypeParts DEF IInv
<1>1. CASE phase' = "idle"
  BY <1>1 DEF GrammarInv
<1>2. ASSUME NEW f \in Files, Parse(f) PROVE GrammarInv'
  <2>1. Read' = 0 /\ sec' = "top" /\ some' = FALSE
    BY <1>2, ParseReadsNothing DEF Parse
  <2>2. QED
    BY <2>1 DEF GrammarInv
<1>3. CASE Refill
  BY <1>3, RefillReadsNothing DEF GrammarInv
<1>4. CASE TakesItem
  <2>1. /\ phase = "parsing" /\ Read \in Nat /\ Text[Read + 1] = Item
        /\ Fine(Text, Read + 1) /\ Read' = Read + 1 /\ Text' = Text
    BY <1>4, TakesItemTakes
  <2>2. ASSUME NEW i \in 1..Read' PROVE Fine(Text', i)
    <3>1. i = Read + 1 \/ i \in 1..Read
      BY <2>1
    <3>2. QED
      BY <2>1, <3>1 DEF GrammarInv
  <2>3. ASSUME sec' = "top"
        PROVE  some' /\ Text'[Read'].sort = "close"
    <3>1. CloseSection
      BY <1>4, <2>3 DEF TakesItem, OpenSection, Setting, SyslogSetting,
                        Allowed, Sections
    <3>2. some' /\ Item.sort = "close"
      BY <3>1 DEF CloseSection, Next1
    <3>3. QED
      BY <2>1, <3>2
  <2>4. Read' > 0
    BY <2>1
  <2>5. QED
    BY <2>2, <2>3, <2>4 DEF GrammarInv
<1>5. CASE UNCHANGED vars
  BY <1>5 DEF vars, scanner, parser, GrammarInv, Read, Text
<1>6. QED
  BY <1>1, <1>2, <1>3, <1>4, <1>5
     DEF Next, ParserStep, TakesItem, OpenFails, ScanOutOfStep, Truncated,
         Unquoted, Error, Fail, Accept, GrammarInv

(* The settings are those of what was taken. *)
LEMMA SettingsStep ==
    IInv /\ GrammarInv /\ SettingsInv /\ [Next]_vars => SettingsInv'
<1> SUFFICES ASSUME ScannerTypeOK, ParserTypeOK, cfg \in Configs, RestInv,
                    SectionInv, GrammarInv, SettingsInv, [Next]_vars
             PROVE  SettingsInv'
  BY TypeParts DEF IInv
<1>1. CASE phase' = "idle"
  BY <1>1 DEF SettingsInv
<1>2. ASSUME NEW f \in Files, Parse(f) PROVE SettingsInv'
  <2>1. Read' = 0 /\ sec' = "top" /\ cfg' = Cleared
    BY <1>2, ParseReadsNothing DEF Parse, Begin
  <2>2. \A key, default : ValueIn(Text', key, 1..0, default) = default
    BY DEF ValueIn
  <2>3. Store1' = Cleared.store
    BY <2>1 DEF Store1
  <2>4. cfg'.syslog = Cleared.syslog /\ Cleared.syslog.logLocations = "no"
    BY <2>1 DEF Cleared
  <2>5. QED
    BY <2>1, <2>2, <2>3, <2>4 DEF SettingsInv
<1>3. CASE Refill
  <2>1. /\ Read' = Read /\ Text' = Text /\ phase = "parsing"
        /\ cfg' = cfg /\ Store1' = Store1
    BY <1>3, RefillReadsNothing DEF Store1
  <2>2. QED
    BY <2>1 DEF SettingsInv
<1>4. CASE TakesItem
  <2>1. /\ phase = "parsing" /\ Read \in Nat /\ Text[Read + 1] = Item
        /\ Read' = Read + 1 /\ Text' = Text
    BY <1>4, TakesItemTakes
  <2>2. \A key, default :
           ValueIn(Text, key, 1..Read', default) =
              IF Item.sort = "set" /\ Item.name = key THEN Item.val
              ELSE ValueIn(Text, key, 1..Read, default)
    BY <2>1, ValueStep
  <2>3. (\E i \in 1..Read' : Text[i] = Set("logLocations", "yes")) <=>
           \/ Item = Set("logLocations", "yes")
           \/ \E i \in 1..Read : Text[i] = Set("logLocations", "yes")
    <3>1. \A i \in 1..Read' : i = Read + 1 \/ i \in 1..Read
      BY <2>1
    <3>2. Read + 1 \in 1..Read' /\ \A i \in 1..Read : i \in 1..Read'
      BY <2>1
    <3>3. QED
      BY <2>1, <3>1, <3>2
  <2>4. /\ Store1 = ValueIn(Text, "store", 1..Read, Cleared.store)
        /\ \A k \in {"facility", "level"} :
              cfg.syslog[k] = ValueIn(Text, k, 1..Read, Cleared.syslog[k])
        /\ cfg.syslog.logLocations =
              IF \E i \in 1..Read : Text[i] = Set("logLocations", "yes")
              THEN "yes" ELSE "no"
    BY <2>1 DEF SettingsInv
  <2>5. SUFFICES
          /\ Store1' = IF Item.sort = "set" /\ Item.name = "store"
                       THEN Item.val ELSE Store1
          /\ \A k \in {"facility", "level"} :
                cfg'.syslog[k] = IF Item.sort = "set" /\ Item.name = k
                                 THEN Item.val ELSE cfg.syslog[k]
          /\ cfg'.syslog.logLocations =
                IF Item = Set("logLocations", "yes") THEN "yes"
                ELSE cfg.syslog.logLocations
    BY <2>1, <2>2, <2>3, <2>4 DEF SettingsInv
  <2>6. Set("logLocations", "yes").sort = "set"
    BY DEF Set
  <2>7. CASE OpenSection
    <3>1. /\ Item.sort = "open" /\ sec = "top" /\ cfg' = cfg
          /\ some' = FALSE
      BY <2>7 DEF OpenSection, Next1
    <3>2. QED
      BY <2>6, <3>1 DEF Store1
  <2>8. CASE Setting
    <3>1. /\ Item.sort = "set" /\ Item.name \in KeysOf[sec]
          /\ sec \in {"cache", "service", "weather"}
          /\ sec' = sec /\ some' = TRUE /\ cfg' = cfg
          /\ val' = WithSetting(Item.name, Item.val)
      BY <2>8 DEF Setting, Next1, Allowed, ParserTypeOK, Sections
    <3>2. /\ Item.name \notin {"facility", "level", "logLocations"}
          /\ Item.name = "store" <=> sec = "cache"
      BY <3>1 DEF KeysOf
    <3>3. Item # Set("logLocations", "yes")
      BY <3>2 DEF Set
    <3>4. sec = "cache" => val'.store = Item.val
      BY <3>1 DEF WithSetting
    <3>5. QED
      BY <3>1, <3>2, <3>3, <3>4 DEF Store1
  <2>9. CASE SyslogSetting
    <3>1. /\ Next1("set") /\ Allowed /\ sec = "syslog" /\ sec' = sec
          /\ cfg' = WithSyslog(Item.name, Item.val)
      BY <2>9 DEF SyslogSetting
    <3>2. /\ Item.sort = "set" /\ Item \in Items
          /\ Item.name \in {"facility", "level", "logLocations"}
      BY <3>1, AllowedSetting DEF KeysOf, Next1
    <3>3. Item = Set("logLocations", "yes") <=>
             Item.name = "logLocations" /\ Item.val = "yes"
      BY <3>2 DEF Items, Set
    <3>4. cfg'.store = cfg.store
      BY <3>1 DEF WithSyslog, Configs
    <3>5. \A k \in {"facility", "level"} :
             cfg'.syslog[k] = IF Item.name = k THEN Item.val
                              ELSE cfg.syslog[k]
      BY <3>1, <3>2 DEF WithSyslog, Configs
    <3>6. cfg'.syslog.logLocations =
             IF Item.name = "logLocations" /\ Item.val = "yes" THEN "yes"
             ELSE cfg.syslog.logLocations
      BY <3>1, <3>2 DEF WithSyslog, Configs
    <3>7. QED
      BY <3>1, <3>2, <3>3, <3>4, <3>5, <3>6 DEF Store1
  <2>10. CASE CloseSection
    <3>1. /\ Item.sort = "close" /\ some /\ sec' = "top"
          /\ cfg' = WithSection
      BY <2>10 DEF CloseSection, Next1
    <3>2. /\ cfg'.store = IF sec = "cache" THEN val.store ELSE cfg.store
          /\ cfg'.syslog = cfg.syslog
      BY <3>1 DEF WithSection, Configs
    <3>3. QED
      BY <2>6, <3>1, <3>2 DEF Store1
  <2>11. QED
    BY <1>4, <2>7, <2>8, <2>9, <2>10 DEF TakesItem
<1>5. CASE UNCHANGED vars
  BY <1>5 DEF vars, scanner, parser, SettingsInv, Store1, Read, Text
<1>6. QED
  BY <1>1, <1>2, <1>3, <1>4, <1>5
     DEF Next, ParserStep, TakesItem, OpenFails, ScanOutOfStep, Truncated,
         Unquoted, Error, Fail, Accept, SettingsInv

(* What the closed section adds to those before it. *)
LEMMA PastWithOne ==
    ASSUME Text \in Seq(Items), Read \in Nat, Read + 1 \in 1..Len(Text),
           Text[Read + 1].sort = "close",
           NEW n \in 0..Read, n < Read, Begins(n + 1), NEW name
    PROVE  Past(name, Read + 1) =
              IF Text[n + 1].name = name THEN Past(name, n) \cup {n + 1}
              ELSE Past(name, n)
<1>1. DOMAIN Text = 1..Len(Text) /\ Len(Text) \in Nat
  OBVIOUS
<1>2. ASSUME NEW j \in Opened(Text, name)
      PROVE  j <= Read + 1 <=>
                j <= n \/ (j = n + 1 /\ Text[n + 1].name = name)
  <2>1. j \in 1..Len(Text) /\ Text[j].sort = "open" /\ Text[j].name = name
    BY <1>1, <1>2 DEF Opened
  <2>2. j \in (n + 2)..Read => Text[j].sort = "set"
    <3>1. (n + 1) + 1 = n + 2
      OBVIOUS
    <3>2. QED
      BY <3>1 DEF Begins
  <2>3. j # Read + 1
    BY <2>1
  <2>4. j <= Read + 1 => j <= n + 1
    BY <2>1, <2>2, <2>3
  <2>5. QED
    BY <2>1, <2>4
<1>3. Text[n + 1].name = name => n + 1 \in Opened(Text, name)
  BY <1>1 DEF Opened, Begins
<1>4. QED
  BY <1>2, <1>3 DEF Past

(* The sections that the Config has are the last of those that are over.   *)
LEMMA PastStep ==
    IInv /\ GrammarInv /\ PastInv /\ [Next]_vars => PastInv'
<1> SUFFICES ASSUME ScannerTypeOK, ParserTypeOK, cfg \in Configs, RestInv,
                    SectionInv, GrammarInv, PastInv, [Next]_vars
             PROVE  PastInv'
  BY TypeParts DEF IInv
<1>1. CASE phase' = "idle"
  BY <1>1 DEF PastInv
<1>2. ASSUME NEW f \in Files, Parse(f) PROVE PastInv'
  <2>1. Read' = 0 /\ sec' = "top" /\ cfg' = Cleared
    BY <1>2, ParseReadsNothing DEF Parse, Begin
  <2>2. \A name : Past(name, 0)' = {}
    <3>1. Text' \in Seq(Items)
      BY <1>2, FilesAssumption DEF Parse, Text, ScannerTypeOK
    <3>2. \A i \in DOMAIN Text' : ~(i <= 0)
      BY <3>1
    <3>3. QED
      BY <3>2 DEF Past, Opened
  <2>3. cfg'.runService = FALSE
    BY <2>1 DEF Cleared
  <2>4. HasPast(0)'
    BY <2>1, <2>2, <2>3 DEF HasPast
  <2>5. QED
    BY <2>1, <2>4 DEF PastInv
<1>3. CASE Refill
  <2>1. /\ Read' = Read /\ Text' = Text /\ phase = "parsing"
        /\ cfg' = cfg /\ sec' = sec
    BY <1>3, RefillReadsNothing
  <2>2. QED
    BY <2>1 DEF PastInv, HasPast, Past, Begins
<1>4. CASE TakesItem
  <2>1. /\ phase = "parsing" /\ Read \in Nat /\ Text[Read + 1] = Item
        /\ Read' = Read + 1 /\ Text' = Text
        /\ Read + 1 \in 1..Len(Text)
    BY <1>4, TakesItemTakes
  <2>2. PICK n \in 0..Read :
           /\ IF sec = "top" THEN n = Read ELSE n < Read /\ Begins(n + 1)
           /\ HasPast(n)
    BY <2>1 DEF PastInv
  <2>3. CASE OpenSection
    <3>1. /\ Item.sort = "open" /\ sec = "top" /\ cfg' = cfg
          /\ sec' # "top"
      BY <2>3 DEF OpenSection, Next1, Sections
    <3>2. n = Read /\ HasPast(n)'
      BY <2>1, <2>2, <3>1 DEF HasPast, Past
    <3>3. Begins(n + 1)'
      BY <2>1, <3>1, <3>2 DEF Begins
    <3>4. n \in 0..Read' /\ n < Read'
      BY <2>1
    <3>5. QED
      BY <3>1, <3>2, <3>3, <3>4 DEF PastInv
  <2>4. CASE Setting \/ SyslogSetting
    <3>1. Item.sort = "set" /\ sec # "top" /\ sec' = sec
      BY <2>4 DEF Setting, SyslogSetting, Next1, Allowed
    <3>2. /\ cfg'.runService = cfg.runService /\ cfg'.service = cfg.service
          /\ cfg'.weather = cfg.weather
      BY <2>4 DEF Setting, SyslogSetting, WithSyslog, Configs
    <3>3. HasPast(n)'
      BY <2>1, <2>2, <3>2 DEF HasPast, Past
    <3>4. Begins(n + 1)'
      <4>1. Begins(n + 1)
        BY <2>2, <3>1
      <4>2. \A k \in ((n + 1) + 1)..Read' :
               k = Read + 1 \/ k \in ((n + 1) + 1)..Read
        BY <2>1
      <4>3. QED
        BY <2>1, <3>1, <4>1, <4>2 DEF Begins
    <3>5. n \in 0..Read' /\ n < Read'
      BY <2>1
    <3>6. QED
      BY <3>1, <3>3, <3>4, <3>5 DEF PastInv
  <2>5. CASE CloseSection
    <3>1. /\ Item.sort = "close" /\ sec # "top" /\ sec' = "top"
          /\ cfg' = WithSection /\ sec \in Sections
      BY <2>5 DEF CloseSection, Next1, ParserTypeOK
    <3>2. n < Read /\ Begins(n + 1)
      BY <2>2, <3>1
    <3>3. PICK i \in 1..Read :
             Begun(i) /\ Body(Text, i) = (i + 1)..Read
      BY <2>5, ClosedIsWhole
    <3>4. i = n + 1
      BY <2>1, <3>2, <3>3, OneBegins DEF Begun, Begins
    <3>5. Text[n + 1].name = sec
      BY <3>3, <3>4 DEF Begun
    <3>6. Text \in Seq(Items) /\ DOMAIN Text = 1..Len(Text)
      BY DEF Text, ScannerTypeOK
    <3>0. PICK m \in Nat : m = Read + 1
      BY <2>1
    <3>7. \A name : Past(name, m) =
                       IF name = sec THEN Past(name, n) \cup {n + 1}
                       ELSE Past(name, n)
      BY <2>1, <3>0, <3>1, <3>2, <3>5, <3>6, PastWithOne
    <3>8. ASSUME NEW name
          PROVE  Last(Past(name, n) \cup {n + 1}) = n + 1
      <4>1. /\ Past(name, n) \cup {n + 1} \in SUBSET Nat
            /\ \A j \in Past(name, n) \cup {n + 1} : j <= n + 1
        BY <3>6 DEF Past, Opened
      <4>2. QED
        BY <4>1, LastIs
    <3>9. \A name : Past(name, m)' = Past(name, m)
      BY <2>1 DEF Past
    <3>10. CASE sec = "service"
      <4>1. /\ cfg'.runService = TRUE /\ cfg'.service = val
            /\ cfg'.weather = cfg.weather
        BY <3>1, <3>10 DEF WithSection, Configs
      <4>2. val = ServiceAt(Text, n + 1)
        BY <3>3, <3>4, <3>10, ServiceByKeys DEF Begun, ParserTypeOK
      <4>3. HasPast(m)'
        BY <2>1, <2>2, <3>7, <3>8, <3>9, <3>10, <4>1, <4>2 DEF HasPast
      <4>4. QED
        BY <2>1, <3>0, <3>1, <4>3 DEF PastInv
    <3>11. CASE sec = "weather"
      <4>1. /\ cfg'.runService = cfg.runService
            /\ cfg'.service = cfg.service /\ cfg'.weather = val
        BY <3>1, <3>11 DEF WithSection, Configs
      <4>2. val = WeatherAt(Text, n + 1)
        BY <3>3, <3>4, <3>11, WeatherByKeys DEF Begun, ParserTypeOK
      <4>3. HasPast(m)'
        BY <2>1, <2>2, <3>7, <3>8, <3>9, <3>11, <4>1, <4>2 DEF HasPast
      <4>4. QED
        BY <2>1, <3>0, <3>1, <4>3 DEF PastInv
    <3>12. CASE sec \in {"cache", "syslog"}
      <4>1. /\ cfg'.runService = cfg.runService
            /\ cfg'.service = cfg.service /\ cfg'.weather = cfg.weather
        BY <3>1, <3>12 DEF WithSection, Configs
      <4>2. HasPast(m)'
        BY <2>1, <2>2, <3>7, <3>9, <3>12, <4>1 DEF HasPast
      <4>3. QED
        BY <2>1, <3>0, <3>1, <4>2 DEF PastInv
    <3>13. QED
      BY <3>1, <3>10, <3>11, <3>12 DEF Sections
  <2>6. QED
    BY <1>4, <2>3, <2>4, <2>5 DEF TakesItem
<1>5. CASE UNCHANGED vars
  <2>1. Read' = Read /\ Text' = Text /\ UNCHANGED <<phase, sec, cfg>>
    BY <1>5 DEF vars, scanner, parser, Read, Text
  <2>2. QED
    BY <2>1 DEF PastInv, HasPast, Past, Begins
<1>6. QED
  BY <1>1, <1>2, <1>3, <1>4, <1>5
     DEF Next, ParserStep, TakesItem, OpenFails, ScanOutOfStep, Truncated,
         Unquoted, Error, Fail, Accept, PastInv

----------------------------------------------------------------------------
(* What a Parse returns. *)

(* What is accepted is fine throughout, and ends with a section's end. *)
LEMMA AcceptsIs ==
    ASSUME NEW f
    PROVE  Accepts(f) <=> /\ f # <<>> /\ f[Len(f)].sort = "close"
                          /\ \A i \in DOMAIN f : Fine(f, i)
BY DEF Accepts, Fine

(* A text is not accepted with an item that is not fine. *)
LEMMA ErrorRejects ==
    ASSUME ScannerTypeOK, ParserTypeOK, RestInv, SectionInv, GrammarInv,
           Error \/ Unquoted
    PROVE  ~Accepts(Text)
<1>1. phase = "parsing" /\ buf # <<>>
  BY DEF Error, Unquoted, Next1
<1>2. ~Takes
  BY DEF Error, Unquoted, Next1, Takes
<1>3. Read + 1 \in DOMAIN Text
  <2>1. Text \in Seq(Items) /\ Read + 1 \in 1..Len(Text)
    BY <1>1, TakenIsNext
  <2>2. QED
    BY <2>1
<1>4. QED
  BY <1>1, <1>2, <1>3, NextIsFine, AcceptsIs

(* At the end of the file all of the text has been read. *)
LEMMA EndIsEnd ==
    ASSUME ScannerTypeOK, RestInv, EndOfFile
    PROVE  /\ Read = Len(Text) /\ Read \in Nat /\ Text \in Seq(Items)
           /\ DOMAIN Text = 1..Read /\ phase = "parsing" /\ odd = FALSE
<1>1. Len(buf) = 0 /\ Len(src) = 0 /\ phase = "parsing" /\ odd = FALSE
  BY DEF EndOfFile, ScannerTypeOK
<1>2. Text \in Seq(Items) /\ Len(Text) \in Nat
  BY DEF Text, ScannerTypeOK
<1>3. Read = Len(Text)
  BY <1>1, <1>2 DEF Read
<1>4. QED
  BY <1>1, <1>2, <1>3

(* A text is not accepted that ends in a section, or has none. *)
LEMMA TruncatedRejects ==
    ASSUME ScannerTypeOK, ParserTypeOK, RestInv, SectionInv, GrammarInv,
           Truncated
    PROVE  ~Accepts(Text)
<1>1. EndOfFile /\ ~(sec = "top" /\ some)
  BY DEF Truncated
<1>2. /\ Read = Len(Text) /\ Read \in Nat /\ Text \in Seq(Items)
      /\ phase = "parsing"
  BY <1>1, EndIsEnd
<1>3. CASE sec = "top"
  <2>1. ~(Read > 0)
    BY <1>1, <1>2, <1>3 DEF GrammarInv
  <2>2. Text = <<>>
    BY <1>2, <2>1
  <2>3. QED
    BY <2>2, AcceptsIs
<1>4. CASE sec # "top"
  <2>1. Text[Read].sort # "close"
    BY <1>2, <1>4, Before DEF ParserTypeOK
  <2>2. QED
    BY <1>2, <2>1, AcceptsIs
<1>5. QED
  BY <1>3, <1>4

(* A Config of its members. *)
LEMMA ConfigByMembers ==
    ASSUME NEW c \in Configs, NEW d \in Configs,
           c.store = d.store, c.syslog = d.syslog,
           c.runService <=> d.runService, c.service = d.service,
           c.weather = d.weather
    PROVE  c = d
BY DEF Configs

(* The end of an accepted text: the Config is what it means. *)
LEMMA AcceptMeans ==
    ASSUME ScannerTypeOK, ParserTypeOK, cfg \in Configs, RestInv, SectionInv,
           GrammarInv, SettingsInv, PastInv, Accept
    PROVE  Accepts(Text) /\ cfg' = Meaning(Text)
<1>1. /\ EndOfFile /\ sec = "top" /\ some
      /\ cfg' = [cfg EXCEPT !.service = Filled(cfg.service)]
  BY DEF Accept
<1>2. /\ Read = Len(Text) /\ Read \in Nat /\ Text \in Seq(Items)
      /\ DOMAIN Text = 1..Read /\ phase = "parsing"
  BY <1>1, EndIsEnd
<1>3. Accepts(Text)
  <2>1. Read > 0 /\ Text[Read].sort = "close"
    BY <1>1, <1>2 DEF GrammarInv
  <2>2. \A i \in DOMAIN Text : Fine(Text, i)
    BY <1>2 DEF GrammarInv
  <2>3. Text # <<>>
    BY <1>2, <2>1
  <2>4. QED
    BY <1>2, <2>1, <2>2, <2>3, AcceptsIs
<1>4. cfg.store = ValueIn(Text, "store", DOMAIN Text, Cleared.store)
  BY <1>1, <1>2 DEF SettingsInv, Store1
<1> DEFINE syslog ==
        [k \in KeysOf.syslog |->
            IF k # "logLocations"
            THEN ValueIn(Text, k, DOMAIN Text, Cleared.syslog[k])
            ELSE IF \E i \in DOMAIN Text : Text[i] = Set(k, "yes")
                 THEN "yes" ELSE "no"]
<1>5. cfg.syslog = syslog
  <2>1. cfg.syslog = [k \in KeysOf.syslog |-> cfg.syslog[k]]
    BY DEF Configs, KeysOf
  <2>2. ASSUME NEW k \in KeysOf.syslog
        PROVE  cfg.syslog[k] = syslog[k]
    <3>1. CASE k = "logLocations"
      BY <1>2, <3>1 DEF SettingsInv
    <3>2. CASE k # "logLocations"
      <4>1. k \in {"facility", "level"}
        BY <3>2 DEF KeysOf
      <4>2. cfg.syslog[k] = ValueIn(Text, k, DOMAIN Text, Cleared.syslog[k])
        BY <1>2, <4>1 DEF SettingsInv
      <4>3. QED
        BY <3>2, <4>2
    <3>3. QED
      BY <3>1, <3>2
  <2>3. QED
    BY <2>1, <2>2
<1>6. HasPast(Read)
  BY <1>1, <1>2 DEF PastInv
<1>7. \A name : Past(name, Read) = Opened(Text, name)
  BY <1>2 DEF Past, Opened
<1> DEFINE services == Opened(Text, "service")
           weathers == Opened(Text, "weather")
           service == IF services = {} THEN Cleared.service
                      ELSE ServiceAt(Text, Last(services))
           weather == IF weathers = {} THEN Cleared.weather
                      ELSE WeatherAt(Text, Last(weathers))
<1>8. /\ cfg.runService <=> services # {}
      /\ cfg.service = service /\ cfg.weather = weather
  BY <1>6, <1>7 DEF HasPast
<1>9. Meaning(Text) =
         [store |-> ValueIn(Text, "store", DOMAIN Text, Cleared.store),
          syslog |-> syslog, runService |-> services # {},
          service |-> Filled(service), weather |-> weather]
  BY Zenon DEF Meaning
<1> HIDE DEF syslog, services, service, weather
<1> DEFINE run == services # {}
<1>10. /\ cfg'.store = cfg.store /\ cfg'.syslog = cfg.syslog
       /\ cfg'.service = Filled(cfg.service)
       /\ cfg'.weather = cfg.weather
       /\ cfg' = [store |-> cfg'.store, syslog |-> cfg'.syslog,
                  runService |-> cfg.runService,
                  service |-> cfg'.service, weather |-> cfg'.weather]
  BY <1>1 DEF Configs
<1>11. cfg.runService = run
  <2>1. cfg.runService \in BOOLEAN
    BY DEF Configs
  <2>2. QED
    BY <1>8, <2>1
<1> HIDE DEF run
<1>12. Meaning(Text) =
          [store |-> cfg'.store, syslog |-> cfg'.syslog,
           runService |-> run,
           service |-> cfg'.service, weather |-> cfg'.weather]
  BY <1>4, <1>5, <1>8, <1>9, <1>10, Zenon DEF run
<1>13. QED
  BY <1>3, <1>10, <1>11, <1>12, Zenon

(* A Parse returns what the grammar says, and leaves the meaning. *)
LEMMA ExactStep ==
    IInv /\ ExactInv /\ [Next]_vars => ParseIsExact'
<1> SUFFICES ASSUME ScannerTypeOK, ParserTypeOK, cfg \in Configs, RestInv,
                    SectionInv, OddInv, GrammarInv, SettingsInv, PastInv,
                    ParseIsExact, [Next]_vars
             PROVE  ParseIsExact'
  BY TypeParts DEF IInv, ExactInv
<1>1. CASE phase' = "parsing"
  BY <1>1 DEF ParseIsExact
<1>2. CASE OpenFails
  <2>1. rc' = FALSE /\ Text' = <<>>
    BY <1>2 DEF OpenFails, Text
  <2>2. ~Accepts(Text)'
    BY <2>1, AcceptsIs
  <2>3. QED
    BY <2>1, <2>2 DEF ParseIsExact, Text
<1>3. ASSUME rc' = FALSE, Text' = Text, oddAhead' = oddAhead,
             oddAhead \/ ~Accepts(Text)
      PROVE  ParseIsExact'
  BY <1>3 DEF ParseIsExact, Text
<1>4. CASE ScanOutOfStep \/ Truncated \/ Unquoted \/ Error
  <2>1. rc' = FALSE /\ Text' = Text /\ oddAhead' = oddAhead
    BY <1>4 DEF ScanOutOfStep, Truncated, Unquoted, Error, Fail, Text
  <2>2. oddAhead \/ ~Accepts(Text)
    <3>1. CASE ScanOutOfStep
      BY <3>1 DEF ScanOutOfStep, OddInv
    <3>2. CASE Truncated
      BY <3>2, TruncatedRejects
    <3>3. CASE Unquoted \/ Error
      BY <3>3, ErrorRejects
    <3>4. QED
      BY <1>4, <3>1, <3>2, <3>3
  <2>3. QED
    BY <1>3, <2>1, <2>2
<1>5. CASE Accept
  <2>1. Accepts(Text) /\ cfg' = Meaning(Text)
    BY <1>5, AcceptMeans
  <2>2. /\ rc' = TRUE /\ Text' = Text /\ buf' = <<>> /\ odd' = odd
        /\ oddAhead' = oddAhead /\ EndOfFile
    BY <1>5 DEF Accept, EndOfFile, scanner, Text
  <2>3. odd = FALSE /\ oddAhead = FALSE
    BY <2>2, EndIsEnd DEF OddInv
  <2>4. QED
    BY <2>1, <2>2, <2>3 DEF ParseIsExact, Text
<1>6. CASE UNCHANGED vars
  BY <1>6 DEF vars, scanner, ParseIsExact
<1>7. QED
  BY <1>1, <1>2, <1>4, <1>5, <1>6
     DEF Next, ParserStep, Parse, Refill, OpenSection, Setting,
         SyslogSetting, CloseSection, Next1, Taken

LEMMA ExactInit == Init => ExactInv
<1> SUFFICES ASSUME Init PROVE ExactInv
  OBVIOUS
<1>1. OddInv /\ GrammarInv /\ SettingsInv /\ PastInv
  BY DEF Init, OddInv, GrammarInv, SettingsInv, PastInv
<1>2. Text = <<>> /\ rc = FALSE
  BY DEF Init, Text
<1>3. ~Accepts(Text)
  BY <1>2, AcceptsIs
<1>4. ParseIsExact
  BY <1>2, <1>3 DEF ParseIsExact, Text
<1>5. QED
  BY <1>1, <1>4 DEF ExactInv

LEMMA ExactInductive == Spec => []ExactInv
<1>1. IInv /\ ExactInv /\ [Next]_vars => ExactInv'
  <2>1. IInv => ScannerTypeOK
    BY TypeParts DEF IInv
  <2>2. QED
    BY <2>1, OddStep, GrammarStep, SettingsStep, PastStep, ExactStep
       DEF ExactInv
<1>2. QED
  BY <1>1, ExactInit, Inductive, PTL DEF Spec

(* For any files, parsed one after the other in one process, however each  *)
(* of them fails: the parser accepts what the grammar does, with what is   *)
(* left in the scanner ahead of it, and the Config it makes is what the    *)
(* text means.                                                             *)
THEOREM ParsesExactly == Spec => []ParseIsExact
<1>1. ExactInv => ParseIsExact
  BY DEF ExactInv
<1>2. QED
  BY <1>1, ExactInductive, PTL

----------------------------------------------------------------------------
(* What is written can be parsed. *)

(* A service without a value that the parser refuses; an empty key         *)
(* directory is one that is not set.                                       *)
IsGoodService(service) ==
    \A k \in KeysOf.service :
        \/ service[k] \notin Refused
        \/ k = "keyDirectory" /\ service[k] = ""

(* A Config without such a value. *)
IsGood(c) ==
    /\ c.store \notin Refused
    /\ IsGoodService(c.service)
    /\ c.syslog.facility \notin Refused /\ c.syslog.level \notin Refused
    /\ c.syslog.logLocations \in {"yes", "no"}

(* Nor has the section that is open one, once something is set in it, and  *)
(* a Parse that succeeds leaves the service with addresses.                *)
GoodInv ==
    /\ IsGood(cfg)
    /\ sec = "cache" /\ some => val.store \notin Refused
    /\ sec = "service" => IsGoodService(val)
    /\ phase = "idle" /\ rc => cfg.service.addresses # "none"

(* The keys of a service, and what a new one has of them. *)
LEMMA ServiceKeys ==
    /\ KeysOf.service = {"addresses", "keyDirectory", "allowedClients"}
    /\ NewService["addresses"] = "none" /\ NewService["keyDirectory"] = ""
    /\ NewService["allowedClients"] = "none"
BY DEF KeysOf, NewService

LEMMA ClearedIsGood == IsGood(Cleared)
<1> DEFINE s == Cleared.service
<1>1. /\ s["addresses"] = "none" /\ s["allowedClients"] = "none"
      /\ s["keyDirectory"] = "/usr/local/etc/mcweatherd"
  BY DEF Cleared, ClearedService, NewService
<1>2. /\ Cleared.store = "/tmp/weatherCache"
      /\ Cleared.syslog.facility = "daemon"
      /\ Cleared.syslog.level = "info" /\ Cleared.syslog.logLocations = "no"
  BY DEF Cleared
<1> HIDE DEF s
<1>3. IsGoodService(s)
  BY <1>1, ServiceKeys DEF IsGoodService, Refused
<1>4. QED
  BY <1>2, <1>3 DEF IsGood, Refused, s

LEMMA GoodStep == TypeOK /\ GoodInv /\ [Next]_vars => GoodInv'
<1> SUFFICES ASSUME ScannerTypeOK, ParserTypeOK, cfg \in Configs, GoodInv,
                    [Next]_vars
             PROVE  GoodInv'
  BY TypeParts
<1>1. ASSUME NEW f \in Files, Parse(f) PROVE GoodInv'
  BY <1>1, ClearedIsGood DEF Parse, Begin, GoodInv
<1>2. CASE OpenFails
  BY <1>2, ClearedIsGood DEF OpenFails, parser, GoodInv
<1>3. CASE Refill
  BY <1>3 DEF Refill, parser, GoodInv
<1>4. ASSUME NEW left, Fail(left) PROVE GoodInv'
  BY <1>4 DEF Fail, GoodInv
<1>5. CASE ScanOutOfStep \/ Truncated \/ Unquoted \/ Error
  BY <1>4, <1>5 DEF ScanOutOfStep, Truncated, Unquoted, Error
<1>6. CASE OpenSection
  <2>1. /\ phase' = "parsing" /\ cfg' = cfg
        /\ sec' = "cache" => val' = [store |-> ""]
        /\ sec' = "service" => val' = NewService
    BY <1>6 DEF OpenSection, Next1, Taken
  <2>2. IsGoodService(NewService)
    BY ServiceKeys DEF IsGoodService, Refused
  <2>3. some' = FALSE
    BY <1>6 DEF OpenSection
  <2>4. sec' = "service" => IsGoodService(val')
    BY <2>1, <2>2
  <2>5. QED
    BY <2>1, <2>3, <2>4 DEF GoodInv
<1>7. CASE Setting
  <2>1. /\ phase' = "parsing" /\ cfg' = cfg /\ sec' = sec
        /\ Next1("set") /\ Allowed /\ sec # "syslog"
        /\ val' = WithSetting(Item.name, Item.val)
    BY <1>7 DEF Setting, Next1, Taken
  <2>2. Item.val \notin Refused
    BY <2>1 DEF Allowed
  <2>3. sec = "cache" => val'.store \notin Refused
    BY <2>1, <2>2 DEF WithSetting
  <2>4. ASSUME sec = "service" PROVE IsGoodService(val')
    <3>1. val' = [val EXCEPT ![Item.name] = Item.val] /\ val \in Services
      BY <2>1, <2>4 DEF WithSetting, ServiceWith, ParserTypeOK
    <3>2. \A k \in KeysOf.service :
             val'[k] = IF Item.name = k THEN Item.val ELSE val[k]
      BY <2>4, <3>1 DEF Services, KeysOf
    <3>3. IsGoodService(val)
      BY <2>4 DEF GoodInv
    <3>4. QED
      BY <2>2, <3>2, <3>3 DEF IsGoodService
  <2>5. QED
    BY <2>1, <2>3, <2>4 DEF GoodInv
<1>8. CASE SyslogSetting
  <2>1. /\ phase' = "parsing" /\ sec' = sec /\ val' = val /\ sec = "syslog"
        /\ Next1("set") /\ Allowed
        /\ cfg' = WithSyslog(Item.name, Item.val)
    BY <1>8 DEF SyslogSetting, Next1, Taken
  <2>2. /\ Item.val \notin Refused
        /\ Item.name \in {"facility", "level", "logLocations"}
    BY <2>1, AllowedSetting DEF Allowed, KeysOf
  <2>3. cfg'.store = cfg.store /\ cfg'.service = cfg.service
    BY <2>1 DEF WithSyslog, Configs
  <2>4. \A k \in {"facility", "level"} :
           cfg'.syslog[k] \in {Item.val, cfg.syslog[k]}
    BY <2>1, <2>2 DEF WithSyslog, Configs
  <2>5. cfg'.syslog.logLocations \in {"yes", cfg.syslog.logLocations}
    BY <2>1, <2>2 DEF WithSyslog, Configs
  <2>6. IsGood(cfg)'
    BY <2>2, <2>3, <2>4, <2>5 DEF GoodInv, IsGood
  <2>7. QED
    BY <2>1, <2>6 DEF GoodInv
<1>9. CASE CloseSection
  <2>1. phase' = "parsing" /\ sec' = "top" /\ cfg' = WithSection /\ some
    BY <1>9 DEF CloseSection, Next1, Taken
  <2>2. /\ cfg'.store = IF sec = "cache" THEN val.store ELSE cfg.store
        /\ cfg'.service = IF sec = "service" THEN val ELSE cfg.service
        /\ cfg'.syslog = cfg.syslog
    BY <2>1 DEF WithSection, Configs
  <2>3. QED
    BY <2>1, <2>2 DEF GoodInv, IsGood
<1>10. CASE Accept
  <2>1. /\ sec' = sec /\ sec = "top"
        /\ cfg' = [cfg EXCEPT !.service = Filled(cfg.service)]
    BY <1>10 DEF Accept, parser
  <2>2. /\ cfg'.store = cfg.store /\ cfg'.syslog = cfg.syslog
        /\ cfg'.service = Filled(cfg.service) /\ cfg.service \in Services
    BY <2>1 DEF Configs
  <2>3. /\ Filled(cfg.service).addresses # "none"
        /\ \A k \in KeysOf.service :
              Filled(cfg.service)[k] \in {"any", cfg.service[k]}
    BY <2>2 DEF Filled, Services, KeysOf
  <2>4. IsGoodService(cfg.service)
    BY DEF GoodInv, IsGood
  <2>5. IsGoodService(Filled(cfg.service))
    BY <2>3, <2>4 DEF IsGoodService, Refused, Filled
  <2>6. QED
    BY <2>1, <2>2, <2>3, <2>5 DEF GoodInv, IsGood
<1>11. CASE UNCHANGED vars
  BY <1>11 DEF vars, parser, GoodInv
<1>12. QED
  BY <1>1, <1>2, <1>3, <1>5, <1>6, <1>7, <1>8, <1>9, <1>10, <1>11
     DEF Next, ParserStep

LEMMA GoodInductive == Spec => []GoodInv
<1>1. Init => GoodInv
  BY ClearedIsGood DEF Init, GoodInv
<1>2. QED
  BY <1>1, GoodStep, TypeCorrect, PTL DEF Spec

(* The items of a section. *)
IsSection(f, name, settings) ==
    /\ Len(f) = Len(settings) + 2
    /\ f[1] = Open(name)
    /\ \A i \in 1..Len(settings) : f[i + 1] = settings[i]
    /\ f[Len(settings) + 2] = Plain("close")

LEMMA SectionIs ==
    ASSUME NEW S, NEW settings \in Seq(S), NEW name, Open(name) \in S,
           Plain("close") \in S
    PROVE  /\ Section(name, settings) \in Seq(S)
           /\ IsSection(Section(name, settings), name, settings)
<1> DEFINE first == Open(name)
           end == Plain("close")
<1>1. Section(name, settings) = (<<first>> \o settings) \o <<end>>
  BY DEF Section
<1>2. first \in S /\ end \in S
  OBVIOUS
<1> HIDE DEF first, end
<1> DEFINE begun == <<first>> \o settings
<1>3. /\ begun \in Seq(S) /\ Len(begun) = Len(settings) + 1
      /\ begun[1] = first
      /\ \A i \in 1..Len(settings) : begun[i + 1] = settings[i]
  BY <1>2
<1> HIDE DEF begun
<1>4. /\ begun \o <<end>> \in Seq(S)
      /\ Len(begun \o <<end>>) = Len(begun) + 1
      /\ \A i \in 1..Len(begun) : (begun \o <<end>>)[i] = begun[i]
      /\ (begun \o <<end>>)[Len(begun) + 1] = end
  BY <1>2, <1>3
<1> DEFINE f == begun \o <<end>>
<1>5. f \in Seq(S) /\ Len(f) = Len(settings) + 2
  BY <1>3, <1>4
<1>6. f[1] = first
  BY <1>3, <1>4
<1>7. \A i \in 1..Len(settings) : f[i + 1] = settings[i]
  <2>1. \A i \in 1..Len(settings) : i + 1 \in 1..Len(begun)
    BY <1>3
  <2>2. QED
    BY <1>3, <1>4, <2>1
<1>8. f[Len(settings) + 2] = end
  <2>1. Len(begun) + 1 = Len(settings) + 2
    BY <1>3
  <2>2. QED
    BY <1>4, <2>1
<1> HIDE DEF f
<1>9. IsSection(f, name, settings)
  BY <1>5, <1>6, <1>7, <1>8 DEF IsSection, first, end
<1>10. QED
  BY <1>1, <1>5, <1>9 DEF f, begun

(* The settings of a service: of each key that has a value one, which is   *)
(* it.                                                                     *)
SettingsOf(service) ==
       Unless("none", "addresses", service.addresses)
    \o Unless("", "keyDirectory", service.keyDirectory)
    \o Unless("none", "allowedClients", service.allowedClients)

AreSettings(s, service) ==
    /\ Len(s) \in 1..3
    /\ \A i \in 1..Len(s) : \E k \in KeysOf.service :
          s[i] = Set(k, service[k])
    /\ \A k \in KeysOf.service :
          IF service[k] = NewService[k]
          THEN \A i \in 1..Len(s) : s[i].name # k
          ELSE \E n \in 1..Len(s) :
                  /\ s[n] = Set(k, service[k])
                  /\ \A i \in 1..Len(s) : s[i].name = k => i = n

(* What is in a setting. *)
LEMMA SetIs ==
    ASSUME NEW k, NEW v
    PROVE  Set(k, v).sort = "set" /\ Set(k, v).name = k /\ Set(k, v).val = v
BY DEF Set

(* Where the elements of two sequences are in one. *)
IsJoined(both, s, t) ==
    /\ Len(both) = Len(s) + Len(t)
    /\ \A i \in 1..Len(s) : both[i] = s[i]
    /\ \A i \in 1..Len(t) : both[Len(s) + i] = t[i]

LEMMA Joined ==
    ASSUME NEW S, NEW s \in Seq(S), NEW t \in Seq(S)
    PROVE  s \o t \in Seq(S) /\ IsJoined(s \o t, s, t)
BY DEF IsJoined

(* A sequence and one element, or none. *)
LEMMA JoinedOne ==
    ASSUME NEW S, NEW s \in Seq(S), NEW x \in S
    PROVE  s \o <<>> = s /\ s \o <<x>> = Append(s, x)
<1>1. s \o <<>> = s
  OBVIOUS
<1>2. s \o <<x>> = Append(s, x)
  OBVIOUS
<1>3. QED
  BY <1>1, <1>2

(* Short sequences by their elements. *)
LEMMA ShortAppends ==
    ASSUME NEW S, NEW a \in S, NEW b \in S, NEW c \in S
    PROVE  Append(<<a>>, b) = <<a, b>> /\ Append(<<a, b>>, c) = <<a, b, c>>
<1> DEFINE one == <<a>>
           two == <<a, b>>
           three == <<a, b, c>>
<1>1. one \in Seq(S) /\ Len(one) = 1 /\ one[1] = a
  OBVIOUS
<1>2. two \in Seq(S) /\ Len(two) = 2 /\ two[1] = a /\ two[2] = b
  OBVIOUS
<1>3. /\ three \in Seq(S) /\ Len(three) = 3
      /\ three[1] = a /\ three[2] = b /\ three[3] = c
  OBVIOUS
<1> HIDE DEF one, two, three
<1>4. Append(one, b) = two
  <2> DEFINE t == Append(one, b)
  <2>1. t \in Seq(S) /\ Len(t) = 2 /\ t[1] = a /\ t[2] = b
    <3>1. /\ t \in Seq(S) /\ Len(t) = Len(one) + 1
          /\ \A i \in 1..Len(one) : t[i] = one[i]
          /\ t[Len(one) + 1] = b
      BY <1>1, AppendProperties
    <3> HIDE DEF t
    <3>2. QED
      BY <1>1, <3>1
  <2> HIDE DEF t
  <2>2. \A i \in 1..2 : t[i] = two[i]
    <3>1. \A i \in 1..2 : i = 1 \/ i = 2
      OBVIOUS
    <3>2. QED
      BY <1>2, <2>1, <3>1
  <2>3. t = two
    BY <1>2, <2>1, <2>2
  <2>4. QED
    BY <2>3 DEF t
<1>5. Append(two, c) = three
  <2> DEFINE t == Append(two, c)
  <2>1. /\ t \in Seq(S) /\ Len(t) = 3
        /\ t[1] = a /\ t[2] = b /\ t[3] = c
    <3>1. /\ t \in Seq(S) /\ Len(t) = Len(two) + 1
          /\ \A i \in 1..Len(two) : t[i] = two[i]
          /\ t[Len(two) + 1] = c
      BY <1>2, AppendProperties
    <3> HIDE DEF t
    <3>2. 1 \in 1..Len(two) /\ 2 \in 1..Len(two) /\ Len(t) = 3
      BY <1>2, <3>1
    <3>3. t[1] = two[1] /\ t[2] = two[2] /\ t[3] = c
      BY <1>2, <3>1, <3>2
    <3>4. QED
      BY <1>2, <3>1, <3>2, <3>3
  <2> HIDE DEF t
  <2>2. \A i \in 1..3 : t[i] = three[i]
    <3>1. \A i \in 1..3 : i = 1 \/ i = 2 \/ i = 3
      OBVIOUS
    <3>2. QED
      BY <1>3, <2>1, <3>1
  <2>3. t = three
    BY <1>3, <2>1, <2>2
  <2>4. QED
    BY <2>3 DEF t
<1>6. QED
  BY <1>4, <1>5 DEF one, two, three

LEMMA SettingsAre ==
    ASSUME NEW service \in Services, service.addresses # "none"
    PROVE  /\ SettingsOf(service) \in
                 Seq({Set(k, service[k]) : k \in KeysOf.service})
           /\ AreSettings(SettingsOf(service), service)
<1> DEFINE A == "addresses"
           K == "keyDirectory"
           C == "allowedClients"
           a == Set(A, service[A])
           k1 == Set(K, service[K])
           c == Set(C, service[C])
           S == {Set(k, service[k]) : k \in KeysOf.service}
           s == SettingsOf(service)
           None(x, n) == \A i \in 1..n : s[i] # x
           One(x, n) == \E i \in 1..n :
                           s[i] = x /\ \A j \in 1..n : s[j] = x => j = i
<1>1. KeysOf.service = {A, K, C} /\ A # K /\ A # C /\ K # C
  BY ServiceKeys
<1>2. /\ a \in S /\ k1 \in S /\ c \in S
      /\ a.name = A /\ k1.name = K /\ c.name = C
  BY <1>1, SetIs
<1>3. service[A] # NewService[A]
  BY ServiceKeys
<1>4. s = (<<a>> \o (IF service[K] = NewService[K] THEN <<>> ELSE <<k1>>))
              \o (IF service[C] = NewService[C] THEN <<>> ELSE <<c>>)
  BY <1>3, ServiceKeys DEF SettingsOf, Unless
<1> HIDE DEF a, k1, c, S, s
<1>5. ASSUME NEW n \in 1..3, s \in Seq(S), Len(s) = n, s[1] = a,
             \A i \in 1..n : i = 1 \/ s[i] \in {k1, c},
             IF service[K] = NewService[K] THEN None(k1, n) ELSE One(k1, n),
             IF service[C] = NewService[C] THEN None(c, n) ELSE One(c, n)
      PROVE  s \in Seq(S) /\ AreSettings(s, service)
  <2>1. \A i \in 1..n : s[i] \in {a, k1, c} /\ (s[i] = a => i = 1)
    BY <1>1, <1>2, <1>5
  <2>2. \A i \in 1..n : \E k \in KeysOf.service : s[i] = Set(k, service[k])
    BY <1>1, <2>1 DEF a, k1, c
  <2>3. /\ \A i \in 1..n : s[i].name = A => s[i] = a
        /\ \A i \in 1..n : s[i].name = K <=> s[i] = k1
        /\ \A i \in 1..n : s[i].name = C <=> s[i] = c
    BY <1>1, <1>2, <2>1
  <2>4. \E i \in 1..n : s[i] = a /\ \A j \in 1..n : s[j].name = A => j = i
    <3>1. 1 \in 1..n
      OBVIOUS
    <3>2. QED
      BY <1>5, <2>1, <2>3, <3>1
  <2>5. IF service[K] = NewService[K] THEN \A i \in 1..n : s[i].name # K
        ELSE \E i \in 1..n : s[i] = k1 /\ \A j \in 1..n :
                                             s[j].name = K => j = i
    BY <1>5, <2>3
  <2>6. IF service[C] = NewService[C] THEN \A i \in 1..n : s[i].name # C
        ELSE \E i \in 1..n : s[i] = c /\ \A j \in 1..n :
                                            s[j].name = C => j = i
    BY <1>5, <2>3
  <2>7. Len(s) \in 1..3
    BY <1>5
  <2>8. ASSUME NEW k \in KeysOf.service
        PROVE  IF service[k] = NewService[k]
               THEN \A i \in 1..Len(s) : s[i].name # k
               ELSE \E i \in 1..Len(s) :
                       /\ s[i] = Set(k, service[k])
                       /\ \A j \in 1..Len(s) : s[j].name = k => j = i
    <3>1. CASE k = A
      BY <1>3, <1>5, <2>4, <3>1 DEF a
    <3>2. CASE k = K
      BY <1>5, <2>5, <3>2 DEF k1
    <3>3. CASE k = C
      BY <1>5, <2>6, <3>3 DEF c
    <3>4. QED
      BY <1>1, <3>1, <3>2, <3>3
  <2>9. QED
    BY <1>5, <2>2, <2>7, <2>8 DEF AreSettings
<1>6. a # k1 /\ a # c /\ k1 # c
  BY <1>1, <1>2
<1>7. /\ <<a>> \o <<>> = <<a>>
      /\ <<a>> \o <<k1>> = <<a, k1>> /\ <<a>> \o <<c>> = <<a, c>>
      /\ <<a, k1>> \o <<>> = <<a, k1>>
      /\ <<a, k1>> \o <<c>> = <<a, k1, c>>
  <2>1. <<a>> \in Seq(S) /\ <<a, k1>> \in Seq(S)
    BY <1>2
  <2>2. /\ Append(<<a>>, k1) = <<a, k1>> /\ Append(<<a>>, c) = <<a, c>>
        /\ Append(<<a, k1>>, c) = <<a, k1, c>>
    BY <1>2, ShortAppends
  <2>3. /\ <<a>> \o <<>> = <<a>>
        /\ <<a>> \o <<k1>> = Append(<<a>>, k1)
        /\ <<a>> \o <<c>> = Append(<<a>>, c)
    BY <1>2, <2>1, JoinedOne
  <2>4. /\ <<a, k1>> \o <<>> = <<a, k1>>
        /\ <<a, k1>> \o <<c>> = Append(<<a, k1>>, c)
    BY <1>2, <2>1, JoinedOne
  <2>5. QED
    BY <2>2, <2>3, <2>4
<1>8. ASSUME service[K] = NewService[K] /\ service[C] = NewService[C]
      PROVE  s \in Seq(S) /\ AreSettings(s, service)
  <2>1. s = <<a>>
    BY <1>4, <1>7, <1>8
  <2>2. s \in Seq(S) /\ Len(s) = 1 /\ s[1] = a
    BY <1>2, <2>1
  <2>3. None(k1, 1) /\ None(c, 1) /\ \A i \in 1..1 : i = 1
    BY <1>6, <2>2
  <2>4. 1 \in 1..3 /\ \A i \in 1..1 : i = 1 \/ s[i] \in {k1, c}
    BY <2>2, <2>3
  <2> HIDE DEF None, One
  <2>5. QED
    BY <1>5, <1>8, <2>2, <2>3, <2>4, Zenon
<1>9. ASSUME service[K] # NewService[K] /\ service[C] = NewService[C]
      PROVE  s \in Seq(S) /\ AreSettings(s, service)
  <2>1. s = <<a, k1>>
    BY <1>4, <1>7, <1>9
  <2>2. s \in Seq(S) /\ Len(s) = 2 /\ s[1] = a /\ s[2] = k1
    BY <1>2, <2>1
  <2>3. 2 \in 1..2 /\ \A i \in 1..2 : i = 1 \/ i = 2
    OBVIOUS
  <2>4. One(k1, 2) /\ None(c, 2)
    BY <1>6, <2>2, <2>3
  <2>5. 2 \in 1..3 /\ \A i \in 1..2 : i = 1 \/ s[i] \in {k1, c}
    BY <2>2, <2>3
  <2> HIDE DEF None, One
  <2>6. QED
    BY <1>5, <1>9, <2>2, <2>3, <2>4, <2>5, Zenon
<1>10. ASSUME service[K] = NewService[K] /\ service[C] # NewService[C]
       PROVE  s \in Seq(S) /\ AreSettings(s, service)
  <2>1. s = <<a, c>>
    BY <1>4, <1>7, <1>10
  <2>2. s \in Seq(S) /\ Len(s) = 2 /\ s[1] = a /\ s[2] = c
    BY <1>2, <2>1
  <2>3. 2 \in 1..2 /\ \A i \in 1..2 : i = 1 \/ i = 2
    OBVIOUS
  <2>4. None(k1, 2) /\ One(c, 2)
    BY <1>6, <2>2, <2>3
  <2>5. 2 \in 1..3 /\ \A i \in 1..2 : i = 1 \/ s[i] \in {k1, c}
    BY <2>2, <2>3
  <2> HIDE DEF None, One
  <2>6. QED
    BY <1>5, <1>10, <2>2, <2>3, <2>4, <2>5, Zenon
<1>11. ASSUME service[K] # NewService[K] /\ service[C] # NewService[C]
       PROVE  s \in Seq(S) /\ AreSettings(s, service)
  <2>1. s = <<a, k1, c>>
    BY <1>4, <1>7, <1>11
  <2>2. s \in Seq(S) /\ Len(s) = 3 /\ s[1] = a /\ s[2] = k1 /\ s[3] = c
    BY <1>2, <2>1
  <2>3. {2, 3} \subseteq 1..3 /\ \A i \in 1..3 : i \in {1, 2, 3}
    OBVIOUS
  <2>4. One(k1, 3) /\ One(c, 3)
    BY <1>6, <2>2, <2>3
  <2>5. 3 \in 1..3 /\ \A i \in 1..3 : i = 1 \/ s[i] \in {k1, c}
    BY <2>2, <2>3
  <2> HIDE DEF None, One
  <2>6. QED
    BY <1>5, <1>11, <2>2, <2>3, <2>4, <2>5, Zenon
<1>12. QED
  BY <1>8, <1>9, <1>10, <1>11, Zenon DEF s, S

(* What the configuration is as text, position by position: s is what is   *)
(* in its service section.                                                 *)
IsDump(f, c, s) ==
    /\ DOMAIN f = 1..Len(f) /\ Len(f) = Len(s) + 10
    /\ f[1] = Open("cache") /\ f[2] = Set("store", c.store)
    /\ f[3] = Plain("close")
    /\ f[4] = Open("service")
    /\ \A i \in 1..Len(s) : f[i + 4] = s[i]
    /\ f[Len(s) + 5] = Plain("close")
    /\ f[Len(s) + 6] = Open("syslog")
    /\ f[Len(s) + 7] = Set("facility", c.syslog.facility)
    /\ f[Len(s) + 8] = Set("level", c.syslog.level)
    /\ f[Len(s) + 9] = Set("logLocations", c.syslog.logLocations)
    /\ f[Len(s) + 10] = Plain("close")

LEMMA DumpIs ==
    ASSUME NEW c, c.service \in Services, c.service.addresses # "none"
    PROVE  IsDump(Dump(c), c, SettingsOf(c.service))
<1> DEFINE s == SettingsOf(c.service)
           sets == {Set(k, c.service[k]) : k \in KeysOf.service}
           store == Set("store", c.store)
           fac == Set("facility", c.syslog.facility)
           lev == Set("level", c.syslog.level)
           loc == Set("logLocations", c.syslog.logLocations)
           S == {Open(name) : name \in Sections} \cup {Plain("close")}
                   \cup {store, fac, lev, loc} \cup sets
           three == <<fac, lev, loc>>
           A == Section("cache", <<store>>)
           B == Section("service", s)
           C == Section("syslog", three)
<1>1. s \in Seq(sets) /\ Len(s) \in 1..3
  BY SettingsAre DEF AreSettings
<1>2. Dump(c) = (A \o B) \o C
  BY DEF Dump, DumpService, SettingsOf
<1>3. /\ store \in S /\ fac \in S /\ lev \in S /\ loc \in S
      /\ sets \subseteq S /\ Plain("close") \in S
      /\ Open("cache") \in S /\ Open("service") \in S /\ Open("syslog") \in S
  BY DEF Sections
<1> HIDE DEF s, sets, store, fac, lev, loc, S
<1>4. s \in Seq(S)
  BY <1>1, <1>3
<1>5. <<store>> \in Seq(S) /\ Len(<<store>>) = 1 /\ <<store>>[1] = store
  BY <1>3
<1>6. /\ three \in Seq(S) /\ Len(three) = 3
      /\ three[1] = fac /\ three[2] = lev /\ three[3] = loc
  BY <1>3
<1> DEFINE one == <<store>>
<1> HIDE DEF one, three, A, B, C
<1>7. A \in Seq(S) /\ IsSection(A, "cache", one)
  BY <1>3, <1>5, SectionIs DEF one, A
<1>8. B \in Seq(S) /\ IsSection(B, "service", s)
  BY <1>3, <1>4, SectionIs DEF B
<1>9. C \in Seq(S) /\ IsSection(C, "syslog", three)
  BY <1>3, <1>6, SectionIs DEF C
<1>10. A \o B \in Seq(S) /\ IsJoined(A \o B, A, B)
  BY <1>7, <1>8, Joined
<1> DEFINE AB == A \o B
<1> HIDE DEF AB
<1>11. AB \o C \in Seq(S) /\ IsJoined(AB \o C, AB, C)
  BY <1>9, <1>10, Joined DEF AB
<1> DEFINE f == AB \o C
<1> HIDE DEF f
<1> DEFINE m == Len(s)
<1>12. /\ Len(A) = 3 /\ A[1] = Open("cache") /\ A[2] = store
       /\ A[3] = Plain("close")
  <2>1. Len(one) = 1 /\ one[1] = store
    BY <1>5 DEF one
  <2>2. 1 \in 1..1 /\ 1 + 1 = 2 /\ 1 + 2 = 3
    OBVIOUS
  <2>3. QED
    BY <1>7, <2>1, <2>2 DEF IsSection
<1>13. /\ Len(B) = m + 2 /\ B[1] = Open("service")
       /\ \A i \in 1..m : B[i + 1] = s[i]
       /\ B[m + 2] = Plain("close")
  BY <1>8 DEF IsSection
<1>14. /\ Len(C) = 5 /\ C[1] = Open("syslog")
       /\ C[2] = fac /\ C[3] = lev /\ C[4] = loc /\ C[5] = Plain("close")
  <2>1. /\ 1 \in 1..3 /\ 2 \in 1..3 /\ 3 \in 1..3
        /\ 1 + 1 = 2 /\ 2 + 1 = 3 /\ 3 + 1 = 4 /\ 3 + 2 = 5
    OBVIOUS
  <2>2. QED
    BY <1>6, <1>9, <2>1 DEF IsSection
<1> HIDE DEF m
<1>15. m \in 1..3
  BY <1>1 DEF m
<1>16. /\ Len(AB) = m + 5
       /\ \A i \in 1..3 : AB[i] = A[i]
       /\ \A i \in 1..(m + 2) : AB[3 + i] = B[i]
  BY <1>10, <1>12, <1>13, <1>15 DEF IsJoined, AB
<1>17. /\ Len(f) = m + 10
       /\ \A i \in 1..(m + 5) : f[i] = AB[i]
       /\ \A i \in 1..5 : f[m + 5 + i] = C[i]
  BY <1>11, <1>14, <1>15, <1>16 DEF IsJoined, f
<1>18. /\ f[1] = Open("cache") /\ f[2] = store /\ f[3] = Plain("close")
  BY <1>12, <1>15, <1>16, <1>17
<1>19. \A i \in 1..(m + 2) : f[3 + i] = B[i]
  BY <1>15, <1>16, <1>17
<1>20. f[4] = Open("service")
  <2>1. 1 \in 1..(m + 2) /\ 3 + 1 = 4
    BY <1>15
  <2>2. QED
    BY <1>13, <1>19, <2>1
<1>21. ASSUME NEW i \in 1..m PROVE f[i + 4] = s[i]
  <2>1. i + 1 \in 1..(m + 2) /\ 3 + (i + 1) = i + 4
    BY <1>15
  <2>2. QED
    BY <1>13, <1>19, <2>1
<1>22. f[m + 5] = Plain("close")
  <2>1. m + 2 \in 1..(m + 2) /\ 3 + (m + 2) = m + 5
    BY <1>15
  <2>2. QED
    BY <1>13, <1>19, <2>1
<1>23. /\ f[m + 6] = Open("syslog") /\ f[m + 7] = fac /\ f[m + 8] = lev
       /\ f[m + 9] = loc /\ f[m + 10] = Plain("close")
  <2>1. /\ 1 \in 1..5 /\ 2 \in 1..5 /\ 3 \in 1..5 /\ 4 \in 1..5 /\ 5 \in 1..5
        /\ m + 5 + 1 = m + 6 /\ m + 5 + 2 = m + 7 /\ m + 5 + 3 = m + 8
        /\ m + 5 + 4 = m + 9 /\ m + 5 + 5 = m + 10
    BY <1>15
  <2>2. QED
    BY <1>14, <1>17, <2>1
<1>24. DOMAIN f = 1..Len(f)
  BY <1>11 DEF f
<1>25. IsDump(f, c, s)
  BY <1>17, <1>18, <1>20, <1>21, <1>22, <1>23, <1>24
     DEF IsDump, m, store, fac, lev, loc
<1>26. QED
  BY <1>2, <1>25 DEF f, AB, s

(* From the opened section at i to the next item of another sort at j,     *)
(* there are only settings.                                                *)
SetsUpTo(f, i, j) ==
    /\ i \in 1..Len(f) /\ j \in 1..Len(f) /\ i < j
    /\ f[j].sort # "set"
    /\ \A k \in (i + 1)..(j - 1) : f[k].sort = "set"

(* The settings of a section are those before the next item of another     *)
(* sort.                                                                   *)
LEMMA BodyIs ==
    ASSUME NEW f, Len(f) \in Nat, DOMAIN f = 1..Len(f), NEW i, NEW j,
           SetsUpTo(f, i, j)
    PROVE  Body(f, i) = (i + 1)..(j - 1)
<1> DEFINE n == Len(f)
<1>1. /\ n \in Nat /\ DOMAIN f = 1..n /\ i \in 1..n /\ j \in 1..n /\ i < j
      /\ f[j].sort # "set"
      /\ \A k \in (i + 1)..(j - 1) : f[k].sort = "set"
  BY DEF SetsUpTo
<1> HIDE DEF n
<1>2. ASSUME NEW k \in Body(f, i) PROVE k \in (i + 1)..(j - 1)
  <2>1. k \in 1..n /\ k > i /\ \A l \in (i + 1)..k : f[l].sort = "set"
    BY <1>1, <1>2 DEF Body
  <2>2. ~(j <= k)
    BY <1>1, <2>1
  <2>3. QED
    BY <1>1, <2>1, <2>2
<1>3. ASSUME NEW k \in (i + 1)..(j - 1) PROVE k \in Body(f, i)
  <2>1. k \in 1..n /\ k > i
    BY <1>1
  <2>2. \A l \in (i + 1)..k : l \in (i + 1)..(j - 1)
    BY <1>1
  <2>3. QED
    BY <1>1, <2>1, <2>2 DEF Body
<1>4. QED
  BY <1>2, <1>3

(* The sorts of what is written, and where its sections are. *)
IsLaidOut(f, m) ==
    /\ f[1].sort = "open" /\ f[1].name = "cache" /\ f[2].sort = "set"
    /\ f[3].sort = "close"
    /\ f[4].sort = "open" /\ f[4].name = "service"
    /\ \A i \in 5..(m + 4) : f[i].sort = "set"
    /\ f[m + 5].sort = "close"
    /\ f[m + 6].sort = "open" /\ f[m + 6].name = "syslog"
    /\ \A i \in (m + 7)..(m + 9) : f[i].sort = "set"
    /\ f[m + 10].sort = "close"
    /\ Body(f, 1) = 2..2 /\ Body(f, 4) = 5..(m + 4)
    /\ Body(f, m + 6) = (m + 7)..(m + 9)

LEMMA DumpLaidOut ==
    ASSUME NEW f, NEW c, NEW s, NEW service, AreSettings(s, service),
           IsDump(f, c, s)
    PROVE  IsLaidOut(f, Len(s))
<1> DEFINE m == Len(s)
<1>1. m \in 1..3 /\ \A i \in 1..m : s[i].sort = "set"
  BY SetIs DEF AreSettings
<1>2. /\ \A name : Open(name).sort = "open" /\ Open(name).name = name
      /\ Plain("close").sort = "close"
  BY DEF Open, Plain
<1>3. DOMAIN f = 1..Len(f) /\ Len(f) = m + 10
  BY DEF IsDump
<1>4. /\ f[1].sort = "open" /\ f[1].name = "cache" /\ f[2].sort = "set"
      /\ f[3].sort = "close"
      /\ f[4].sort = "open" /\ f[4].name = "service"
      /\ f[m + 5].sort = "close"
      /\ f[m + 6].sort = "open" /\ f[m + 6].name = "syslog"
      /\ f[m + 7].sort = "set" /\ f[m + 8].sort = "set"
      /\ f[m + 9].sort = "set" /\ f[m + 10].sort = "close"
  BY <1>2, SetIs DEF IsDump
<1>5. \A i \in 1..m : f[i + 4].sort = "set"
  BY <1>1 DEF IsDump
<1> HIDE DEF m
<1>6. ASSUME NEW i \in 5..(m + 4) PROVE f[i].sort = "set"
  <2>1. i - 4 \in 1..m /\ (i - 4) + 4 = i
    BY <1>1
  <2>2. QED
    BY <1>5, <2>1
<1>7. ASSUME NEW i \in (m + 7)..(m + 9) PROVE f[i].sort = "set"
  <2>1. i = m + 7 \/ i = m + 8 \/ i = m + 9
    BY <1>1
  <2>2. QED
    BY <1>4, <2>1
<1>8. m + 10 \in Nat /\ f[3].sort # "set" /\ f[m + 5].sort # "set"
      /\ f[m + 10].sort # "set"
  BY <1>1, <1>4
<1>9. Body(f, 1) = 2..2
  <2>1. /\ 1 \in 1..(m + 10) /\ 3 \in 1..(m + 10) /\ 1 < 3
        /\ 1 + 1 = 2 /\ 3 - 1 = 2
        /\ \A k \in 2..2 : k = 2
    BY <1>1
  <2>2. SetsUpTo(f, 1, 3)
    BY <1>1, <1>3, <1>4, <2>1 DEF SetsUpTo
  <2>3. Body(f, 1) = (1 + 1)..(3 - 1)
    BY <1>3, <1>8, <2>2, BodyIs
  <2>4. QED
    BY <2>1, <2>3
<1>10. Body(f, 4) = 5..(m + 4)
  <2>1. /\ 4 \in 1..(m + 10) /\ m + 5 \in 1..(m + 10) /\ 4 < m + 5
        /\ 4 + 1 = 5 /\ (m + 5) - 1 = m + 4
    BY <1>1
  <2>2. SetsUpTo(f, 4, m + 5)
    BY <1>3, <1>6, <1>8, <2>1 DEF SetsUpTo
  <2>3. Body(f, 4) = (4 + 1)..((m + 5) - 1)
    BY <1>3, <1>8, <2>2, BodyIs
  <2>4. QED
    BY <2>1, <2>3
<1>11. Body(f, m + 6) = (m + 7)..(m + 9)
  <2>1. /\ m + 6 \in 1..(m + 10) /\ m + 10 \in 1..(m + 10)
        /\ m + 6 < m + 10
        /\ (m + 6) + 1 = m + 7 /\ (m + 10) - 1 = m + 9
    BY <1>1
  <2>2. SetsUpTo(f, m + 6, m + 10)
    BY <1>3, <1>7, <1>8, <2>1 DEF SetsUpTo
  <2>3. Body(f, m + 6) = ((m + 6) + 1)..((m + 10) - 1)
    BY <1>3, <1>8, <2>2, BodyIs
  <2>4. QED
    BY <2>1, <2>3
<1>12. QED
  BY <1>4, <1>6, <1>7, <1>9, <1>10, <1>11 DEF IsLaidOut, m

(* Where each item of what is written is, or may be. *)
LEMMA Positions ==
    ASSUME NEW m \in 1..3, NEW i \in 1..(m + 10)
    PROVE  \/ i = 1 \/ i = 2 \/ i = 3 \/ i = 4 \/ i \in 5..(m + 4)
           \/ i = m + 5 \/ i = m + 6 \/ i = m + 7 \/ i = m + 8
           \/ i = m + 9 \/ i = m + 10
OBVIOUS

(* A setting of one section, before it is looked at where. *)
LEMMA SettingIsFine ==
    ASSUME NEW f, NEW i, NEW j \in DOMAIN f, f[i].sort = "set",
           f[i].val \notin Refused, f[j].sort = "open", i \in Body(f, j),
           f[i].name \in KeysOf[f[j].name],
           f[j].name = "cache" => i = j + 1
    PROVE  Fine(f, i)
BY DEF Fine

(* What is written of a good Config can be parsed. *)
LEMMA DumpAccepted ==
    ASSUME NEW c, IsGood(c), c.service \in Services, NEW f, NEW s,
           AreSettings(s, c.service), IsDump(f, c, s)
    PROVE  Accepts(f)
<1> DEFINE m == Len(s)
<1>1. m \in 1..3 /\ IsLaidOut(f, m) /\ DOMAIN f = 1..(m + 10)
      /\ Len(f) = m + 10
  <2>1. IsLaidOut(f, m)
    BY DumpLaidOut
  <2>2. QED
    BY <2>1 DEF AreSettings, IsDump
<1>2. KeysOf["cache"] = {"store"} /\ KeysOf["service"] = KeysOf.service
      /\ KeysOf["syslog"] = {"facility", "level", "logLocations"}
  BY DEF KeysOf
<1>3. /\ f[2].name = "store" /\ f[2].val \notin Refused
      /\ f[m + 7].name = "facility" /\ f[m + 7].val \notin Refused
      /\ f[m + 8].name = "level" /\ f[m + 8].val \notin Refused
      /\ f[m + 9].name = "logLocations" /\ f[m + 9].val \notin Refused
  <2>1. /\ c.store \notin Refused
        /\ c.syslog.facility \notin Refused
        /\ c.syslog.level \notin Refused
        /\ c.syslog.logLocations \in {"yes", "no"}
    BY DEF IsGood
  <2>2. "yes" \notin Refused /\ "no" \notin Refused
    BY DEF Refused
  <2>3. c.syslog.logLocations \notin Refused
    BY <2>1, <2>2
  <2>4. /\ f[2] = Set("store", c.store)
        /\ f[m + 7] = Set("facility", c.syslog.facility)
        /\ f[m + 8] = Set("level", c.syslog.level)
        /\ f[m + 9] = Set("logLocations", c.syslog.logLocations)
    BY DEF IsDump
  <2>5. QED
    BY <2>1, <2>3, <2>4, SetIs
<1>4. ASSUME NEW i \in 5..(m + 4)
      PROVE  f[i].name \in KeysOf.service /\ f[i].val \notin Refused
  <2>1. i - 4 \in 1..m /\ (i - 4) + 4 = i
    BY <1>1
  <2>2. f[i] = s[i - 4]
    BY <2>1 DEF IsDump
  <2>3. PICK k \in KeysOf.service : s[i - 4] = Set(k, c.service[k])
    BY <2>1 DEF AreSettings
  <2>4. s[i - 4].name = k /\ s[i - 4].val = c.service[k]
    BY <2>3, SetIs
  <2>5. c.service[k] # NewService[k]
    BY <2>1, <2>4 DEF AreSettings
  <2>6. c.service[k] \notin Refused
    BY <2>5, ServiceKeys DEF IsGood, IsGoodService
  <2>. QED
    BY <2>2, <2>4, <2>6
<1> HIDE DEF m
<1>5. Fine(f, 1)
  <2>1. f[1].sort = "open" /\ f[1].name \in Sections
    BY <1>1 DEF IsLaidOut, Sections
  <2>2. QED
    BY <2>1 DEF Fine
<1>6. Fine(f, 2)
  <2>1. /\ 1 \in DOMAIN f /\ 2 \in Body(f, 1) /\ f[1].sort = "open"
        /\ f[1].name = "cache" /\ f[2].sort = "set" /\ 2 = 1 + 1
    BY <1>1 DEF IsLaidOut
  <2>2. QED
    BY <1>2, <1>3, <2>1, SettingIsFine
<1>7. Fine(f, 3) /\ Fine(f, 4)
  <2>1. /\ f[3 - 1].sort = "set" /\ f[3].sort = "close"
        /\ f[4 - 1].sort = "close" /\ f[4].sort = "open"
        /\ f[4].name \in Sections
    BY <1>1 DEF IsLaidOut, Sections
  <2>2. QED
    BY <2>1 DEF Fine
<1>8. ASSUME NEW i \in 5..(m + 4) PROVE Fine(f, i)
  <2>1. /\ 4 \in DOMAIN f /\ i \in Body(f, 4) /\ f[4].sort = "open"
        /\ f[4].name = "service" /\ f[i].sort = "set"
    BY <1>1 DEF IsLaidOut
  <2>2. QED
    BY <1>2, <1>4, <2>1, SettingIsFine
<1>9. Fine(f, m + 5)
  <2>1. m + 4 \in 5..(m + 4) /\ (m + 5) - 1 = m + 4 /\ m + 5 # 1
    BY <1>1
  <2>2. f[(m + 5) - 1].sort = "set" /\ f[m + 5].sort = "close"
    BY <1>1, <2>1 DEF IsLaidOut
  <2>3. QED
    BY <2>1, <2>2 DEF Fine
<1>10. Fine(f, m + 6)
  <2>1. (m + 6) - 1 = m + 5 /\ m + 6 # 1
    BY <1>1
  <2>2. /\ f[(m + 6) - 1].sort = "close" /\ f[m + 6].sort = "open"
        /\ f[m + 6].name \in Sections
    BY <1>1, <2>1 DEF IsLaidOut, Sections
  <2>3. QED
    BY <2>1, <2>2 DEF Fine
<1>11. ASSUME NEW i \in (m + 7)..(m + 9) PROVE Fine(f, i)
  <2>1. i = m + 7 \/ i = m + 8 \/ i = m + 9
    BY <1>1
  <2>2. /\ m + 6 \in DOMAIN f /\ i \in Body(f, m + 6)
        /\ f[m + 6].sort = "open" /\ f[m + 6].name = "syslog"
        /\ f[i].sort = "set"
    BY <1>1 DEF IsLaidOut
  <2>3. f[i].name \in KeysOf["syslog"] /\ f[i].val \notin Refused
    BY <1>2, <1>3, <2>1
  <2>4. QED
    BY <2>2, <2>3, SettingIsFine
<1>12. Fine(f, m + 10)
  <2>1. m + 9 \in (m + 7)..(m + 9) /\ (m + 10) - 1 = m + 9 /\ m + 10 # 1
    BY <1>1
  <2>2. f[(m + 10) - 1].sort = "set" /\ f[m + 10].sort = "close"
    BY <1>1, <2>1 DEF IsLaidOut
  <2>3. QED
    BY <2>1, <2>2 DEF Fine
<1>13. ASSUME NEW i \in DOMAIN f PROVE Fine(f, i)
  <2>1. /\ m + 7 \in (m + 7)..(m + 9) /\ m + 8 \in (m + 7)..(m + 9)
        /\ m + 9 \in (m + 7)..(m + 9)
    BY <1>1
  <2>2. \/ i = 1 \/ i = 2 \/ i = 3 \/ i = 4 \/ i \in 5..(m + 4)
        \/ i = m + 5 \/ i = m + 6 \/ i = m + 7 \/ i = m + 8
        \/ i = m + 9 \/ i = m + 10
    BY <1>1, Positions
  <2>3. QED
    BY <1>5, <1>6, <1>7, <1>8, <1>9, <1>10, <1>11, <1>12, <2>1, <2>2
<1>14. f # <<>> /\ f[Len(f)].sort = "close"
  <2>1. f[m + 10].sort = "close"
    BY <1>1, Zenon DEF IsLaidOut
  <2>2. 1 \in DOMAIN f
    BY <1>1
  <2>3. QED
    BY <1>1, <2>1, <2>2
<1>15. QED
  BY <1>13, <1>14, AcceptsIs
(* The only setting of a key is the one at n, and it counts. *)
IsOnly(f, key, positions, n) ==
    /\ n \in positions /\ f[n].sort = "set" /\ f[n].name = key
    /\ \A i \in positions : f[i].sort = "set" /\ f[i].name = key => i = n

LEMMA ValueOfOnly ==
    ASSUME NEW f, NEW key, NEW positions \in SUBSET Nat, NEW n,
           NEW default, IsOnly(f, key, positions, n)
    PROVE  ValueIn(f, key, positions, default) = f[n].val
<1> DEFINE found == {i \in positions : f[i].sort = "set" /\ f[i].name = key}
<1>1. found \in SUBSET Nat /\ n \in found /\ \A i \in found : i = n
  BY DEF IsOnly
<1>2. ValueIn(f, key, positions, default) =
         IF found = {} THEN default ELSE f[Last(found)].val
  BY DEF ValueIn
<1> HIDE DEF found
<1>3. Last(found) = n
  <2>1. n \in Nat /\ \A i \in found : i <= n
    BY <1>1
  <2>2. QED
    BY <1>1, <2>1, LastIs
<1>4. QED
  BY <1>1, <1>2, <1>3

LEMMA ValueOfNone ==
    ASSUME NEW f, NEW key, NEW positions, NEW default,
           \A i \in positions : f[i].sort = "set" => f[i].name # key
    PROVE  ValueIn(f, key, positions, default) = default
BY DEF ValueIn

(* What is at each position of what is written: the names of the settings  *)
(* and of the sections.                                                    *)
NamesAre(f, m) ==
    /\ \A i \in DOMAIN f : f[i].sort = "set" =>
          \/ i = 2 /\ f[i].name = "store"
          \/ i \in 5..(m + 4) /\ f[i].name \in KeysOf.service
          \/ i = m + 7 /\ f[i].name = "facility"
          \/ i = m + 8 /\ f[i].name = "level"
          \/ i = m + 9 /\ f[i].name = "logLocations"
    /\ \A i \in DOMAIN f : f[i].sort = "open" =>
          \/ i = 1 /\ f[i].name = "cache"
          \/ i = 4 /\ f[i].name = "service"
          \/ i = m + 6 /\ f[i].name = "syslog"

LEMMA DumpNames ==
    ASSUME NEW f, NEW c, NEW s, NEW service, AreSettings(s, service),
           IsDump(f, c, s)
    PROVE  NamesAre(f, Len(s))
<1> DEFINE m == Len(s)
<1>1. m \in 1..3 /\ IsLaidOut(f, m) /\ DOMAIN f = 1..(m + 10)
  <2>1. IsLaidOut(f, m)
    BY DumpLaidOut
  <2>2. QED
    BY <2>1 DEF AreSettings, IsDump
<1>2. /\ f[2].name = "store"
      /\ f[m + 7].name = "facility" /\ f[m + 8].name = "level"
      /\ f[m + 9].name = "logLocations"
  BY SetIs DEF IsDump
<1>3. ASSUME NEW i \in 5..(m + 4) PROVE f[i].name \in KeysOf.service
  <2>1. i - 4 \in 1..m /\ (i - 4) + 4 = i
    BY <1>1
  <2>2. f[i] = s[i - 4]
    BY <2>1 DEF IsDump
  <2>3. PICK k \in KeysOf.service : s[i - 4] = Set(k, service[k])
    BY <2>1 DEF AreSettings
  <2>4. QED
    BY <2>2, <2>3, SetIs
<1> HIDE DEF m
<1>4. /\ f[1].sort = "open" /\ f[1].name = "cache" /\ f[2].sort = "set"
      /\ f[3].sort = "close"
      /\ f[4].sort = "open" /\ f[4].name = "service"
      /\ \A i \in 5..(m + 4) : f[i].sort = "set"
      /\ f[m + 5].sort = "close"
      /\ f[m + 6].sort = "open" /\ f[m + 6].name = "syslog"
      /\ f[m + 7].sort = "set" /\ f[m + 8].sort = "set"
      /\ f[m + 9].sort = "set"
      /\ f[m + 10].sort = "close"
  <2>1. /\ m + 7 \in (m + 7)..(m + 9) /\ m + 8 \in (m + 7)..(m + 9)
        /\ m + 9 \in (m + 7)..(m + 9)
    BY <1>1
  <2>2. QED
    BY <1>1, <2>1 DEF IsLaidOut
<1>5. ASSUME NEW i \in DOMAIN f
      PROVE  \/ i = 1 \/ i = 2 \/ i = 3 \/ i = 4 \/ i \in 5..(m + 4)
             \/ i = m + 5 \/ i = m + 6 \/ i = m + 7 \/ i = m + 8
             \/ i = m + 9 \/ i = m + 10
  BY <1>1, Positions
<1>6. ASSUME NEW i \in DOMAIN f, f[i].sort = "set"
      PROVE  \/ i = 2 /\ f[i].name = "store"
             \/ i \in 5..(m + 4) /\ f[i].name \in KeysOf.service
             \/ i = m + 7 /\ f[i].name = "facility"
             \/ i = m + 8 /\ f[i].name = "level"
             \/ i = m + 9 /\ f[i].name = "logLocations"
  <2>1. i = 2 \/ i \in 5..(m + 4) \/ i = m + 7 \/ i = m + 8 \/ i = m + 9
    BY <1>4, <1>5, <1>6
  <2>2. QED
    BY <1>2, <1>3, <2>1
<1>7. ASSUME NEW i \in DOMAIN f, f[i].sort = "open"
      PROVE  \/ i = 1 /\ f[i].name = "cache"
             \/ i = 4 /\ f[i].name = "service"
             \/ i = m + 6 /\ f[i].name = "syslog"
  <2>1. i = 1 \/ i = 4 \/ i = m + 6
    BY <1>4, <1>5, <1>7
  <2>2. QED
    BY <1>4, <2>1
<1>8. QED
  BY <1>6, <1>7, Zenon DEF NamesAre, m

(* What is written of a Config means that Config, with a service that is   *)
(* run, and without its weather.                                           *)
LEMMA DumpMeans ==
    ASSUME NEW c \in Configs, IsGood(c), c.service.addresses # "none",
           NEW f, NEW s, AreSettings(s, c.service), IsDump(f, c, s)
    PROVE  Meaning(f) = [c EXCEPT !.runService = TRUE, !.weather = NewWeather]
<1> DEFINE m == Len(s)
<1>1. m \in 1..3 /\ IsLaidOut(f, m) /\ NamesAre(f, m)
      /\ DOMAIN f = 1..(m + 10)
  <2>1. IsLaidOut(f, m) /\ NamesAre(f, m)
    BY DumpLaidOut, DumpNames
  <2>2. QED
    BY <2>1 DEF AreSettings, IsDump
<1>2. /\ f[2] = Set("store", c.store)
      /\ f[m + 7] = Set("facility", c.syslog.facility)
      /\ f[m + 8] = Set("level", c.syslog.level)
      /\ f[m + 9] = Set("logLocations", c.syslog.logLocations)
      /\ \A i \in 1..m : f[i + 4] = s[i]
  BY DEF IsDump
<1>3. /\ "store" \notin KeysOf.service /\ "facility" \notin KeysOf.service
      /\ "level" \notin KeysOf.service
      /\ "logLocations" \notin KeysOf.service
  BY ServiceKeys
<1>4. \A k \in KeysOf.service :
         IF c.service[k] = NewService[k]
         THEN \A i \in 1..m : s[i].name # k
         ELSE \E n \in 1..m :
                 /\ s[n] = Set(k, c.service[k])
                 /\ \A i \in 1..m : s[i].name = k => i = n
  BY DEF AreSettings
<1> HIDE DEF m
<1>5. 2 \in DOMAIN f /\ m + 7 \in DOMAIN f /\ m + 8 \in DOMAIN f
      /\ m + 9 \in DOMAIN f /\ DOMAIN f \in SUBSET Nat
  BY <1>1
<1>6. ValueIn(f, "store", DOMAIN f, Cleared.store) = c.store
  <2>1. IsOnly(f, "store", DOMAIN f, 2)
    BY <1>1, <1>2, <1>3, <1>5, SetIs DEF IsOnly, NamesAre
  <2>2. ValueIn(f, "store", DOMAIN f, Cleared.store) = f[2].val
    BY <1>5, <2>1, ValueOfOnly
  <2>3. QED
    BY <1>2, <2>2, SetIs
<1>7. ValueIn(f, "facility", DOMAIN f, Cleared.syslog["facility"]) =
         c.syslog.facility
  <2>1. IsOnly(f, "facility", DOMAIN f, m + 7)
    BY <1>1, <1>2, <1>3, <1>5, SetIs DEF IsOnly, NamesAre
  <2>2. ValueIn(f, "facility", DOMAIN f, Cleared.syslog["facility"]) =
           f[m + 7].val
    BY <1>5, <2>1, ValueOfOnly
  <2>3. QED
    BY <1>2, <2>2, SetIs
<1>8. ValueIn(f, "level", DOMAIN f, Cleared.syslog["level"]) =
         c.syslog.level
  <2>1. IsOnly(f, "level", DOMAIN f, m + 8)
    BY <1>1, <1>2, <1>3, <1>5, SetIs DEF IsOnly, NamesAre
  <2>2. ValueIn(f, "level", DOMAIN f, Cleared.syslog["level"]) =
           f[m + 8].val
    BY <1>5, <2>1, ValueOfOnly
  <2>3. QED
    BY <1>2, <2>2, SetIs
<1>9. (\E i \in DOMAIN f : f[i] = Set("logLocations", "yes"))
         <=> c.syslog.logLocations = "yes"
  <2>1. ASSUME NEW i \in DOMAIN f, f[i] = Set("logLocations", "yes")
        PROVE  c.syslog.logLocations = "yes"
    <3>1. /\ f[i].sort = "set" /\ f[i].name = "logLocations"
          /\ f[i].val = "yes"
      BY <2>1, SetIs
    <3>2. i = m + 9
      BY <1>1, <1>3, <3>1 DEF NamesAre
    <3>3. QED
      BY <1>2, <3>1, <3>2, SetIs
  <2>2. QED
    BY <1>2, <1>5, <2>1
<1> DEFINE syslog ==
        [k \in KeysOf.syslog |->
            IF k # "logLocations"
            THEN ValueIn(f, k, DOMAIN f, Cleared.syslog[k])
            ELSE IF \E i \in DOMAIN f : f[i] = Set(k, "yes")
                 THEN "yes" ELSE "no"]
<1>10. syslog = c.syslog
  <2>1. c.syslog = [k \in KeysOf.syslog |-> c.syslog[k]]
    BY DEF Configs, KeysOf
  <2>2. ASSUME NEW k \in KeysOf.syslog PROVE syslog[k] = c.syslog[k]
    <3>1. CASE k = "logLocations"
      BY <1>9, <3>1 DEF IsGood
    <3>2. CASE k = "facility"
      BY <1>7, <3>2
    <3>3. CASE k = "level"
      BY <1>8, <3>3
    <3>4. k \in {"facility", "level", "logLocations"}
      BY DEF KeysOf
    <3>5. QED
      BY <3>1, <3>2, <3>3, <3>4
  <2>3. QED
    BY <2>1, <2>2
<1>11. Opened(f, "service") = {4} /\ Opened(f, "weather") = {}
  <2>1. 4 \in DOMAIN f /\ f[4].sort = "open" /\ f[4].name = "service"
    BY <1>1 DEF IsLaidOut
  <2>2. QED
    BY <1>1, <2>1 DEF Opened, NamesAre
<1>12. Last({4}) = 4
  BY LastIs
<1>13. ASSUME NEW k \in KeysOf.service
       PROVE  ValueIn(f, k, 5..(m + 4), NewService[k]) = c.service[k]
  <2> DEFINE P == 5..(m + 4)
             d == NewService[k]
  <2>1. /\ P \in SUBSET Nat /\ P \subseteq DOMAIN f
        /\ \A i \in P : i - 4 \in 1..m /\ (i - 4) + 4 = i
        /\ \A i \in 1..m : i + 4 \in P /\ (i + 4) - 4 = i
    BY <1>1
  <2> HIDE DEF P
  <2>2. \A i \in P : f[i] = s[i - 4]
    BY <1>2, <2>1
  <2>3. c.service[k] = d => \A i \in 1..m : s[i].name # k
    BY <1>4
  <2>4. c.service[k] # d =>
           \E n \in 1..m : /\ s[n] = Set(k, c.service[k])
                          /\ \A i \in 1..m : s[i].name = k => i = n
    BY <1>4
  <2> HIDE DEF d
  <2>5. ASSUME c.service[k] = d
        PROVE  ValueIn(f, k, P, d) = c.service[k]
    <3>1. \A i \in P : f[i].name # k
      BY <2>1, <2>2, <2>3, <2>5
    <3>2. QED
      BY <2>5, <3>1, ValueOfNone
  <2>6. ASSUME c.service[k] # d
        PROVE  ValueIn(f, k, P, d) = c.service[k]
    <3>1. PICK n \in 1..m : /\ s[n] = Set(k, c.service[k])
                            /\ \A i \in 1..m : s[i].name = k => i = n
      BY <2>4, <2>6
    <3>2. f[n + 4] = Set(k, c.service[k])
      BY <1>2, <3>1
    <3>3. \A i \in P : f[i].name = k => i = n + 4
      BY <2>1, <2>2, <3>1
    <3>4. IsOnly(f, k, P, n + 4)
      BY <2>1, <3>2, <3>3, SetIs DEF IsOnly
    <3>5. ValueIn(f, k, P, d) = f[n + 4].val
      BY <2>1, <3>4, ValueOfOnly
    <3>6. QED
      BY <3>2, <3>5, SetIs
  <2>7. QED
    BY <2>5, <2>6 DEF P, d
<1>14. ServiceAt(f, 4) = c.service
  <2>1. Body(f, 4) = 5..(m + 4)
    BY <1>1 DEF IsLaidOut
  <2>2. c.service = [k \in KeysOf.service |-> c.service[k]]
    BY DEF Configs, Services, KeysOf
  <2>3. QED
    BY <1>13, <2>1, <2>2 DEF ServiceAt
<1> DEFINE services == Opened(f, "service")
           weathers == Opened(f, "weather")
           service == IF services = {} THEN Cleared.service
                      ELSE ServiceAt(f, Last(services))
           weather == IF weathers = {} THEN Cleared.weather
                      ELSE WeatherAt(f, Last(weathers))
<1>15. services # {} /\ service = c.service /\ weather = NewWeather
  BY <1>11, <1>12, <1>14 DEF Cleared
<1>16. Meaning(f) =
          [store |-> ValueIn(f, "store", DOMAIN f, Cleared.store),
           syslog |-> syslog, runService |-> services # {},
           service |-> Filled(service), weather |-> weather]
  BY Zenon DEF Meaning
<1> HIDE DEF syslog, services, service, weather
<1>17. Filled(c.service) = c.service
  BY DEF Filled
<1> DEFINE run == services # {}
<1>18. run = TRUE
  BY <1>15
<1> HIDE DEF run
<1>19. Meaning(f) =
          [store |-> c.store, syslog |-> c.syslog, runService |-> run,
           service |-> c.service, weather |-> NewWeather]
  BY <1>6, <1>10, <1>15, <1>16, <1>17, Zenon DEF run
<1>20. [c EXCEPT !.runService = TRUE, !.weather = NewWeather] =
          [store |-> c.store, syslog |-> c.syslog, runService |-> TRUE,
           service |-> c.service, weather |-> NewWeather]
  <2> DEFINE d == [c EXCEPT !.runService = TRUE, !.weather = NewWeather]
             e == [store |-> c.store, syslog |-> c.syslog,
                   runService |-> TRUE, service |-> c.service,
                   weather |-> NewWeather]
  <2>1. d \in Configs /\ e \in Configs
    <3>1. NewWeather \in Weathers
      BY <1>15, TextsAssumption DEF NewWeather, Weathers
    <3>2. QED
      BY <3>1 DEF Configs
  <2>2. /\ d.store = e.store /\ d.syslog = e.syslog
        /\ d.runService <=> e.runService
        /\ d.service = e.service /\ d.weather = e.weather
    BY DEF Configs
  <2> HIDE DEF d, e
  <2>3. d = e
    BY <2>1, <2>2, ConfigByMembers
  <2>4. QED
    BY <2>3 DEF d, e
<1>21. QED
  BY <1>18, <1>19, <1>20, Zenon

(* What mcweatherd writes of the configuration it has parsed, its parser   *)
(* takes, and it means the same, whatever was in the files before: the     *)
(* operator<< of Config writes nothing that its grammar rejects.           *)
THEOREM WrittenMeansTheSame == Spec => []RoundTrips
<1>1. TypeOK /\ GoodInv => RoundTrips
  <2> SUFFICES ASSUME TypeOK, GoodInv, phase = "idle", rc
               PROVE  /\ Accepts(Dump(cfg))
                      /\ Meaning(Dump(cfg)) =
                            [cfg EXCEPT !.runService = TRUE,
                                        !.weather = NewWeather]
    BY DEF RoundTrips
  <2>1. cfg \in Configs /\ IsGood(cfg) /\ cfg.service.addresses # "none"
    BY DEF TypeOK, GoodInv
  <2>2. cfg.service \in Services
    BY <2>1 DEF Configs
  <2>3. IsDump(Dump(cfg), cfg, SettingsOf(cfg.service))
    BY <2>1, <2>2, DumpIs
  <2>4. AreSettings(SettingsOf(cfg.service), cfg.service)
    BY <2>1, <2>2, SettingsAre
  <2>5. Accepts(Dump(cfg))
    BY <2>1, <2>2, <2>3, <2>4, DumpAccepted
  <2>6. QED
    BY <2>1, <2>3, <2>4, <2>5, DumpMeans
<1>2. QED
  BY <1>1, GoodInductive, TypeCorrect, PTL
----------------------------------------------------------------------------
(* How long a Parse can go on: each item is read from the file and taken   *)
(* from the scanner once, and yyparse returns once.                        *)
ParserLeft == IF phase = "idle" THEN 0 ELSE 1 + Len(buf) + 2 * Len(src)

(* Each step of yyparse lowers that; only the next Parse sets it anew.     *)
ParserRunsOut ==
    [][/\ ParserStep => ParserLeft' < ParserLeft
       /\ phase = "parsing" => ParserLeft' <= ParserLeft]_vars

(* Whatever stands in a file and was left in the scanner, yyparse reads    *)
(* nothing twice, and returns after a number of steps that is set by what  *)
(* there was to read; every step that is taken while it runs is its own.   *)
THEOREM ParsesAreFinite == Spec => ParserRunsOut
<1>1. TypeOK /\ [Next]_vars =>
         [/\ ParserStep => ParserLeft' < ParserLeft
          /\ phase = "parsing" => ParserLeft' <= ParserLeft]_vars
  <2> SUFFICES ASSUME TypeOK, Next
               PROVE  /\ ParserStep => ParserLeft' < ParserLeft
                      /\ phase = "parsing" => ParserLeft' <= ParserLeft
    OBVIOUS
  <2>1. /\ Len(buf) \in Nat /\ Len(src) \in Nat /\ ParserLeft \in Nat
        /\ buf # <<>> => Len(Tail(buf)) = Len(buf) - 1
        /\ src # <<>> => Len(src) > 0
    BY DEF TypeOK, ParserLeft
  <2>2. ASSUME ParserStep
        PROVE  /\ phase = "parsing"
               /\ ParserLeft' < ParserLeft /\ ParserLeft' <= ParserLeft
    <3>1. CASE Refill
      BY <2>1, <3>1 DEF Refill, ParserLeft
    <3>2. CASE TakesItem
      <4>1. /\ phase = "parsing" /\ phase' = "parsing" /\ buf # <<>>
            /\ buf' = Tail(buf) /\ src' = src
        BY <3>2 DEF TakesItem, OpenSection, Setting, SyslogSetting,
                    CloseSection, Next1, Taken
      <4>2. QED
        BY <2>1, <4>1 DEF ParserLeft
    <3>3. CASE ScanOutOfStep \/ Accept \/ Truncated \/ Unquoted \/ Error
      <4>1. phase = "parsing" /\ phase' = "idle"
        BY <3>3 DEF ScanOutOfStep, Accept, Truncated, Unquoted, Error, Fail,
                    EndOfFile, Next1
      <4>2. QED
        BY <2>1, <4>1 DEF ParserLeft
    <3>4. QED
      BY <2>2, <3>1, <3>2, <3>3 DEF ParserStep, TakesItem
  <2>3. ASSUME phase = "parsing" PROVE ParserStep
    BY <2>3 DEF Next, Parse, OpenFails
  <2>4. QED
    BY <2>2, <2>3
<1>2. QED
  BY <1>1, TypeCorrect, PTL DEF ParserRunsOut, Spec

=============================================================================
