------------------------------- MODULE Config -------------------------------
(***************************************************************************)
(* Config::Parse with its scanner, which is static: every Parse of a       *)
(* process uses the same one, whatever Config object and file it is for.   *)
(*                                                                         *)
(* A file is a sequence of items: "name {" opens a section, "name = ...;"  *)
(* is a setting, "};" closes the section, and an item of sort "junk" is    *)
(* text that no rule takes where it stands.  "quote" is a string that the  *)
(* end of the file cuts off; it is the last item of its file.  Strings are *)
(* in quotes, as in the example configuration, and a file fits into the    *)
(* scanner's buffer.  Values are names: what matters of them is where they *)
(* end up, and whether they are taken at all: the parser's action may      *)
(* reject one ("bad"), and the scanner has no token for an empty string.   *)
(***************************************************************************)
EXTENDS Naturals, Sequences

CONSTANTS
    Texts,         \* the names and values that a file may have
    Files,         \* the files that may be parsed
    MaxParses      \* bound on the Parses in one process

VARIABLES
    phase,         \* between two Parses, or in yyparse
    buf,           \* read by the scanner and not scanned yet
    src,           \* in the opened file and not read by the scanner yet
    odd,           \* the scanner's start condition is x_quoted
    sec,           \* the section the parser is in, or "top"
    some,          \* yyparse has had a stanza (at the top) or a setting
    val,           \* the semantic value of the section so far
    cfg,           \* the Config
    rc,            \* what the last Parse returned
    given,         \* history: the file of the last Parse
    ahead,         \* history: what the scanner held before it
    oddAhead,      \* history: odd before it
    parses         \* Parses so far

scanner == <<buf, src, odd>>
parser == <<sec, some, val>>
vars == <<phase, scanner, parser, cfg, rc, given, ahead, oddAhead, parses>>

Sections == {"cache", "service", "syslog", "weather"}

(* The settings of a section. *)
KeysOf == [cache |-> {"store"},
           service |-> {"addresses", "keyDirectory", "allowedClients"},
           syslog |-> {"facility", "level", "logLocations"},
           weather |-> {"location", "stations"}]

(* The values that make an error of their setting. *)
Refused == {"bad", ""}

Items == [sort : {"open", "set", "close", "junk", "quote"},
          name : Texts, val : Texts]

(* The defaults are texts. *)
ASSUME TextsAssumption ==
    {"", "none", "any", "zero", "no", "daemon", "info", "/tmp/weatherCache",
     "/usr/local/etc/mcweatherd"} \subseteq Texts

(* A file is a sequence of items. *)
ASSUME FilesAssumption == Files \subseteq Seq(Items) /\ MaxParses \in Nat

Plain(sort) == [sort |-> sort, name |-> "", val |-> ""]

Open(name) == [sort |-> "open", name |-> name, val |-> ""]

Set(key, v) == [sort |-> "set", name |-> key, val |-> v]

(* A ServiceConfig and a WeatherConfig as new makes them. *)
NewService ==
    [addresses |-> "none", keyDirectory |-> "", allowedClients |-> "none"]

NewWeather == [location |-> "zero", stations |-> "none"]

(* ServiceConfig::Clear *)
ClearedService ==
    [NewService EXCEPT !.keyDirectory = "/usr/local/etc/mcweatherd"]

(* Config::Clear *)
Cleared ==
    [store |-> "/tmp/weatherCache",
     syslog |-> [facility |-> "daemon", level |-> "info",
                 logLocations |-> "no"],
     runService |-> FALSE,
     service |-> ClearedService,
     weather |-> NewWeather]

Services == [addresses : Texts, keyDirectory : Texts,
             allowedClients : Texts]

Weathers == [location : Texts, stations : Texts]

Configs == [store : Texts,
            syslog : [facility : Texts, level : Texts,
                      logLocations : Texts],
            runService : BOOLEAN, service : Services, weather : Weathers]

TypeOK ==
    /\ phase \in {"idle", "parsing"}
    /\ buf \in Seq(Items) /\ src \in Seq(Items) /\ odd \in BOOLEAN
    /\ sec \in Sections \cup {"top"}
    /\ some \in BOOLEAN
    /\ sec = "service" => val \in Services
    /\ sec = "weather" => val \in Weathers
    /\ sec = "cache" => val \in [store : Texts]
    /\ cfg \in Configs
    /\ rc \in BOOLEAN
    /\ given \in Seq(Items) /\ ahead \in Seq(Items) /\ oddAhead \in BOOLEAN
    /\ parses \in 0..MaxParses
    /\ phase = "idle" => src = <<>>

Init ==
    /\ phase = "idle"
    /\ buf = <<>> /\ src = <<>> /\ odd = FALSE
    /\ sec = "top" /\ some = FALSE /\ val = <<>>
    /\ cfg = Cleared
    /\ rc = FALSE
    /\ given = <<>> /\ ahead = <<>> /\ oddAhead = FALSE
    /\ parses = 0

----------------------------------------------------------------------------
(* Parse *)

(* Clear, fopen, and the call of yyparse with its empty stack. *)
Begin(f) ==
    /\ src' = f
    /\ cfg' = Cleared

Parse(f) ==
    /\ phase = "idle" /\ parses < MaxParses
    /\ parses' = parses + 1
    /\ Begin(f)
    /\ given' = f /\ ahead' = buf /\ oddAhead' = odd
    /\ phase' = "parsing"
    /\ sec' = "top" /\ some' = FALSE /\ val' = <<>>
    /\ UNCHANGED <<buf, odd, rc>>

(* The file cannot be opened. *)
OpenFails ==
    /\ phase = "idle" /\ parses < MaxParses
    /\ parses' = parses + 1
    /\ cfg' = Cleared
    /\ rc' = FALSE
    /\ given' = <<>> /\ ahead' = <<>> /\ oddAhead' = FALSE
    /\ UNCHANGED <<phase, scanner, parser>>

(* The file stays open, and is read on. *)
Fail_NoClose(left) ==
    /\ phase' = "idle"
    /\ rc' = FALSE
    /\ buf' = left
    /\ sec' = "top" /\ some' = FALSE /\ val' = <<>>
    /\ UNCHANGED <<src, cfg, given, ahead, oddAhead, parses>>

(* Parse returns with an error: fclose drops what was not read of the      *)
(* file, and the scanner keeps what it has read.                           *)
Fail(left) ==
    /\ phase' = "idle"
    /\ rc' = FALSE
    /\ buf' = left
    /\ src' = <<>>
    /\ sec' = "top" /\ some' = FALSE /\ val' = <<>>
    /\ UNCHANGED <<cfg, given, ahead, oddAhead, parses>>

(* YY_INPUT reads from the file that is open now. *)
Refill ==
    /\ phase = "parsing" /\ buf = <<>> /\ src # <<>> /\ ~odd
    /\ buf' = src
    /\ src' = <<>>
    /\ UNCHANGED <<phase, odd, parser, cfg, rc, given, ahead, oddAhead,
                   parses>>

(* In x_quoted the file's text up to its first quote is a string, which    *)
(* begins no section, and what comes after it is out of step with the      *)
(* quotes; a file that is cut off in a string brings it into step again.   *)
(* The Parses that fail on the rest of the file are taken as this one.     *)
ScanOutOfStep ==
    /\ phase = "parsing" /\ buf = <<>> /\ odd
    /\ odd' = (src = <<>> \/ src[Len(src)].sort # "quote")
    /\ Fail(IF odd' THEN <<>> ELSE <<Plain("junk")>>)

----------------------------------------------------------------------------
(* The rules of the grammar, each taking the next item. *)

Item == Head(buf)

Next1(sort) == phase = "parsing" /\ buf # <<>> /\ Item.sort = sort

Taken ==
    /\ buf' = Tail(buf)
    /\ UNCHANGED <<phase, src, odd, rc, given, ahead, oddAhead, parses>>

OpenSection ==
    /\ Next1("open") /\ sec = "top" /\ Item.name \in Sections
    /\ sec' = Item.name
    /\ some' = FALSE
    /\ val' = CASE Item.name = "service" -> NewService
                [] Item.name = "weather" -> NewWeather
                [] Item.name = "cache" -> [store |-> ""]
                [] OTHER -> <<>>
    /\ UNCHANGED cfg
    /\ Taken

(* The setters of ServiceConfig, and those of WeatherConfig. *)
ServiceWith(service, key, v) == [service EXCEPT ![key] = v]

WeatherWith(weather, key, v) == [weather EXCEPT ![key] = v]

(* The section's value with one more setting. *)
WithSetting(key, v) ==
    CASE sec = "service" -> ServiceWith(val, key, v)
      [] sec = "weather" -> WeatherWith(val, key, v)
      [] OTHER -> [store |-> v]

(* CacheDirectory is the only setting of its section, and comes once. *)
Allowed ==
    /\ sec # "top" /\ Item.name \in KeysOf[sec]
    /\ sec = "cache" => ~some
    /\ Item.val \notin Refused

(* The Config gets a service's setting at once. *)
Setting_Early ==
    /\ Next1("set") /\ sec # "syslog" /\ Allowed
    /\ val' = WithSetting(Item.name, Item.val)
    /\ cfg' = IF sec = "service" THEN [cfg EXCEPT !.service = val'] ELSE cfg
    /\ some' = TRUE
    /\ UNCHANGED sec
    /\ Taken

(* ServiceSettings and WeatherData: the Config gets it with the section. *)
Setting ==
    /\ Next1("set") /\ sec # "syslog" /\ Allowed
    /\ val' = WithSetting(Item.name, Item.val)
    /\ some' = TRUE
    /\ UNCHANGED <<sec, cfg>>
    /\ Taken

(* "no" is taken for what it says. *)
WithSyslog_No(name, v) == [cfg EXCEPT !.syslog[name] = v]

(* logLocations can be switched on only. *)
WithSyslog(name, v) ==
    IF name = "logLocations" /\ v # "yes" THEN cfg
    ELSE [cfg EXCEPT !.syslog[name] = v]

(* SyslogFacility, SyslogLevel, SyslogLocations: the Config gets it now. *)
SyslogSetting ==
    /\ Next1("set") /\ sec = "syslog" /\ Allowed
    /\ cfg' = WithSyslog(Item.name, Item.val)
    /\ some' = TRUE
    /\ UNCHANGED <<sec, val>>
    /\ Taken

(* Cache, Service, Weather: the section's value replaces the Config's. *)
WithSection ==
    CASE sec = "cache" -> [cfg EXCEPT !.store = val.store]
      [] sec = "service" -> [cfg EXCEPT !.runService = TRUE, !.service = val]
      [] sec = "weather" -> [cfg EXCEPT !.weather = val]
      [] OTHER -> cfg

CloseSection ==
    /\ Next1("close") /\ sec # "top" /\ some
    /\ cfg' = WithSection
    /\ sec' = "top"
    /\ some' = TRUE
    /\ val' = <<>>
    /\ Taken

(* The service is given the wildcard addresses when it has none. *)
Filled(service) ==
    IF service.addresses = "none" THEN [service EXCEPT !.addresses = "any"]
    ELSE service

(* The scanner begins again at the end of the file. *)
EndOfFile_Wraps ==
    phase = "parsing" /\ buf = <<>> /\ src = <<>> /\ ~odd /\ sec # "top"

EndOfFile == phase = "parsing" /\ buf = <<>> /\ src = <<>> /\ ~odd

Accept ==
    /\ EndOfFile /\ sec = "top" /\ some
    /\ phase' = "idle"
    /\ rc' = TRUE
    /\ cfg' = [cfg EXCEPT !.service = Filled(cfg.service)]
    /\ UNCHANGED <<scanner, parser, given, ahead, oddAhead, parses>>

(* The end of the file comes too early; flex restarts its buffer there. *)
Truncated == EndOfFile /\ ~(sec = "top" /\ some) /\ Fail(<<>>)
             /\ UNCHANGED odd

(* The string swallows the rest of the file. *)
Unquoted ==
    /\ Next1("quote")
    /\ odd' = TRUE
    /\ Fail(<<>>)

(* The item in error may leave some of its tokens: a Parse takes one. *)
LeftByError ==
    {Tail(buf), <<[Item EXCEPT !.sort = "junk"]>> \o Tail(buf)}

(* A token that no rule takes here, or a value that is refused. *)
Error ==
    /\ phase = "parsing" /\ buf # <<>> /\ Item.sort # "quote"
    /\ ~(Item.sort = "open" /\ sec = "top" /\ Item.name \in Sections)
    /\ ~(Item.sort = "set" /\ Allowed)
    /\ ~(Item.sort = "close" /\ sec # "top" /\ some)
    /\ \E left \in LeftByError : Fail(left)
    /\ UNCHANGED odd

(* yyparse, until it returns. *)
ParserStep ==
    \/ Refill
    \/ ScanOutOfStep
    \/ OpenSection
    \/ Setting
    \/ SyslogSetting
    \/ CloseSection
    \/ Accept
    \/ Truncated
    \/ Unquoted
    \/ Error

Next ==
    \/ \E f \in Files : Parse(f)
    \/ OpenFails
    \/ ParserStep

Fairness == WF_vars(ParserStep)

Spec == Init /\ [][Next]_vars /\ Fairness

----------------------------------------------------------------------------
(* operator<< *)

Section(name, settings) == <<Open(name)>> \o settings \o <<Plain("close")>>

(* A setting that is written only when there is something to write. *)
Unless(nothing, key, v) == IF v = nothing THEN <<>> ELSE <<Set(key, v)>>

(* The service section as text. *)
DumpService(service) ==
    Section("service",
            Unless("none", "addresses", service.addresses)
         \o Unless("", "keyDirectory", service.keyDirectory)
         \o Unless("none", "allowedClients", service.allowedClients))

(* logLocations is written as a number. *)
Dump_Numeric(c) ==
       Section("cache", <<Set("store", c.store)>>)
    \o DumpService(c.service)
    \o Section("syslog",
               <<Set("facility", c.syslog.facility),
                 Set("level", c.syslog.level),
                 Set("logLocations",
                     IF c.syslog.logLocations = "yes" THEN "1" ELSE "0")>>)

(* The configuration as text: all but the weather section. *)
Dump(c) ==
       Section("cache", <<Set("store", c.store)>>)
    \o DumpService(c.service)
    \o Section("syslog",
               <<Set("facility", c.syslog.facility),
                 Set("level", c.syslog.level),
                 Set("logLocations", c.syslog.logLocations)>>)

----------------------------------------------------------------------------
(* What a text means, said of its positions instead of its parser. *)

Last(S) == CHOOSE i \in S : \A j \in S : j <= i

Opened(f, name) ==
    {i \in DOMAIN f : f[i].sort = "open" /\ f[i].name = name}

(* The positions of the settings after an opened section. *)
Body(f, i) ==
    {j \in DOMAIN f : j > i /\ \A k \in (i + 1)..j : f[k].sort = "set"}

(* The last one counts. *)
ValueIn(f, key, positions, default) ==
    LET found == {i \in positions : f[i].sort = "set" /\ f[i].name = key}
    IN  IF found = {} THEN default ELSE f[Last(found)].val

ServiceAt(f, i) ==
    [k \in KeysOf.service |-> ValueIn(f, k, Body(f, i), NewService[k])]

WeatherAt(f, i) ==
    [k \in KeysOf.weather |-> ValueIn(f, k, Body(f, i), NewWeather[k])]

Accepts(f) ==
    /\ f # <<>> /\ f[Len(f)].sort = "close"
    /\ \A i \in DOMAIN f :
          LET before == IF i = 1 THEN "close" ELSE f[i - 1].sort
          IN  \/ /\ f[i].sort = "open" /\ f[i].name \in Sections
                 /\ before = "close"
              \/ /\ f[i].sort = "set" /\ f[i].val \notin Refused
                 /\ \E j \in DOMAIN f :
                       /\ f[j].sort = "open" /\ i \in Body(f, j)
                       /\ f[i].name \in KeysOf[f[j].name]
                       /\ f[j].name = "cache" => i = j + 1
              \/ f[i].sort = "close" /\ before = "set"

Meaning(f) ==
    LET services == Opened(f, "service")
        service == IF services = {} THEN Cleared.service
                   ELSE ServiceAt(f, Last(services))
        weathers == Opened(f, "weather")
    IN  [store |-> ValueIn(f, "store", DOMAIN f, Cleared.store),
         syslog |->
            [k \in KeysOf.syslog |->
                IF k # "logLocations"
                THEN ValueIn(f, k, DOMAIN f, Cleared.syslog[k])
                ELSE IF \E i \in DOMAIN f : f[i] = Set(k, "yes")
                     THEN "yes" ELSE "no"],
         runService |-> services # {},
         service |-> Filled(service),
         weather |-> IF weathers = {} THEN Cleared.weather
                     ELSE WeatherAt(f, Last(weathers))]

----------------------------------------------------------------------------
(* Properties. *)

(* A Parse returns true exactly for what the grammar says of the text the  *)
(* scanner gives it, which is what an earlier Parse has left, followed by  *)
(* the file; and the Config is then what that text means: the last setting *)
(* in a section counts, the last section of its name counts as a whole,    *)
(* and settings that are not there have their defaults.  After a Parse     *)
(* that succeeded, nothing is left, and the text is the file.              *)
ParseIsExact ==
    phase = "idle" =>
        /\ rc <=> ~oddAhead /\ Accepts(ahead \o given)
        /\ rc => cfg = Meaning(ahead \o given)
        /\ rc => buf = <<>> /\ ~odd

(* Whatever a Parse ends with, and while it runs: the Config's service and *)
(* weather are the cleared ones or those of a section that was read to its *)
(* end, never the half of one that an error has cut off.                   *)
WholeSectionsOnly ==
    LET text == ahead \o given
        Closed(i) == \E j \in DOMAIN text :
            /\ text[j].sort = "close"
            /\ j > i + 1 /\ (i + 1)..(j - 1) \subseteq Body(text, i)
        Whole(name) == {i \in Opened(text, name) : Closed(i)}
        services == {Cleared.service}
                    \cup {ServiceAt(text, i) : i \in Whole("service")}
        weathers == {Cleared.weather}
                    \cup {WeatherAt(text, i) : i \in Whole("weather")}
    IN  /\ cfg.service \in services \cup {Filled(s) : s \in services}
        /\ cfg.weather \in weathers

(* What is written of a Config that was parsed can be parsed again, and    *)
(* means the same but for the weather section, which is not written.       *)
RoundTrips ==
    phase = "idle" /\ rc =>
        /\ Accepts(Dump(cfg))
        /\ Meaning(Dump(cfg)) =
              [cfg EXCEPT !.runService = TRUE, !.weather = NewWeather]

(* Every Parse returns, whatever is in the file and in the scanner. *)
ParseReturns == phase = "parsing" ~> phase = "idle"

=============================================================================
