------------------------------ MODULE MCConfig ------------------------------
(* Config with the files that matter: each kind of section whole, repeated *)
(* and cut off, wrong settings and values, text out of place.              *)
EXTENDS Config

MCTexts == STRING

Store == Section("cache", <<Set("store", "a")>>)
Empty == Section("cache", <<>>)
Twice == Section("cache", <<Set("store", "b"), Set("store", "a")>>)
CutOff == <<Open("cache"), Plain("quote")>>
Keys == Section("service", <<Set("keyDirectory", "a")>>)
Clients ==
    Section("service", <<Set("allowedClients", "b"), Set("addresses", "a"),
                         Set("allowedClients", "a")>>)
BadPort ==
    Section("service", <<Set("keyDirectory", "b"), Set("addresses", "bad")>>)
Nameless ==
    Section("service", <<Set("addresses", "b"), Set("keyDirectory", "")>>)
Locations ==
    Section("syslog", <<Set("logLocations", "yes"), Set("level", "a")>>)
NoLocations ==
    Section("syslog", <<Set("facility", "b"), Set("logLocations", "no")>>)
Misplaced == Section("syslog", <<Set("level", "b"), Set("location", "b")>>)
Place == Section("weather", <<Set("location", "a"), Set("stations", "a")>>)
OnlyStations == Section("weather", <<Set("stations", "b")>>)
Unclosed == <<Open("weather"), Set("location", "b")>>
Stray == <<Plain("junk")>>

Whole == {Store, Keys, Clients, Locations, NoLocations, Place, OnlyStations}
Broken == {Empty, Twice, BadPort, Nameless, Misplaced, Unclosed, Stray}

MCFiles ==
    {<<>>, Store \o Keys \o Locations \o Place \o Clients, Stray \o CutOff}
    \cup {s \o t : s \in Whole, t \in Whole \cup {CutOff}}
    \cup {b \o s : b \in Broken, s \in {Place, Keys}}

=============================================================================
