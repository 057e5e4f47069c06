----------------------------- MODULE MCRecords -----------------------------
(* Records with answers that have each of their parts missing, of another  *)
(* type or in another unit.                                                *)
EXTENDS Records

Quantity(value, unit) ==
    Obj([value |-> value, unitCode |-> Str(unit),
         qualityControl |-> Str("V")])

Celsius(n) == Quantity(Tenths(n), "wmoUnit:degC")

Missing(unit) == Quantity(Null, unit)

Observed ==
    [station |-> Str(<<"stations", "near">>),
     temperature |-> Celsius(72),
     relativeHumidity |-> Quantity(Whole(81), "wmoUnit:percent"),
     barometricPressure |-> Quantity(Whole(101325), "wmoUnit:Pa"),
     dewpoint |-> Celsius(-39),
     windSpeed |-> Quantity(Tenths(185), "wmoUnit:km_h-1"),
     windChill |-> Celsius(-403),
     heatIndex |-> Missing("wmoUnit:degC")]

Without(props, name) == [m \in DOMAIN props \ {name} |-> props[m]]

Answer(props) == Obj([properties |-> Obj(props)])

MCConditions ==
    {Answer(props) : props \in
        {Observed,
         [Observed EXCEPT !.station = Str(<<"stations", "far">>),
                          !.windSpeed = Missing("unit:m_s-1"),
                          !.windChill = Missing("wmoUnit:degC"),
                          !.heatIndex = Celsius(411)],
         [Observed EXCEPT !.station = Str(<<"stations", "">>),
                          !.windSpeed = Quantity(Whole(7), "unit:m_s-1"),
                          !.temperature = Quantity(Whole(-12), "unit:degF")],
         [Observed EXCEPT !.temperature = Missing("wmoUnit:degC")],
         [Observed EXCEPT !.dewpoint = Missing("wmoUnit:degC"),
                          !.relativeHumidity = Missing("wmoUnit:percent")],
         [Observed EXCEPT !.temperature = Quantity(Whole(280), "unknown"),
                          !.windSpeed = Quantity(Whole(5), "unknown")],
         [Observed EXCEPT !.windChill = Quantity(Whole(3000000),
                                                 "wmoUnit:degC"),
                          !.heatIndex = Quantity(Whole(300), "unit:K"),
                          !.windSpeed = Celsius(50)],
         [Observed EXCEPT !.barometricPressure =
                              Obj([value |-> Whole(1), unitCode |-> Null])],
         [Observed EXCEPT !.station = Null],
         Without(Observed, "heatIndex"),
         Without(Observed, "relativeHumidity")}}
    \cup {Obj([title |-> Str("Not Found")])}

Time(instant, offset) ==
    Str([well |-> TRUE, at |-> instant, zone |-> offset])

NoTime == Str([well |-> FALSE, at |-> 0, zone |-> 0])

Hourly(instant, offset) ==
    [name |-> Str("hour"), startTime |-> Time(instant, offset),
     endTime |-> Time(instant + 1, offset), isDaytime |-> Bool(TRUE),
     temperature |-> Whole(50), temperatureUnit |-> Str("F"),
     windSpeed |-> Str("5 mph"), windDirection |-> Str("N"),
     shortForecast |-> Str("Fog"), detailedForecast |-> Str(<<>>)]

Daily(instant, offset) ==
    [Hourly(instant, offset) EXCEPT
        !.name = Str("day"), !.endTime = Time(instant + 12, offset),
        !.temperature = Tenths(615),
        !.detailedForecast = Str(<<3, 4, 8, 30, 2, 11, 1, 1>>)]

Listed(periods) ==
    Answer([periods |->
        Arr([i \in DOMAIN periods |-> Obj(periods[i])])])

MCPeriods ==
    {Listed(<<Daily(100, -5), Daily(112, -5)>>),
     Listed(<<Hourly(199, -4), Hourly(200, -5)>>),
     Listed(<<Hourly(198, -7), Hourly(200, -7)>>),
     Listed(<<Hourly(150, -5), Hourly(151, -5)>>),
     Listed(<<[Daily(190, 2) EXCEPT !.startTime = NoTime,
                                    !.isDaytime = Bool(FALSE),
                                    !.temperatureUnit = Str("")]>>),
     Listed(<<Without(Hourly(210, -5), "temperature"),
              [Daily(214, -5) EXCEPT !.temperature = Null,
                                     !.isDaytime = Null]>>),
     Listed(<<>>),
     Answer([updated |-> Null])}

Point ==
    [forecast |-> Str("f"), forecastHourly |-> Str("h"),
     observationStations |-> Str("o"), gridX |-> Whole(65),
     gridY |-> Whole(33), forecastZone |-> Str("z")]

MCPoints ==
    {Answer(props) : props \in
        {Point,
         [Point EXCEPT !.forecast = Str("f2"), !.gridX = Whole(66),
                       !.observationStations = Str("o2"),
                       !.forecastHourly = Str("h2"), !.gridY = Whole(0),
                       !.forecastZone = Str("z2")],
         [Point EXCEPT !.gridX = Tenths(655)],
         Without(Point, "forecastZone"),
         Without(Point, "forecast")}}

Feature(id, name) ==
    Obj([properties |-> Obj([stationIdentifier |-> id, name |-> name])])

MCStations ==
    {Obj([features |-> Arr(list)]) : list \in
        {<<Feature(Str("a"), Str("A")), Feature(Str("b"), Null)>>,
         <<Feature(Null, Str("A")), Str("b"), Feature(Str("c"), Str("C"))>>,
         <<Obj([geometry |-> Null])>>}}
    \cup {Obj([features |-> Null])}

MCStandard == -5

MCDaylight == -4

MCAnswers ==
    [conditions |-> MCConditions, periods |-> MCPeriods, point |-> MCPoints,
     stations |-> MCStations]

=============================================================================
