-------------------------- MODULE MCWeatherService --------------------------
(***************************************************************************)
(* Two places that share a name, and the configurations between which the  *)
(* dashboard is restarted.                                                 *)
(***************************************************************************)
EXTENDS WeatherService

Here == [name |-> "Springfield", country |-> "US"]
There == [name |-> "Springfield", country |-> "GB"]

MCLocations ==
  {[key |-> "a", place |-> NoPlace], [key |-> "a", place |-> Here], [key |-> "b", place |-> There]}

MCHome == {[key |-> "a", place |-> Here]}

At(key, place) == CHOOSE l \in MCLocations : l.key = key /\ l.place = place

Config(mode, location, place, credential) ==
  [mode |-> mode, location |-> location, place |-> place, credential |-> credential]

MCAutomatic == {Config("Automatic", NoLocation, NoPlace, TRUE)}

MCConfigs ==
  MCAutomatic \cup
  {Config("Unconfigured", NoLocation, NoPlace, TRUE),
   Config("Coordinates", At("a", NoPlace), NoPlace, TRUE),
   Config("City", NoLocation, There, TRUE),
   Config("Automatic", NoLocation, NoPlace, FALSE)}

Hour(time, chance) == [time |-> time, chance |-> chance]
Day(sunrise, sunset) == [sunrise |-> sunrise, sunset |-> sunset]

MCForecast ==
  {[hours |-> <<Hour(0, 40), Hour(2, 10)>>, days |-> <<Day(0, 1)>>, offset |-> 0, night |-> FALSE]}

\* Two days of two hours of two ticks, seen from two time zones.
MCForecasts ==
  {[hours |-> <<Hour(0, 40), Hour(2, 10), Hour(4, 70), Hour(6, 20)>>,
    days |-> <<Day(1, 3), Day(5, 6)>>, offset |-> 0, night |-> TRUE],
   [hours |-> <<Hour(None, 90), Hour(1, 30), Hour(3, 60)>>,
    days |-> <<Day(None, 2), Day(2, 4)>>, offset |-> 2, night |-> FALSE]}
=============================================================================
