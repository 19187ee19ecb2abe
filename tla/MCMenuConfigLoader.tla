------------------------- MODULE MCMenuConfigLoader -------------------------
(* Files by hand: the current schema with fields missing, renamed, null and *)
(* of other days; the older schema with names that collide in every way.    *)
EXTENDS MenuConfigLoader

Main(slots) == [id |-> <<"menu", "main">>, name |-> <<"main">>, actionIds |-> slots]

Items ==
  <<[type |-> "mouse_button", button |-> 1, down |-> FALSE],
    [type |-> "mouse_button", button |-> 2, down |-> Null, proceed |-> TRUE],
    [type |-> "socket", protocol |-> "ws", outputDst |-> "host", socketMsg |-> "hello"],
    [type |-> "socket", protocol |-> "gopher", destination |-> Null, httpMethod |-> "GET"],
    [type |-> "socket", protocol |-> "http", destination |-> "host", httpMethod |-> "GET"],
    [type |-> "cancel", level |-> "action", channel |-> -1],
    [type |-> "cancel", level |-> "all", channel |-> 2],
    [type |-> "search", webSearch |-> FALSE], [type |-> "teleport"],
    [type |-> "mouse_scroll", dx |-> 1], [type |-> "nth_recent"], NoFields>>

Partial ==
  [darkMode |-> TRUE, themeOverlay |-> "themes/mine.qss", gameMouseCapture |-> "always",
   rice |-> [buttonRadiusPx |-> 90, innerDeadzonePx |-> Null, startAngleDegrees |-> Null],
   actions |-> <<[id |-> <<"one">>, items |-> Items, icon |-> "one.png"],
                 [id |-> <<"two">>, channel |-> 1]>>,
   menus |-> <<[rice |-> [buttonRadiusFraction |-> Null, innerDeadzonePx |-> Null]] ++ Main(<<<<"one">>>>),
               Main(<<>>) ++ [centerMouseOnOpen |-> FALSE]>>]

Script(name) == [name |-> name, type |-> "script", path |-> "a.bat"]

Older ==
  [startInTray |-> TRUE,
   menus |-> <<[name |-> <<"a">>, actions |-> <<Script(<<"x">>), Script(<<"x">>),
                                         Script(<<"x", "2">>), Script(<<"x">>)>>],
               [name |-> <<"a">>, actions |-> <<Script(<<"x">>), Script(<<>>)>>],
               [name |-> <<"a", "2">>, actions |-> <<[name |-> <<"x">>, type |-> "close"]>>],
               [name |-> <<>>, actions |-> <<NoFields, NoFields>>], NoFields>>]

NoMenus == [actions |-> <<>>, menus |-> <<>>, darkMode |-> TRUE]

Template == [actions |-> <<[id |-> <<"search">>, items |-> <<[type |-> "search"]>>]>>,
             menus |-> <<Main(<<<<"search">>>>)>>]

Edited ==
  [app |-> [ParsedApp(NoFields) EXCEPT !.gameMouseCapture = "unclip", !.rice = @ ++ [innerDeadzonePx |-> 4]],
   actions |-> <<[ActionDefaults EXCEPT !.id = <<"one">>, !.channel = Half - 1,
                    !.items = <<[type |-> "socket", args |-> [ItemDefaults.socket EXCEPT !.httpMethod = "PUT"]]>>]>>,
   menus |-> <<[MenuDefaults EXCEPT !.id = <<"m">>, !.rice = [startAngleDegrees |-> 30]]>>]

AllDeleted == [Edited EXCEPT !.menus = <<>>]

\* A channel below zero is read as one of the upper half.
Negative ==
  [actions |-> <<[id |-> <<"one">>], [id |-> <<"two">>, channel |-> -Half]>>,
   menus |-> <<Main(<<<<"one">>, <<"two">>>>)>>]

ByHand       == {Partial, Older, NoMenus}
Usual        == {Edited}
Deleting     == {AllDeleted}
Channels     == {Negative}
=============================================================================
