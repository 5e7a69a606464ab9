------------------------------ MODULE MCServer ------------------------------
EXTENDS Server

S(std, requests, max, room, leaves, stop, password) ==
    [std |-> std, requests |-> requests, maxClients |-> max, room |-> room,
     leaves |-> leaves, stop |-> stop, password |-> password]

MCScenarios ==
    {S(FALSE, <<<<"QUIT", "PING">>, <<"PING">>>>, 9, 3, 0, FALSE, FALSE),
     S(FALSE, <<<<"PING", "EMPTY", "PING", "PING">>>>, 0, 1, 1, FALSE, FALSE),
     S(FALSE, <<<<"PING", "BAD", "PING">>, << >>>>, 9, 3, 0, FALSE, FALSE),
     S(FALSE, <<<<"PING">>>>, 2, 3, 1, TRUE, FALSE),
     S(FALSE, <<<<"EMPTY">>, <<"PING">>>>, 1, 3, 0, TRUE, FALSE),
     S(FALSE, <<<< >>, << >>, << >>>>, 1, 3, 1, FALSE, FALSE),
     S(TRUE, <<<<"SUBSCRIBE">>, <<"PUBLISH", "PUBLISH">>>>, 9, 1, 0, FALSE, FALSE),
     S(TRUE, <<<<"SUBSCRIBE">>, <<"SUBSCRIBE">>, <<"PUBLISH">>>>, 9, 2, 0, FALSE, FALSE),
     S(TRUE, <<<<"SUBSCRIBE">>, <<"PUBLISH">>, <<"PUBLISH">>>>, 9, 3, 0, FALSE, FALSE),
     S(TRUE, <<<<"SUBSCRIBE", "PING">>, <<"PUBLISH">>>>, 9, 3, 1, FALSE, FALSE),
     S(TRUE, <<<<"SUBSCRIBE", "PING", "EMPTY", "PING", "SUBSCRIBE">>>>, 9, 2, 1, FALSE, FALSE),
     S(TRUE, <<<<"SUBSCRIBE", "QUIT", "PING", "PING">>>>, 9, 9, 0, FALSE, FALSE),
     S(TRUE, <<<<"SUBSCRIBE", "AUTH", "SUBSCRIBE", "QUIT">>>>, 9, 9, 0, FALSE, TRUE),
     S(TRUE, <<<<"PUBLISH", "PSYNC", "AUTH", "PSYNC">>>>, 9, 9, 1, TRUE, TRUE)}
=============================================================================
