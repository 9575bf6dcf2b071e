-------------------------------- MODULE MCGrep --------------------------------
EXTENDS Grep, TLC

\* Characters: three letters, one that is not ASCII, and * - [ ].
x == 1
y == 2
z == 3
n == 9
One(c) == [class |-> c, star |-> FALSE]
Star(c) == [class |-> c, star |-> TRUE]

MCChar == {x, y, z, n, 4, 5, 6, 7}
MCRegex ==
    <<>> :> <<>>
    @@ <<x, y>> :> <<One({x}), One({y})>>
    @@ <<x, y, Asterisk, x>> :> <<One({x}), Star({y}), One({x})>>
    @@ <<x, Open, y, Dash, z, Close, Asterisk>> :> <<One({x}), Star({y, z})>>
    @@ <<Open, x, Dash, y, Close, y>> :> <<One({x, y}), One({y})>>
    @@ <<Open, x, Dash, x, y, Dash, z, Close, x, Asterisk>> :> <<One({x, y, z}), Star({x})>>
    @@ <<y, Asterisk, x>> :> <<Star({y}), One({x})>>
    @@ <<Open, n, Dash, n, Close, x>> :> <<One({n}), One({x})>>
    @@ <<Open, n, Dash, x, Close>> :> <<One((9..15) \cup {0, 1})>>
    @@ <<Open, y, Dash, x, Close, x>> :> <<One({}), One({x})>>
    @@ <<Open, x, Dash>> :> <<>>
    @@ <<x, Open, Asterisk, Close>> :> <<>>
===============================================================================
