\* One reader lists all towers and then those with a name.
SPECIFICATION Spec
CONSTANTS
    t1 = t1
    t2 = t2
    Towers = {t1, t2}
    Readers = {r1}
    Writers = {}
    Filters <- AllAndNamed
    MaxVersion = 0
    Elsewhere = FALSE
INVARIANTS ListShowsItsName
