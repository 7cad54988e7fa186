\* Two statements; numbers of 4 and 8 bits; three keys in two buckets; commands of up to three
\* words; two definitions with lists longer than the stack; three registrations. The bounds on
\* allocations, commands, definitions and registrations end the behaviours.
CONSTANTS
    Stmt = {s1, s2}
    ParamCount = 1
    FieldCount = 2
    MaxBlocks = 7
    Width = 4
    Text = {0, 1, 2}
    Product = {7, 8}
    Location = {a1, a2, a3, a4, a5, a6, a7}
    Size = 2
    Words = {"set", "mode"}
    MaxWords = 3
    MaxCommands = 3
    Numbers = {0, 1}
    Address = {"a:1", "b:2"}
    Word = {"word"}
    MaxStack = 2
    MaxList = 3
    MaxDefs = 2
    Beans = {a, b, c}
    MaxEntries = 3
    None = None
SPECIFICATION AllSpec
CHECK_DEADLOCK FALSE
INVARIANTS
    StatementsSafe
    NumbersExact
    NamesFound
    CommandsFound
    FileUnderstood
    BeansWired
