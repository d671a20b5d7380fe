SPECIFICATION Spec
CONSTANTS
    NULL = NULL
    Parts = {"accounts", "directories", "commands", "signals"}
    Passwords <- MCPasswords
    Users = {"root", "toor", "local", "guest"}
    Uids = {0, 1, 2}
    Directories = {"bin", "usr"}
    DEFAULT_PATH <- MCDefault
    PATH <- MCPath
    Entries = {"a", "b"}
    MaxEntries = 2
    Streams = {"d", "e"}
    OpenFiles = 2
    Handlers = {"h1", "h2"}
    Threads = {1, 2}
    Permitted = {}
INVARIANT AccountsFound
INVARIANT EachEntryOnce
INVARIANT CommandIsFound
