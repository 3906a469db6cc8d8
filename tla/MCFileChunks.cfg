\* Layouts of up to four files of 0..3 bytes.
CONSTANTS
    MaxFiles = 4
    MaxFileSize = 3
SPECIFICATION Spec
INVARIANT ChunksPartitionRange
INVARIANT OneRequestPerFile
